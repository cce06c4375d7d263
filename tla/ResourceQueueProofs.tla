-------------------------- MODULE ResourceQueueProofs --------------------------
(***************************************************************************)
(* What ResourceQueue guarantees for any number of requests and of keys,   *)
(* any capacity and any updates.                                           *)
(***************************************************************************)
EXTENDS ResourceQueueInv, SequenceTheorems, FiniteSetTheorems, TLAPS

-----------------------------------------------------------------------------
(* Sorted sets.                                                            *)

\* Places tell the members of a finite set apart, and all are taken.
LEMMA Places ==
  ASSUME NEW S, IsFiniteSet(S), NEW R, StrictOrder(S, R)
  PROVE  /\ \A x \in S : Place(S, R, x) + 1 \in 1 .. Cardinality(S)
         /\ \A x, y \in S : <<x, y>> \in R <=> Place(S, R, x) < Place(S, R, y)
         /\ \A n \in 1 .. Cardinality(S) : \E x \in S : Place(S, R, x) = n - 1
<1>. DEFINE N == Cardinality(S)
            P(x) == Preceding(S, R, x)
            f == [x \in S |-> Place(S, R, x) + 1]
<1>1. N \in Nat
  BY FS_CardinalityType
<1>2. ASSUME NEW x \in S
      PROVE  IsFiniteSet(P(x)) /\ Cardinality(P(x)) \in Nat /\ Cardinality(P(x)) < N
  <2>1. P(x) \in SUBSET S /\ x \notin P(x)
    BY DEF Preceding, StrictOrder
  <2>2. IsFiniteSet(P(x)) /\ Cardinality(P(x)) <= N /\ (N = Cardinality(P(x)) => S = P(x))
    BY <2>1, FS_Subset
  <2>3. Cardinality(P(x)) \in Nat
    BY <2>2, FS_CardinalityType
  <2>. QED  BY <1>1, <1>2, <2>1, <2>2, <2>3
<1>3. ASSUME NEW x \in S, NEW y \in S, <<x, y>> \in R
      PROVE  Cardinality(P(x)) < Cardinality(P(y))
  <2>1. P(x) \in SUBSET P(y) /\ x \in P(y) /\ x \notin P(x)
    BY <1>3 DEF Preceding, StrictOrder
  <2>2. Cardinality(P(x)) <= Cardinality(P(y))
        /\ (Cardinality(P(y)) = Cardinality(P(x)) => P(y) = P(x))
    BY <1>2, <2>1, FS_Subset
  <2>. QED  BY <1>2, <2>1, <2>2
<1>. DEFINE pl(x) == Place(S, R, x)
<1>4. \A x \in S : pl(x) \in Nat /\ pl(x) < N
  BY <1>2 DEF Place
<1>5. \A x, y \in S : <<x, y>> \in R => pl(x) < pl(y)
  BY <1>3 DEF Place
<1>6. \A x, y \in S : x = y \/ <<x, y>> \in R \/ <<y, x>> \in R
  BY DEF StrictOrder
<1>7. \A x \in S : <<x, x>> \notin R
  BY DEF StrictOrder
<1>8. \A x, y \in S : <<x, y>> \in R => <<y, x>> \notin R
  BY DEF StrictOrder
<1>. HIDE DEF P, pl
<1>9. ASSUME NEW x \in S, NEW y \in S
      PROVE  <<x, y>> \in R <=> pl(x) < pl(y)
  <2>1. pl(x) \in Nat /\ pl(y) \in Nat
    BY <1>4
  <2>2. CASE <<x, y>> \in R
    BY <1>5, <2>2
  <2>3. CASE <<y, x>> \in R
    BY <1>5, <1>8, <2>1, <2>3
  <2>4. CASE x = y
    BY <1>7, <2>1, <2>4
  <2>. QED  BY <1>6, <2>2, <2>3, <2>4
<1>10. f \in [S -> 1 .. N] /\ \A x \in S : f[x] = pl(x) + 1
  BY <1>1, <1>4 DEF pl
<1>11. ASSUME NEW x \in S, NEW y \in S, f[x] = f[y]
      PROVE  x = y
  <2>1. pl(x) \in Nat /\ pl(y) \in Nat /\ pl(x) = pl(y)
    BY <1>4, <1>10, <1>11
  <2>2. <<x, y>> \notin R /\ <<y, x>> \notin R
    BY <1>5, <2>1
  <2>. QED  BY <1>6, <2>2
<1>12. f \in Injection(S, 1 .. N)
  BY <1>10, <1>11 DEF Injection, IsInjective
<1>13. IsFiniteSet(1 .. N) /\ Cardinality(1 .. N) = N
  BY <1>1, FS_Interval
<1>14. f \in Surjection(S, 1 .. N)
  BY <1>12, <1>13, FS_Injection
<1>15. \A n \in 1 .. N : \E x \in S : f[x] = n
  BY <1>14 DEF Surjection
<1>16. ASSUME NEW n \in 1 .. N
       PROVE  \E x \in S : pl(x) = n - 1
  <2>1. PICK x \in S : pl(x) + 1 = n
    BY <1>10, <1>15
  <2>. QED  BY <1>4, <2>1
<1>17. \A x \in S : pl(x) + 1 \in 1 .. N
  BY <1>1, <1>4
<1>. QED  BY <1>9, <1>16, <1>17 DEF pl

\* The sequence holds all members, each once and in order.
LEMMA SortedIs ==
  ASSUME NEW S, IsFiniteSet(S), NEW R, StrictOrder(S, R)
  PROVE  /\ Cardinality(S) \in Nat
         /\ SortedBy(S, R) \in [1 .. Cardinality(S) -> S]
         /\ \A i, j \in 1 .. Cardinality(S) :
              i < j => <<SortedBy(S, R)[i], SortedBy(S, R)[j]>> \in R
         /\ \A x \in S : \E i \in 1 .. Cardinality(S) : SortedBy(S, R)[i] = x
<1>. DEFINE N == Cardinality(S)
            q == SortedBy(S, R)
<1>1. N \in Nat
  BY FS_CardinalityType
<1>2. DOMAIN q = 1 .. N /\ \A n \in 1 .. N : q[n] = CHOOSE x \in S : Place(S, R, x) = n - 1
  BY DEF SortedBy
<1>3. \A n \in 1 .. N : q[n] \in S /\ Place(S, R, q[n]) = n - 1
  BY <1>2, Places
<1>4. q = [n \in 1 .. N |-> q[n]]
  BY DEF SortedBy
<1>. HIDE DEF q
<1>5. q \in [1 .. N -> S]
  BY <1>3, <1>4
<1>6. \A i, j \in 1 .. N : i < j => <<q[i], q[j]>> \in R
  BY <1>1, <1>3, Places
<1>7. ASSUME NEW x \in S
      PROVE  \E i \in 1 .. N : q[i] = x
  <2>1. PICK i \in 1 .. N : i = Place(S, R, x) + 1
    BY Places
  <2>2. q[i] \in S /\ Place(S, R, q[i]) = Place(S, R, x)
    <3>1. Place(S, R, q[i]) = i - 1 /\ q[i] \in S
      BY <1>3
    <3>2. Place(S, R, x) \in Nat
      BY <1>7, FS_Subset, FS_CardinalityType DEF Place, Preceding
    <3>. QED  BY <1>1, <2>1, <3>1, <3>2
  <2>3. Place(S, R, x) \in Nat
    BY <1>7, FS_Subset, FS_CardinalityType DEF Place, Preceding
  <2>4. <<q[i], x>> \notin R /\ <<x, q[i]>> \notin R
    BY <2>2, <2>3, Places
  <2>5. q[i] = x
    BY <2>2, <2>4 DEF StrictOrder
  <2>. QED  BY <2>1, <2>5
<1>. QED  BY <1>1, <1>5, <1>6, <1>7 DEF q

-----------------------------------------------------------------------------
(* Queues.                                                                 *)

InOrder(q, facts) ==
  \A i, j \in DOMAIN q : i < j => facts[q[i]].seen <= facts[q[j]].seen

\* The keys that stay, in the order of the queue.
LEMMA Positions ==
  ASSUME NEW q \in Seq(Keys), NEW S
  PROVE  LET w == WithoutKeys(q, S) IN
         /\ w \in Seq(Keys)
         /\ \A i \in DOMAIN w : \E j \in DOMAIN q : w[i] = q[j] /\ q[j] \notin S
         /\ \A j \in DOMAIN q : q[j] \notin S => \E i \in DOMAIN w : w[i] = q[j]
         /\ IsInjective(q) => IsInjective(w)
         /\ \A facts : InOrder(q, facts) => InOrder(w, facts)
<1>. DEFINE I == {i \in DOMAIN q : q[i] \notin S}
            R == {ij \in I \X I : ij[1] < ij[2]}
            at == SortedBy(I, R)
            N == Cardinality(I)
            w == [n \in 1 .. N |-> q[at[n]]]
<1>1. /\ Len(q) \in Nat /\ DOMAIN q = 1 .. Len(q) /\ q \in [1 .. Len(q) -> Keys]
  BY LenProperties
<1>2. IsFiniteSet(I)
  <2>1. I \in SUBSET (1 .. Len(q)) /\ IsFiniteSet(1 .. Len(q))
    BY <1>1, FS_Interval
  <2>. QED  BY <2>1, FS_Subset
<1>3. I \subseteq Nat
  BY <1>1
<1>4. \A i, j \in I : <<i, j>> \in R <=> i < j
  OBVIOUS
<1>5. StrictOrder(I, R)
  <2>. HIDE DEF I, R
  <2>. QED  BY <1>3, <1>4 DEF StrictOrder
<1>6. /\ N \in Nat /\ at \in [1 .. N -> I]
      /\ \A i, j \in 1 .. N : i < j => <<at[i], at[j]>> \in R
      /\ \A x \in I : \E i \in 1 .. N : at[i] = x
  <2>. HIDE DEF I, R
  <2>. QED  BY <1>2, <1>5, SortedIs
<1>7. WithoutKeys(q, S) = w
  <2>1. DOMAIN at = 1 .. N
    BY <1>6
  <2>. HIDE DEF N
  <2>. QED  BY <2>1 DEF WithoutKeys, Increasing
<1>8. \A i \in 1 .. N : at[i] \in DOMAIN q /\ q[at[i]] \notin S
  BY <1>6
<1>9. \A i, j \in 1 .. N : i < j => at[i] < at[j]
  BY <1>4, <1>6
<1>10. \A j \in DOMAIN q : q[j] \notin S => \E i \in 1 .. N : at[i] = j
  BY <1>6
<1>11. N \in Nat
  BY <1>6
<1>. HIDE DEF I, R, at, N
<1>12. w \in [1 .. N -> Keys] /\ DOMAIN w = 1 .. N /\ \A i \in 1 .. N : w[i] = q[at[i]]
  BY <1>1, <1>8
<1>. HIDE DEF w
<1>13. w \in Seq(Keys)
  BY <1>11, <1>12, SeqDef
<1>14. IsInjective(q) => IsInjective(w)
  <2>. SUFFICES ASSUME IsInjective(q), NEW i \in 1 .. N, NEW j \in 1 .. N, w[i] = w[j]
       PROVE  i = j
    BY <1>12 DEF IsInjective
  <2>1. at[i] = at[j]
    BY <1>8, <1>12 DEF IsInjective
  <2>2. at[i] \in Nat /\ at[j] \in Nat
    BY <1>1, <1>8
  <2>. QED  BY <1>9, <1>11, <2>1, <2>2
<1>15. ASSUME NEW facts, InOrder(q, facts)
       PROVE  InOrder(w, facts)
  BY <1>8, <1>9, <1>12, <1>15 DEF InOrder
<1>. QED  BY <1>7, <1>8, <1>10, <1>12, <1>13, <1>14, <1>15

LEMMA WithoutIs ==
  ASSUME NEW q \in Seq(Keys), NEW S
  PROVE  /\ WithoutKeys(q, S) \in Seq(Keys)
         /\ ToSet(WithoutKeys(q, S)) = ToSet(q) \ S
         /\ IsInjective(q) => IsInjective(WithoutKeys(q, S))
         /\ \A facts : InOrder(q, facts) => InOrder(WithoutKeys(q, S), facts)
<1>. DEFINE w == WithoutKeys(q, S)
<1>1. /\ w \in Seq(Keys)
      /\ \A i \in DOMAIN w : \E j \in DOMAIN q : w[i] = q[j] /\ q[j] \notin S
      /\ \A j \in DOMAIN q : q[j] \notin S => \E i \in DOMAIN w : w[i] = q[j]
      /\ IsInjective(q) => IsInjective(w)
      /\ \A facts : InOrder(q, facts) => InOrder(w, facts)
  BY Positions
<1>. HIDE DEF w
<1>2. ToSet(w) = ToSet(q) \ S
  BY <1>1 DEF ToSet
<1>. QED  BY <1>1, <1>2 DEF w

\* What has been cut off was used before all that is left.
LEMMA NewestIs ==
  ASSUME NEW q \in Seq(Keys)
  PROVE  LET w == KeepNewest(q) IN
         /\ w \in Seq(Keys) /\ Len(w) <= Capacity
         /\ ToSet(w) \subseteq ToSet(q)
         /\ IsInjective(q) => IsInjective(w)
         /\ \A facts : InOrder(q, facts) => InOrder(w, facts)
         /\ \A facts : InOrder(q, facts) =>
              \A k \in ToSet(q) \ ToSet(w), l \in ToSet(w) : facts[k].seen <= facts[l].seen
         /\ Len(w) = Capacity \/ w = q
<1>. DEFINE n == Len(q)
            w == KeepNewest(q)
            m == n - Capacity
<1>1. n \in Nat /\ Capacity \in Nat /\ DOMAIN q = 1 .. n /\ q \in [1 .. n -> Keys]
  BY SizeAssumption, LenProperties
<1>2. CASE n > Capacity
  <2>1. /\ m + 1 \in Int /\ n \in Int /\ \A i \in m + 1 .. n : q[i] \in Keys
    BY <1>1, <1>2
  <2>2. w = SubSeq(q, m + 1, n)
    BY <1>2 DEF KeepNewest
  <2>. HIDE DEF w
  <2>3. /\ w \in Seq(Keys)
        /\ Len(w) = IF m + 1 <= n THEN n - (m + 1) + 1 ELSE 0
        /\ \A i \in 1 .. n - (m + 1) + 1 : w[i] = q[m + 1 + i - 1]
    <3>. HIDE DEF m, n
    <3>. QED  BY <2>1, <2>2, SubSeqProperties
  <2>4. Len(w) = Capacity /\ \A i \in 1 .. Capacity : w[i] = q[m + i]
    BY <1>1, <1>2, <2>3
  <2>5. DOMAIN w = 1 .. Capacity
    BY <2>3, <2>4, LenProperties
  <2>6. \A i \in 1 .. Capacity : m + i \in DOMAIN q
    BY <1>1, <1>2
  <2>7. ToSet(w) \subseteq ToSet(q)
    BY <2>4, <2>5, <2>6 DEF ToSet
  <2>8. ASSUME IsInjective(q)
        PROVE  IsInjective(w)
    <3>. SUFFICES ASSUME NEW i \in 1 .. Capacity, NEW j \in 1 .. Capacity, w[i] = w[j]
         PROVE  i = j
      BY <2>5 DEF IsInjective
    <3>1. m + i = m + j
      BY <2>4, <2>6, <2>8 DEF IsInjective
    <3>. QED  BY <1>1, <3>1
  <2>9. ASSUME NEW facts, InOrder(q, facts)
        PROVE  InOrder(w, facts)
    <3>. SUFFICES ASSUME NEW i \in 1 .. Capacity, NEW j \in 1 .. Capacity, i < j
         PROVE  facts[w[i]].seen <= facts[w[j]].seen
      BY <2>5 DEF InOrder
    <3>1. m + i \in DOMAIN q /\ m + j \in DOMAIN q /\ m + i < m + j
      BY <1>1, <2>6
    <3>2. w[i] = q[m + i] /\ w[j] = q[m + j]
      BY <2>4
    <3>. HIDE DEF m
    <3>. QED  BY <2>9, <3>1, <3>2 DEF InOrder
  <2>10. ASSUME NEW facts, InOrder(q, facts), NEW k \in ToSet(q) \ ToSet(w), NEW l \in ToSet(w)
         PROVE  facts[k].seen <= facts[l].seen
    <3>1. PICK i \in DOMAIN q : k = q[i]
      BY <2>10 DEF ToSet
    <3>2. PICK j \in 1 .. Capacity : l = w[j]
      BY <2>5, <2>10 DEF ToSet
    <3>3. i <= m
      <4>1. CASE i > m
        <5>1. i - m \in 1 .. Capacity /\ m + (i - m) = i
          BY <1>1, <4>1
        <5>2. w[i - m] = q[i]
          BY <2>4, <5>1
        <5>. QED  BY <2>5, <2>10, <3>1, <5>1, <5>2 DEF ToSet
      <4>. QED  BY <1>1, <4>1
    <3>4. m + j \in DOMAIN q /\ i < m + j /\ l = q[m + j]
      BY <1>1, <2>4, <2>6, <3>2, <3>3
    <3>. HIDE DEF m
    <3>. QED  BY <2>10, <3>1, <3>4 DEF InOrder
  <2>11. Len(w) <= Capacity
    BY <1>1, <2>4
  <2>. QED  BY <2>3, <2>4, <2>7, <2>8, <2>9, <2>10, <2>11 DEF w
<1>3. CASE ~(n > Capacity)
  <2>1. w = q
    BY <1>3 DEF KeepNewest
  <2>2. Len(q) <= Capacity
    BY <1>1, <1>3
  <2>. HIDE DEF w
  <2>. QED  BY <2>1, <2>2 DEF w
<1>. QED  BY <1>2, <1>3

\* A queue without repetition is as long as the set of its keys.
LEMMA LengthIs ==
  ASSUME NEW q \in Seq(Keys), IsInjective(q)
  PROVE  IsFiniteSet(ToSet(q)) /\ Cardinality(ToSet(q)) = Len(q)
<1>1. Len(q) \in Nat /\ DOMAIN q = 1 .. Len(q) /\ q \in [1 .. Len(q) -> Keys]
  BY LenProperties
<1>2. q \in [1 .. Len(q) -> ToSet(q)] /\ \A k \in ToSet(q) : \E i \in 1 .. Len(q) : q[i] = k
  BY <1>1 DEF ToSet
<1>3. q \in Bijection(1 .. Len(q), ToSet(q))
  BY <1>1, <1>2 DEF Bijection, Injection, Surjection, IsInjective
<1>4. ExistsBijection(1 .. Len(q), ToSet(q))
  BY <1>3 DEF ExistsBijection
<1>5. IsFiniteSet(1 .. Len(q)) /\ Cardinality(1 .. Len(q)) = Len(q)
  BY <1>1, FS_Interval
<1>. QED  BY <1>4, <1>5, FS_Bijection

-----------------------------------------------------------------------------
(* Warm-up and refresh.                                                    *)

\* What both make: a queue of active keys, the newest of them, oldest first.
Suits(q, facts) ==
  /\ q \in Seq(Keys) /\ Len(q) <= Capacity
  /\ IsInjective(q) /\ ToSet(q) \subseteq ActiveKeys(facts)
  /\ InOrder(q, facts)
  /\ \A k \in ActiveKeys(facts) \ ToSet(q), l \in ToSet(q) : facts[k].seen <= facts[l].seen
Filled(q, facts) == ActiveKeys(facts) \ ToSet(q) # {} => Len(q) = Capacity

LEMMA WarmupIs ==
  ASSUME NEW facts \in [Keys -> Fact]
  PROVE  Suits(Warmup(facts), facts) /\ Filled(Warmup(facts), facts)
<1>. DEFINE S == ActiveKeys(facts)
            R == Oldest(facts)
            N == Cardinality(S)
            q == SortedBy(S, R)
            w == KeepNewest(q)
<1>1. IsFiniteSet(S) /\ S \subseteq Keys
  <2>1. S \in SUBSET (1 .. NumKeys) /\ IsFiniteSet(1 .. NumKeys)
    BY SizeAssumption, FS_Interval DEF ActiveKeys, Keys
  <2>. QED  BY <2>1, FS_Subset DEF Keys
<1>2. \A k \in Keys : k \in Nat /\ facts[k].seen \in Nat
  BY SizeAssumption DEF Keys, Fact
<1>3. \A k, l \in S : <<k, l>> \in R <=> Before(facts, k, l)
  BY <1>1 DEF Oldest
<1>4. StrictOrder(S, R)
  <2>. HIDE DEF S, R
  <2>1. \A x \in S : <<x, x>> \notin R
    BY <1>1, <1>2, <1>3 DEF Before
  <2>2. ASSUME NEW x \in S, NEW y \in S, NEW z \in S, <<x, y>> \in R, <<y, z>> \in R
        PROVE  <<x, z>> \in R
    <3>1. Before(facts, x, y) /\ Before(facts, y, z)
      BY <1>3, <2>2
    <3>2. /\ x \in Nat /\ y \in Nat /\ z \in Nat
          /\ facts[x].seen \in Nat /\ facts[y].seen \in Nat /\ facts[z].seen \in Nat
      BY <1>1, <1>2
    <3>3. Before(facts, x, z)
      BY <3>1, <3>2 DEF Before
    <3>. QED  BY <1>3, <3>3
  <2>3. ASSUME NEW x \in S, NEW y \in S
        PROVE  x = y \/ <<x, y>> \in R \/ <<y, x>> \in R
    <3>1. x \in Nat /\ y \in Nat /\ facts[x].seen \in Nat /\ facts[y].seen \in Nat
      BY <1>1, <1>2
    <3>2. x = y \/ Before(facts, x, y) \/ Before(facts, y, x)
      BY <3>1 DEF Before
    <3>. QED  BY <1>3, <3>2
  <2>. QED  BY <2>1, <2>2, <2>3 DEF StrictOrder
<1>5. /\ N \in Nat /\ q \in [1 .. N -> S]
      /\ \A i, j \in 1 .. N : i < j => <<q[i], q[j]>> \in R
      /\ \A x \in S : \E i \in 1 .. N : q[i] = x
  <2>. HIDE DEF S, R
  <2>. QED  BY <1>1, <1>4, SortedIs
<1>6. w = Warmup(facts)
  BY DEF Warmup
<1>. HIDE DEF S, R, N, q
<1>7. q \in Seq(Keys) /\ DOMAIN q = 1 .. N
  BY <1>1, <1>5, SeqDef
<1>8. ToSet(q) = S
  BY <1>5, <1>7 DEF ToSet
<1>9. \A i, j \in 1 .. N : i < j => facts[q[i]].seen <= facts[q[j]].seen /\ q[i] # q[j]
  <2>. SUFFICES ASSUME NEW i \in 1 .. N, NEW j \in 1 .. N, i < j
       PROVE  facts[q[i]].seen <= facts[q[j]].seen /\ q[i] # q[j]
    OBVIOUS
  <2>1. q[i] \in S /\ q[j] \in S /\ <<q[i], q[j]>> \in R
    BY <1>5
  <2>2. Before(facts, q[i], q[j]) /\ q[i] # q[j]
    BY <1>3, <1>4, <2>1 DEF StrictOrder
  <2>. QED  BY <1>1, <1>2, <2>1, <2>2 DEF Before
<1>10. InOrder(q, facts)
  BY <1>7, <1>9 DEF InOrder
<1>11. IsInjective(q)
  BY <1>5, <1>7, <1>9 DEF IsInjective
<1>12. /\ w \in Seq(Keys) /\ Len(w) <= Capacity
       /\ ToSet(w) \subseteq ToSet(q)
       /\ IsInjective(w) /\ InOrder(w, facts)
       /\ \A k \in ToSet(q) \ ToSet(w), l \in ToSet(w) : facts[k].seen <= facts[l].seen
       /\ Len(w) = Capacity \/ w = q
  BY <1>7, <1>10, <1>11, NewestIs
<1>. HIDE DEF w
<1>. QED  BY <1>6, <1>8, <1>12 DEF Suits, Filled, S

LEMMA RefreshIs ==
  ASSUME NEW facts \in [Keys -> Fact], NEW q, Suits(q, facts), NEW u \in Updates,
         NEW v \in Nat, NEW t \in Nat, \A k \in Keys : facts[k].seen <= t
  PROVE  LET after == FactsAfter(facts, u, v, t)
             w == Refreshed(q, u) IN
         /\ Suits(w, after)
         /\ ToSet(w) \subseteq ToSet(q) \cup ToSet(u.refreshed)
         /\ Filled(q, facts) /\ ToSet(q) \cap u.removed = {} => Filled(w, after)
<1>. DEFINE after == FactsAfter(facts, u, v, t)
            new == ToSet(u.refreshed)
            old == WithoutKeys(q, new)
            all == old \o u.refreshed
            x == WithoutKeys(all, u.removed)
            w == KeepNewest(x)
<1>1. /\ u.refreshed \in Seq(Keys) /\ u.removed \subseteq Keys
      /\ IsInjective(u.refreshed) /\ new \cap u.removed = {} /\ new \subseteq Keys
  <2>1. /\ u.refreshed \in Seq(Keys) /\ u.removed \subseteq Keys
        /\ IsInjective(u.refreshed) /\ new \cap u.removed = {}
    BY UpdatesAssumption DEF ValidUpdate
  <2>. QED  BY <2>1, LenProperties DEF ToSet
<1>2. /\ q \in Seq(Keys) /\ IsInjective(q) /\ ToSet(q) \subseteq ActiveKeys(facts)
      /\ InOrder(q, facts)
  BY DEF Suits
<1>3. /\ old \in Seq(Keys) /\ ToSet(old) = ToSet(q) \ new /\ IsInjective(old)
      /\ InOrder(old, facts)
  BY <1>2, WithoutIs
<1>4. w = Refreshed(q, u)
  BY DEF Refreshed
<1>. HIDE DEF old
<1>5. \A k \in Keys :
        /\ k \in new => after[k].seen = t /\ after[k].active
        /\ k \notin new => after[k].seen = facts[k].seen
        /\ k \notin new => (after[k].active <=> facts[k].active /\ k \notin u.removed)
  BY DEF FactsAfter, Fact
<1>6. \A k \in Keys : facts[k].seen \in Nat /\ after[k].seen \in Nat /\ after[k].seen <= t
  BY <1>5 DEF Fact
<1>. HIDE DEF after, new
<1>7. /\ all \in Seq(Keys) /\ DOMAIN all = 1 .. Len(old) + Len(u.refreshed)
      /\ Len(all) = Len(old) + Len(u.refreshed)
      /\ \A i \in DOMAIN all : all[i] = IF i <= Len(old) THEN old[i]
                                        ELSE u.refreshed[i - Len(old)]
  BY <1>1, <1>3, ConcatProperties, LenProperties
<1>8. /\ Len(old) \in Nat /\ Len(u.refreshed) \in Nat
      /\ DOMAIN old = 1 .. Len(old) /\ DOMAIN u.refreshed = 1 .. Len(u.refreshed)
  BY <1>1, <1>3, LenProperties
<1>. HIDE DEF all
<1>9. \A i \in DOMAIN all :
        IF i <= Len(old) THEN i \in DOMAIN old /\ all[i] = old[i]
        ELSE i - Len(old) \in DOMAIN u.refreshed /\ all[i] = u.refreshed[i - Len(old)]
  BY <1>7, <1>8
<1>10. /\ \A i \in DOMAIN old : old[i] \in ToSet(old)
       /\ \A i \in DOMAIN u.refreshed : u.refreshed[i] \in new
  BY DEF ToSet, new
<1>11. ToSet(all) = ToSet(q) \cup new
  <2>1. \A i \in DOMAIN old : i \in DOMAIN all /\ all[i] = old[i]
    BY <1>7, <1>8
  <2>2. \A i \in DOMAIN u.refreshed : i + Len(old) \in DOMAIN all /\ all[i + Len(old)] = u.refreshed[i]
    BY <1>7, <1>8
  <2>3. ToSet(all) \subseteq ToSet(old) \cup new
    BY <1>9, <1>10 DEF ToSet
  <2>4. ToSet(old) \subseteq ToSet(all) /\ new \subseteq ToSet(all)
    BY <2>1, <2>2 DEF ToSet, new
  <2>. QED  BY <1>3, <2>3, <2>4
<1>12. IsInjective(all)
  <2>. SUFFICES ASSUME NEW i \in DOMAIN all, NEW j \in DOMAIN all, all[i] = all[j]
       PROVE  i = j
    BY DEF IsInjective
  <2>1. CASE i <= Len(old) /\ j <= Len(old)
    BY <1>3, <1>9, <2>1 DEF IsInjective
  <2>2. CASE ~(i <= Len(old)) /\ ~(j <= Len(old))
    <3>1. i - Len(old) = j - Len(old)
      BY <1>1, <1>9, <2>2 DEF IsInjective
    <3>. QED  BY <1>7, <1>8, <3>1
  <2>3. CASE (i <= Len(old)) # (j <= Len(old))
    BY <1>3, <1>9, <1>10, <2>3
  <2>. QED  BY <2>1, <2>2, <2>3
<1>13. InOrder(all, after)
  <2>. SUFFICES ASSUME NEW i \in DOMAIN all, NEW j \in DOMAIN all, i < j
       PROVE  after[all[i]].seen <= after[all[j]].seen
    BY DEF InOrder
  <2>1. all[i] \in Keys /\ all[j] \in Keys
    BY <1>7, LenProperties
  <2>2. CASE j <= Len(old)
    <3>1. i \in DOMAIN old /\ j \in DOMAIN old /\ all[i] = old[i] /\ all[j] = old[j]
      BY <1>7, <1>8, <1>9, <2>2
    <3>2. facts[old[i]].seen <= facts[old[j]].seen
      BY <1>3, <3>1 DEF InOrder
    <3>. QED  BY <1>3, <1>5, <1>10, <2>1, <3>1, <3>2
  <2>3. CASE ~(j <= Len(old))
    <3>1. all[j] \in new
      BY <1>9, <1>10, <2>3
    <3>. QED  BY <1>5, <1>6, <2>1, <3>1
  <2>. QED  BY <2>2, <2>3
<1>14. /\ x \in Seq(Keys) /\ ToSet(x) = (ToSet(q) \cup new) \ u.removed
       /\ IsInjective(x) /\ InOrder(x, after)
  BY <1>7, <1>11, <1>12, <1>13, WithoutIs
<1>. HIDE DEF x
<1>15. /\ w \in Seq(Keys) /\ Len(w) <= Capacity
       /\ ToSet(w) \subseteq ToSet(x)
       /\ IsInjective(w) /\ InOrder(w, after)
       /\ \A k \in ToSet(x) \ ToSet(w), l \in ToSet(w) : after[k].seen <= after[l].seen
       /\ Len(w) = Capacity \/ w = x
  BY <1>14, NewestIs
<1>. HIDE DEF w
<1>16. ToSet(q) \subseteq Keys
  BY <1>2 DEF ActiveKeys
<1>17. ToSet(w) \subseteq ActiveKeys(after)
  BY <1>1, <1>2, <1>5, <1>14, <1>15, <1>16 DEF ActiveKeys
<1>18. ASSUME NEW k \in ActiveKeys(after) \ ToSet(w), NEW l \in ToSet(w)
       PROVE  after[k].seen <= after[l].seen
  <2>1. k \in Keys /\ l \in Keys /\ after[k].active
    BY <1>17, <1>18 DEF ActiveKeys
  <2>2. CASE k \in ToSet(x)
    BY <1>15, <1>18, <2>2
  <2>3. CASE k \notin ToSet(x)
    <3>1. k \notin new /\ k \in ActiveKeys(facts) \ ToSet(q)
      BY <1>1, <1>5, <1>14, <2>1, <2>3 DEF ActiveKeys
    <3>2. CASE l \in new
      BY <1>5, <1>6, <2>1, <3>2
    <3>3. CASE l \notin new
      <4>1. l \in ToSet(q)
        BY <1>14, <1>15, <1>18, <3>3
      <4>2. facts[k].seen <= facts[l].seen
        BY <3>1, <4>1 DEF Suits
      <4>. QED  BY <1>5, <2>1, <3>1, <3>3, <4>2
    <3>. QED  BY <3>2, <3>3
  <2>. QED  BY <2>2, <2>3
<1>19. Suits(w, after)
  BY <1>15, <1>17, <1>18 DEF Suits
<1>20. ASSUME Filled(q, facts), ToSet(q) \cap u.removed = {}, ActiveKeys(after) \ ToSet(w) # {}
       PROVE  Len(w) = Capacity
  <2>1. CASE w = x
    <3>1. PICK k \in ActiveKeys(after) : k \notin ToSet(w)
      BY <1>20
    <3>2. ToSet(x) = ToSet(q) \cup new
      BY <1>1, <1>14, <1>20
    <3>3. k \in ActiveKeys(facts) \ ToSet(q)
      BY <1>5, <2>1, <3>1, <3>2 DEF ActiveKeys
    <3>4. Len(q) = Capacity
      BY <1>20, <3>3 DEF Filled
    <3>5. IsFiniteSet(ToSet(x)) /\ Cardinality(ToSet(x)) = Len(x) /\ Cardinality(ToSet(q)) = Len(q)
      BY <1>2, <1>14, LengthIs
    <3>6. Len(q) <= Len(x)
      BY <3>2, <3>5, FS_Subset
    <3>7. Len(q) \in Nat /\ Len(x) \in Nat
      BY <1>2, <1>14, LenProperties
    <3>. QED  BY <1>15, <2>1, <3>4, <3>6, <3>7
  <2>. QED  BY <1>15, <2>1
<1>21. ToSet(w) \subseteq ToSet(q) \cup new
  BY <1>14, <1>15
<1>. QED  BY <1>4, <1>19, <1>20, <1>21 DEF Filled, after, new

-----------------------------------------------------------------------------
(* The steps of a request.                                                 *)

Pcs == {"idle", "load", "getVersion", "getList", "getData", "warmup",
        "replace", "dropWarmup", "select", "commit", "refresh", "drop", "release"}
Update == [refreshed: Seq(Keys), removed: SUBSET Keys]
Process == [pc: Pcs, locked: BOOLEAN, seen: Nat, items: Seq(Item), keys: Seq(Keys), update: Update]

\* All variables but proc.
RestOK ==
  /\ history \in Seq([Keys -> Fact]) /\ history # <<>>
  /\ clock \in Nat
  /\ version \in Nat \cup {Absent}
  /\ queue \in Seq(Keys) /\ Len(queue) <= Capacity
  /\ data \in [Keys -> Nat \cup {Absent}]
  /\ holder \in Procs \cup {NoProc}
  /\ expired \in BOOLEAN
  /\ overtaken \in SUBSET Procs

LEMMA TypeParts == TypeOK <=> RestOK /\ proc \in [Procs -> Process]
BY DEF TypeOK, RestOK, Process, Pcs, Update

LEMMA TypeWill == RestOK' /\ (proc \in [Procs -> Process])' => TypeOK'
BY TypeParts, PTL

LEMMA HistoryIs ==
  ASSUME RestOK
  PROVE  /\ Len(history) \in Nat /\ databaseVersion \in Nat
         /\ DOMAIN history = 1 .. databaseVersion + 1
         /\ \A v \in Versions : v + 1 \in DOMAIN history /\ FactsAt(v) \in [Keys -> Fact]
         /\ databaseVersion \in Versions
<1>1. history \in Seq([Keys -> Fact]) /\ history # <<>>
  BY DEF RestOK
<1>2. /\ Len(history) \in Nat /\ history \in [1 .. Len(history) -> [Keys -> Fact]]
      /\ DOMAIN history = 1 .. Len(history)
  BY <1>1, LenProperties
<1>3. Len(history) # 0
  BY <1>1, EmptySeq
<1>. QED  BY <1>2, <1>3 DEF databaseVersion, Versions, FactsAt

\* How a request that is at its end goes on.
Ended == {Idle, [Idle EXCEPT !.pc = "drop", !.locked = TRUE],
          [Idle EXCEPT !.pc = "release", !.locked = TRUE]}

LEMMA IdleIs ==
  /\ Idle \in Process /\ Idle.pc = "idle" /\ ~Idle.locked
  /\ \A r \in Ended : /\ r \in Process /\ r.items = <<>>
                      /\ r.pc \in {"idle", "drop", "release"} /\ (r.pc # "idle" <=> r.locked)
<1>1. <<>> \in Seq(Item) /\ <<>> \in Seq(Keys)
  BY EmptySeq
<1>2. NoUpdate \in Update
  BY <1>1 DEF NoUpdate, Update
<1>3. Idle \in Process /\ Idle.pc = "idle" /\ ~Idle.locked /\ Idle.items = <<>>
  BY <1>1, <1>2 DEF Idle, Process, Pcs
<1>4. ASSUME NEW pc \in {"drop", "release"}, NEW r, r = [Idle EXCEPT !.pc = pc, !.locked = TRUE]
      PROVE  r \in Process /\ r.pc = pc /\ r.locked /\ r.items = <<>>
  BY <1>3, <1>4 DEF Process, Pcs
<1>. QED  BY <1>3, <1>4 DEF Ended

\* A request has gone on to state r.
Turns(p, r) == proc' = [proc EXCEPT ![p] = r]

LEMMA Moved ==
  ASSUME proc \in [Procs -> Process], NEW p \in Procs, NEW r \in Process, Turns(p, r)
  PROVE  /\ proc' \in [Procs -> Process] /\ proc'[p] = r
         /\ \A o \in Procs : o # p => proc'[o] = proc[o]
BY DEF Turns

LEMMA WentTo ==
  ASSUME proc \in [Procs -> Process], NEW p \in Procs, NEW pc \in Pcs, Goto(p, pc)
  PROVE  /\ proc' \in [Procs -> Process]
         /\ proc'[p].pc = pc /\ proc'[p].seen = proc[p].seen /\ proc'[p].items = proc[p].items
         /\ proc'[p].keys = proc[p].keys /\ proc'[p].update = proc[p].update
         /\ proc'[p].locked = proc[p].locked
         /\ \A o \in Procs : o # p => proc'[o] = proc[o]
<1>. DEFINE r == [proc[p] EXCEPT !.pc = pc]
<1>1. r \in Process /\ r.pc = pc /\ r.seen = proc[p].seen /\ r.items = proc[p].items
      /\ r.keys = proc[p].keys /\ r.update = proc[p].update /\ r.locked = proc[p].locked
  BY DEF Process
<1>2. Turns(p, r)
  BY DEF Goto, Turns
<1>. HIDE DEF r
<1>. QED  BY <1>1, <1>2, Moved

\* A miss goes to the warm-up with the version the request began with.
LEMMA Missed ==
  ASSUME proc \in [Procs -> Process], NEW p \in Procs, Miss(p)
  PROVE  /\ proc' \in [Procs -> Process]
         /\ proc'[p].pc = "warmup" /\ proc'[p].seen = proc[p].seen
         /\ proc'[p].locked = proc[p].locked
         /\ \A o \in Procs : o # p => proc'[o] = proc[o]
<1>. DEFINE r == [[proc[p] EXCEPT !.pc = "warmup"] EXCEPT !.keys = <<>>]
<1>1. <<>> \in Seq(Keys)
  BY EmptySeq
<1>2. r \in Process /\ r.pc = "warmup" /\ r.seen = proc[p].seen /\ r.locked = proc[p].locked
  BY <1>1 DEF Process, Pcs
<1>3. Turns(p, r)
  BY DEF Miss, Turns, Process
<1>. HIDE DEF r
<1>. QED  BY <1>2, <1>3, Moved

LEMMA Left ==
  ASSUME proc \in [Procs -> Process], NEW p \in Procs,
         Leave(p) \/ Drop(p) \/ proc' = [proc EXCEPT ![p] = Idle]
  PROVE  /\ proc' \in [Procs -> Process]
         /\ proc'[p].pc \in {"idle", "drop", "release"} /\ proc'[p].items = <<>>
         /\ proc'[p].pc # "idle" <=> proc'[p].locked
         /\ proc'[p].locked => Drop(p) \/ proc[p].locked
         /\ \A o \in Procs : o # p => proc'[o] = proc[o]
<1>1. PICK r \in Ended : Turns(p, r) /\ (r = Idle \/ Drop(p) \/ proc[p].locked)
  BY DEF Leave, Drop, Turns, Ended
<1>2. /\ proc' \in [Procs -> Process] /\ proc'[p] = r
      /\ \A o \in Procs : o # p => proc'[o] = proc[o]
  BY <1>1, IdleIs, Moved
<1>3. r.pc \in {"idle", "drop", "release"} /\ r.items = <<>> /\ (r.pc # "idle" <=> r.locked)
  BY <1>1, IdleIs
<1>. QED  BY <1>1, <1>2, <1>3, IdleIs

LEMMA AcquireGoes ==
  ASSUME proc \in [Procs -> Process], NEW p \in Procs, Acquire(p)
  PROVE  /\ proc' \in [Procs -> Process]
         /\ proc'[p].pc \in {"load", "commit"} /\ proc'[p].locked
         /\ proc'[p].items = proc[p].items
         /\ \A o \in Procs : o # p => proc'[o] = proc[o]
<1>1. PICK pc \in {"load", "commit"} : proc' = [proc EXCEPT ![p].pc = pc, ![p].locked = TRUE]
  BY DEF Acquire
<1>. DEFINE r == [[proc[p] EXCEPT !.pc = pc] EXCEPT !.locked = TRUE]
<1>2. r \in Process /\ r.pc = pc /\ r.locked /\ r.items = proc[p].items
  BY DEF Process, Pcs
<1>3. Turns(p, r)
  BY <1>1 DEF Turns, Process
<1>. HIDE DEF r
<1>. QED  BY <1>2, <1>3, Moved

LEMMA LoadGoes ==
  ASSUME proc \in [Procs -> Process], RestOK, NEW p \in Procs, Load(p)
  PROVE  /\ proc' \in [Procs -> Process]
         /\ proc'[p].pc = "getVersion" /\ proc'[p].seen = databaseVersion
         /\ proc'[p].items = proc[p].items /\ proc'[p].locked = proc[p].locked
         /\ \A o \in Procs : o # p => proc'[o] = proc[o]
<1>. DEFINE r == [[proc[p] EXCEPT !.pc = "getVersion"] EXCEPT !.seen = databaseVersion]
<1>1. databaseVersion \in Nat
  BY HistoryIs
<1>. HIDE DEF databaseVersion
<1>2. r \in Process /\ r.pc = "getVersion" /\ r.seen = databaseVersion /\ r.items = proc[p].items
      /\ r.locked = proc[p].locked
  BY <1>1 DEF Process, Pcs
<1>3. Turns(p, r)
  BY DEF Load, Turns, Process
<1>. HIDE DEF r
<1>. QED  BY <1>2, <1>3, Moved

LEMMA GetListGoes ==
  ASSUME proc \in [Procs -> Process], RestOK, NEW p \in Procs, GetList(p)
  PROVE  /\ proc' \in [Procs -> Process] /\ proc'[p].seen = proc[p].seen
         /\ proc'[p].locked = proc[p].locked
         /\ \/ proc'[p].pc = "select" /\ proc'[p].items = proc[p].items
            \/ proc'[p].pc = "warmup"
            \/ proc'[p].pc = "getData" /\ proc'[p].keys = queue
         /\ \A o \in Procs : o # p => proc'[o] = proc[o]
<1>1. CASE Goto(p, "select")
  BY <1>1, WentTo DEF Pcs
<1>2. CASE Miss(p)
  BY <1>2, Missed
<1>3. CASE proc' = [proc EXCEPT ![p].pc = "getData", ![p].keys = queue]
  <2>. DEFINE r == [[proc[p] EXCEPT !.pc = "getData"] EXCEPT !.keys = queue]
  <2>1. r \in Process /\ r.pc = "getData" /\ r.seen = proc[p].seen /\ r.keys = queue
        /\ r.locked = proc[p].locked
    BY DEF Process, Pcs, RestOK
  <2>2. Turns(p, r)
    BY <1>3 DEF Turns, Process
  <2>. HIDE DEF r
  <2>. QED  BY <2>1, <2>2, Moved
<1>. QED  BY <1>1, <1>2, <1>3 DEF GetList

\* What HMGET returns.
Fetched(keys) == [i \in DOMAIN keys |-> [key |-> keys[i], turn |-> data[keys[i]]]]

LEMMA GetDataGoes ==
  ASSUME proc \in [Procs -> Process], RestOK, NEW p \in Procs, GetData(p)
  PROVE  /\ proc' \in [Procs -> Process] /\ proc'[p].seen = proc[p].seen
         /\ proc'[p].locked = proc[p].locked
         /\ \/ proc'[p].pc = "warmup"
            \/ /\ proc'[p].pc = "select" /\ proc'[p].items = Fetched(proc[p].keys)
               /\ \A i \in DOMAIN proc[p].keys : data[proc[p].keys[i]] # Absent
         /\ \A o \in Procs : o # p => proc'[o] = proc[o]
<1>. DEFINE keys == proc[p].keys
<1>1. CASE \E i \in DOMAIN keys : data[keys[i]] = Absent
  <2>1. Miss(p)
    BY <1>1 DEF GetData
  <2>. QED  BY <2>1, Missed
<1>2. CASE ~\E i \in DOMAIN keys : data[keys[i]] = Absent
  <2>. DEFINE n == Len(keys)
              items == Fetched(keys)
              r == [[[proc[p] EXCEPT !.pc = "select"] EXCEPT !.keys = <<>>] EXCEPT !.items = items]
  <2>1. keys \in Seq(Keys) /\ n \in Nat /\ DOMAIN keys = 1 .. n /\ keys \in [1 .. n -> Keys]
    BY LenProperties DEF Process
  <2>2. data \in [Keys -> Nat \cup {Absent}]
    BY DEF RestOK
  <2>3. \A i \in 1 .. n : keys[i] \in Keys /\ data[keys[i]] \in Nat
    BY <1>2, <2>1, <2>2
  <2>4. items \in [1 .. n -> Item]
    BY <2>1, <2>3 DEF Item, Fetched
  <2>5. items \in Seq(Item)
    BY <2>1, <2>4, SeqDef
  <2>6. Turns(p, r)
    BY <1>2 DEF GetData, Turns, Process, Fetched
  <2>. HIDE DEF items, keys
  <2>7. <<>> \in Seq(Keys)
    BY EmptySeq
  <2>8. r \in Process /\ r.pc = "select" /\ r.seen = proc[p].seen /\ r.items = items
        /\ r.locked = proc[p].locked
    BY <2>5, <2>7 DEF Process, Pcs
  <2>. HIDE DEF r
  <2>9. /\ proc' \in [Procs -> Process] /\ proc'[p] = r
        /\ \A o \in Procs : o # p => proc'[o] = proc[o]
    BY <2>6, <2>8, Moved
  <2>. QED  BY <1>2, <2>8, <2>9 DEF items, keys
<1>. QED  BY <1>1, <1>2

LEMMA WarmItemsAre ==
  ASSUME NEW facts \in [Keys -> Fact]
  PROVE  LET q == Warmup(facts)
             items == WarmItems(facts) IN
         /\ q \in Seq(Keys) /\ items \in Seq(Item) /\ DOMAIN items = DOMAIN q
         /\ \A i \in DOMAIN items : items[i].key = q[i] /\ items[i].turn = facts[q[i]].turn
         /\ ItemsMatch(items, facts)
<1>. DEFINE q == Warmup(facts)
            n == Len(q)
            items == WarmItems(facts)
<1>1. Suits(q, facts)
  BY WarmupIs
<1>2. items = [i \in DOMAIN q |-> [key |-> q[i], turn |-> facts[q[i]].turn]]
  BY DEF WarmItems
<1>. HIDE DEF q, items
<1>3. q \in Seq(Keys) /\ n \in Nat /\ DOMAIN q = 1 .. n /\ q \in [1 .. n -> Keys]
  BY <1>1, LenProperties DEF Suits
<1>4. \A i \in 1 .. n : q[i] \in Keys /\ facts[q[i]].turn \in Nat
  BY <1>3 DEF Fact
<1>5. items \in [1 .. n -> Item]
  BY <1>2, <1>3, <1>4 DEF Item
<1>6. items \in Seq(Item)
  BY <1>3, <1>5, SeqDef
<1>7. \A i \in 1 .. n : q[i] \in ToSet(q)
  BY <1>3 DEF ToSet
<1>8. \A i \in 1 .. n : facts[q[i]].active
  BY <1>1, <1>7 DEF Suits, ActiveKeys
<1>9. ItemsMatch(items, facts)
  BY <1>2, <1>3, <1>8 DEF ItemsMatch
<1>. QED  BY <1>2, <1>3, <1>6, <1>9 DEF q, items

LEMMA LoadForWarmupGoes ==
  ASSUME proc \in [Procs -> Process], RestOK, NEW p \in Procs, LoadForWarmup(p)
  PROVE  /\ proc' \in [Procs -> Process]
         /\ proc'[p].pc = "replace" /\ proc'[p].seen = proc[p].seen
         /\ proc[p].seen = databaseVersion /\ proc'[p].items = WarmItems(Current)
         /\ proc'[p].locked = proc[p].locked
         /\ \A o \in Procs : o # p => proc'[o] = proc[o]
<1>. DEFINE items == WarmItems(Current)
            r == [[proc[p] EXCEPT !.pc = "replace"] EXCEPT !.items = items]
<1>1. Current \in [Keys -> Fact]
  BY HistoryIs DEF Current
<1>2. items \in Seq(Item)
  BY <1>1, WarmItemsAre
<1>3. Turns(p, r) /\ proc[p].seen = databaseVersion
  BY DEF LoadForWarmup, Turns, Process, WarmItems
<1>. HIDE DEF items
<1>4. r \in Process /\ r.pc = "replace" /\ r.seen = proc[p].seen /\ r.items = items
      /\ r.locked = proc[p].locked
  BY <1>2 DEF Process, Pcs
<1>. HIDE DEF r
<1>5. /\ proc' \in [Procs -> Process] /\ proc'[p] = r
      /\ \A o \in Procs : o # p => proc'[o] = proc[o]
  BY <1>3, <1>4, Moved
<1>. QED  BY <1>3, <1>4, <1>5 DEF items

\* What a commit does to the history and to its request.
LEMMA CommitGoes ==
  ASSUME proc \in [Procs -> Process], RestOK, NEW p \in Procs, Commit(p)
  PROVE  /\ proc' \in [Procs -> Process]
         /\ proc'[p].pc = "refresh" /\ proc'[p].seen = databaseVersion
         /\ proc'[p].update \in Updates /\ proc'[p].locked = proc[p].locked
         /\ clock' \in Nat /\ clock <= clock'
         /\ history' \in Seq([Keys -> Fact]) /\ history' # <<>>
         /\ databaseVersion' = databaseVersion + 1
         /\ \A v \in Versions : FactsAt(v)' = FactsAt(v)
         /\ Current' = FactsAfter(Current, proc'[p].update, databaseVersion + 1, clock')
         /\ \A o \in Procs : o # p => proc'[o] = proc[o]
<1>. DEFINE v == databaseVersion
<1>1. PICK u \in Updates :
        /\ history' = Append(history, FactsAfter(Current, u, v + 1, clock'))
        /\ proc' = [proc EXCEPT ![p].pc = "refresh", ![p].update = u, ![p].seen = v]
  BY DEF Commit
<1>. DEFINE r == [[[proc[p] EXCEPT !.pc = "refresh"] EXCEPT !.update = u] EXCEPT !.seen = v]
            facts == FactsAfter(Current, u, v + 1, clock')
<1>2. /\ Len(history) \in Nat /\ v \in Nat /\ Len(history) = v + 1
      /\ Current \in [Keys -> Fact] /\ history \in Seq([Keys -> Fact])
      /\ \A w \in Versions : w + 1 \in 1 .. Len(history)
  BY HistoryIs DEF RestOK, Current, databaseVersion
<1>3. clock' \in Nat /\ clock <= clock'
  BY DEF Commit, RestOK
<1>4. u \in Update
  BY UpdatesAssumption DEF Update, ValidUpdate
<1>5. Turns(p, r)
  BY <1>1 DEF Turns, Process
<1>6. facts \in [Keys -> Fact]
  BY <1>2, <1>3 DEF FactsAfter, Fact
<1>. HIDE DEF facts
<1>7. /\ history' \in Seq([Keys -> Fact]) /\ Len(history') = Len(history) + 1
      /\ \A i \in 1 .. Len(history) : history'[i] = history[i]
      /\ history'[Len(history) + 1] = facts
  BY <1>1, <1>2, <1>6, AppendProperties DEF facts
<1>8. databaseVersion' = v + 1
  BY <1>2, <1>7 DEF databaseVersion
<1>9. \A w \in Versions : FactsAt(w)' = FactsAt(w)
  BY <1>2, <1>7 DEF FactsAt
<1>10. Current' = facts
  BY <1>2, <1>7, <1>8 DEF Current, FactsAt
<1>11. history' # <<>>
  BY <1>1, <1>2, <1>6 DEF facts
<1>. HIDE DEF v
<1>12. r \in Process /\ r.pc = "refresh" /\ r.update = u /\ r.seen = v
       /\ r.locked = proc[p].locked
  BY <1>2, <1>4 DEF Process, Pcs, Update
<1>. HIDE DEF r
<1>13. /\ proc' \in [Procs -> Process] /\ proc'[p] = r
       /\ \A o \in Procs : o # p => proc'[o] = proc[o]
  BY <1>5, <1>12, Moved
<1>. QED  BY <1>3, <1>7, <1>8, <1>9, <1>10, <1>11, <1>12, <1>13 DEF v, facts

-----------------------------------------------------------------------------
(* The history.                                                            *)

\* What was the case at a version is so for good.
Grows ==
  /\ databaseVersion' \in Nat /\ databaseVersion <= databaseVersion'
  /\ clock' \in Nat /\ clock <= clock'
  /\ \A v \in Versions : v \in Versions' /\ FactsAt(v)' = FactsAt(v)

LEMMA Stays ==
  ASSUME RestOK, UNCHANGED <<history, clock>>
  PROVE  /\ Grows /\ databaseVersion' = databaseVersion /\ Versions' = Versions
         /\ Current' = Current /\ \A v : FactsAt(v)' = FactsAt(v)
<1>1. databaseVersion \in Nat /\ clock \in Nat
  BY HistoryIs DEF RestOK
<1>2. databaseVersion' = databaseVersion /\ clock' = clock
  BY DEF databaseVersion
<1>3. Versions' = Versions
  BY <1>2 DEF Versions
<1>4. \A v : FactsAt(v)' = FactsAt(v)
  BY DEF FactsAt
<1>5. Current' = Current
  BY <1>2 DEF Current, FactsAt
<1>. QED  BY <1>1, <1>2, <1>3, <1>4, <1>5 DEF Grows

LEMMA OnlyCommit ==
  ASSUME NEW p \in Procs, Step(p), ~Commit(p)
  PROVE  UNCHANGED <<history, clock>>
BY DEF Step, Acquire, Plan, Release, Load, GetVersion, GetList, GetData, GetFails, LoadForWarmup,
       WarmupRefused, ReplaceQueue, ReplaceFails, Select, CommitNothing, RefreshQueue,
       RefreshRefused, Invalidate, Crash, cacheVars

LEMMA CommitGrows ==
  ASSUME TypeOK, NEW p \in Procs, Commit(p)
  PROVE  Grows
<1>1. RestOK /\ proc \in [Procs -> Process]
  BY TypeParts
<1>2. databaseVersion \in Nat
  BY <1>1, HistoryIs
<1>3. /\ databaseVersion' = databaseVersion + 1 /\ clock' \in Nat /\ clock <= clock'
      /\ \A v \in Versions : FactsAt(v)' = FactsAt(v)
  BY <1>1, CommitGoes
<1>. HIDE DEF databaseVersion
<1>4. \A v \in Versions : v \in Versions'
  BY <1>2, <1>3 DEF Versions
<1>. QED  BY <1>2, <1>3, <1>4 DEF Grows

LEMMA HistoryGrows ==
  ASSUME TypeOK, NEW p \in Procs, Step(p)
  PROVE  Grows
<1>1. RestOK
  BY TypeParts
<1>2. CASE Commit(p)
  BY <1>2, CommitGrows
<1>3. CASE ~Commit(p)
  BY <1>1, <1>3, OnlyCommit, Stays
<1>. QED  BY <1>2, <1>3

\* A step is about its own request.
LEMMA OneMoves ==
  ASSUME TypeOK, NEW p \in Procs, Step(p)
  PROVE  proc' \in [Procs -> Process] /\ \A o \in Procs : o # p => proc'[o] = proc[o]
<1>. DEFINE Goal == proc' \in [Procs -> Process] /\ \A o \in Procs : o # p => proc'[o] = proc[o]
<1>1. RestOK /\ proc \in [Procs -> Process]
  BY TypeParts
<1>2. ASSUME NEW pc \in Pcs, Goto(p, pc)
      PROVE  Goal
  BY <1>1, <1>2, WentTo
<1>3. ASSUME Leave(p) \/ Drop(p) \/ proc' = [proc EXCEPT ![p] = Idle]
      PROVE  Goal
  BY <1>1, <1>3, Left
<1>4. CASE Plan(p) \/ GetVersion(p) \/ ReplaceQueue(p) \/ ReplaceFails(p)
  <2>1. \E pc \in Pcs : Goto(p, pc)
    BY <1>4 DEF Plan, GetVersion, ReplaceQueue, ReplaceFails, Pcs
  <2>. QED  BY <1>2, <2>1
<1>5. CASE Release(p) \/ WarmupRefused(p) \/ Select(p) \/ CommitNothing(p) \/ RefreshQueue(p)
             \/ RefreshRefused(p) \/ Crash(p)
  BY <1>3, <1>5 DEF Release, WarmupRefused, Select, CommitNothing, RefreshQueue,
                    RefreshRefused, Crash
<1>6. CASE Invalidate(p)
  <2>1. Leave(p) \/ Goto(p, "select")
    BY <1>6 DEF Invalidate
  <2>. QED  BY <1>2, <1>3, <2>1 DEF Pcs
<1>7. CASE GetFails(p)
  BY <1>1, <1>7, Missed DEF GetFails
<1>. HIDE DEF Goal
<1>8. CASE Load(p)
  BY <1>1, <1>8, LoadGoes DEF Goal
<1>9. CASE GetList(p)
  BY <1>1, <1>9, GetListGoes DEF Goal
<1>10. CASE GetData(p)
  BY <1>1, <1>10, GetDataGoes DEF Goal
<1>11. CASE LoadForWarmup(p)
  BY <1>1, <1>11, LoadForWarmupGoes DEF Goal
<1>12. CASE Commit(p)
  BY <1>1, <1>12, CommitGoes DEF Goal
<1>13. CASE Acquire(p)
  BY <1>1, <1>13, AcquireGoes DEF Goal
<1>. QED  BY <1>4, <1>5, <1>6, <1>7, <1>8, <1>9, <1>10, <1>11, <1>12, <1>13 DEF Step

-----------------------------------------------------------------------------
(* The cache.                                                              *)

\* The cached queue is what a warm-up at its version might have made.
Fits ==
  version # Absent =>
    /\ version \in Versions
    /\ Suits(queue, FactsAt(version))
    /\ data = [k \in Keys |-> IF k \in ToSet(queue) THEN FactsAt(version)[k].turn ELSE Absent]
    /\ NeverRemoved(version) => Filled(queue, FactsAt(version))

LEMMA FitsIs == RestOK => (CacheShowsItsVersion /\ CacheHoldsTheNewest <=> Fits)
<1>. SUFFICES ASSUME RestOK, version # Absent
     PROVE  CacheShowsItsVersion /\ CacheHoldsTheNewest <=> Fits
  BY DEF CacheShowsItsVersion, CacheHoldsTheNewest, Fits
<1>1. version \in Nat /\ databaseVersion \in Nat
  BY HistoryIs DEF RestOK
<1>2. version \in Versions <=> version <= databaseVersion
  BY <1>1 DEF Versions
<1>3. queue \in Seq(Keys) /\ Len(queue) <= Capacity /\ data \in [Keys -> Nat \cup {Absent}]
  BY DEF RestOK
<1>. DEFINE facts == FactsAt(version)
<1>4. ASSUME CacheShowsItsVersion, CacheHoldsTheNewest
      PROVE  Fits
  BY <1>1, <1>2, <1>3, <1>4
     DEF CacheShowsItsVersion, CacheHoldsTheNewest, Fits, Suits, Filled, InOrder
<1>5. ASSUME Fits
      PROVE  CacheShowsItsVersion /\ CacheHoldsTheNewest
  BY <1>1, <1>2, <1>3, <1>5
     DEF CacheShowsItsVersion, CacheHoldsTheNewest, Fits, Suits, Filled, InOrder
<1>. QED  BY <1>4, <1>5

LEMMA FitsWill == RestOK' => (CacheShowsItsVersion' /\ CacheHoldsTheNewest' <=> Fits')
BY FitsIs, PTL

\* What makes the queue of the next state fit.
LEMMA FitsNext ==
  ASSUME RestOK, UNCHANGED <<history, clock>>, NEW v \in Versions, version' = v,
         Suits(queue', FactsAt(v)),
         data' = [k \in Keys |-> IF k \in ToSet(queue') THEN FactsAt(v)[k].turn ELSE Absent],
         NeverRemoved(v) => Filled(queue', FactsAt(v)),
         UNCHANGED <<holder, expired>>, overtaken' \in SUBSET Procs
  PROVE  RestOK' /\ CacheShowsItsVersion' /\ CacheHoldsTheNewest'
<1>1. /\ Versions' = Versions /\ FactsAt(v)' = FactsAt(v) /\ FactsAt(v) \in [Keys -> Fact]
      /\ \A w : FactsAt(w)' = FactsAt(w)
  BY Stays, HistoryIs
<1>2. v \in Nat
  BY DEF Versions
<1>3. \A k \in Keys : FactsAt(v)[k].turn \in Nat
  BY <1>1 DEF Fact
<1>4. data' \in [Keys -> Nat \cup {Absent}]
  BY <1>3
<1>5. queue' \in Seq(Keys) /\ Len(queue') <= Capacity
  BY DEF Suits
<1>6. RestOK'
  BY <1>2, <1>4, <1>5 DEF RestOK
<1>7. FactsAt(version)' = FactsAt(v)
  BY <1>1 DEF FactsAt
<1>8. NeverRemoved(version)' => NeverRemoved(v)
  BY <1>1 DEF NeverRemoved
<1>9. Suits(queue, FactsAt(version))'
  BY <1>7 DEF Suits
<1>10. NeverRemoved(version)' => Filled(queue, FactsAt(version))'
  BY <1>7, <1>8 DEF Filled
<1>11. Fits'
  BY <1>1, <1>7, <1>9, <1>10 DEF Fits
<1>. QED  BY <1>6, <1>11, FitsWill

LEMMA ReplacedFits ==
  ASSUME TypeOK, ProcInv, NEW p \in Procs, ReplaceQueue(p)
  PROVE  RestOK' /\ CacheShowsItsVersion' /\ CacheHoldsTheNewest'
<1>1. RestOK
  BY TypeParts
<1>. DEFINE v == proc[p].seen
            facts == FactsAt(v)
            q == Warmup(facts)
            items == proc[p].items
            keys == [i \in DOMAIN items |-> items[i].key]
            turn(k) == items[CHOOSE i \in DOMAIN items : items[i].key = k].turn
<1>2. v \in Versions /\ items = WarmItems(facts)
  BY DEF ReplaceQueue, ProcInv
<1>3. facts \in [Keys -> Fact]
  BY <1>1, <1>2, HistoryIs
<1>4. /\ UNCHANGED <<history, clock, holder, expired>>
      /\ version' = v /\ queue' = keys
      /\ overtaken' \in SUBSET Procs
      /\ data' = [k \in Keys |-> IF k \in ToSet(keys) THEN turn(k) ELSE Absent]
  BY <1>1 DEF ReplaceQueue, ReadingLater, RestOK
<1>. HIDE DEF v, facts, items, q
<1>5. /\ q \in Seq(Keys) /\ DOMAIN items = DOMAIN q
      /\ \A i \in DOMAIN items : items[i].key = q[i] /\ items[i].turn = facts[q[i]].turn
  BY <1>2, <1>3, WarmItemsAre DEF q
<1>6. Suits(q, facts) /\ Filled(q, facts)
  BY <1>3, WarmupIs DEF q
<1>7. keys = q
  <2>1. Len(q) \in Nat /\ q = [i \in DOMAIN q |-> q[i]]
    BY <1>5, LenProperties
  <2>. QED  BY <1>5, <2>1
<1>8. ASSUME NEW k \in Keys, k \in ToSet(keys)
      PROVE  turn(k) = facts[k].turn
  <2>1. \E i \in DOMAIN items : items[i].key = k
    BY <1>8 DEF ToSet
  <2>. DEFINE i == CHOOSE i \in DOMAIN items : items[i].key = k
  <2>2. i \in DOMAIN items /\ items[i].key = k
    BY <2>1
  <2>. QED  BY <1>5, <2>2
<1>. HIDE DEF turn, keys
<1>9. data' = [k \in Keys |-> IF k \in ToSet(q) THEN facts[k].turn ELSE Absent]
  BY <1>4, <1>7, <1>8
<1>10. queue' = q
  BY <1>4, <1>7
<1>11. /\ Suits(queue', facts) /\ Filled(queue', facts)
       /\ data' = [k \in Keys |-> IF k \in ToSet(queue') THEN facts[k].turn ELSE Absent]
  BY <1>6, <1>9, <1>10
<1>. QED  BY <1>1, <1>2, <1>4, <1>11, FitsNext DEF facts

LEMMA EmptySuits ==
  ASSUME NEW facts
  PROVE  Suits(<<>>, facts)
<1>1. <<>> \in Seq(Keys) /\ Len(<<>>) = 0 /\ DOMAIN <<>> = {}
  BY EmptySeq
<1>2. ToSet(<<>>) = {}
  BY <1>1 DEF ToSet
<1>3. Capacity \in Nat
  BY SizeAssumption
<1>. QED  BY <1>1, <1>2, <1>3 DEF Suits, InOrder, IsInjective

\* The queue that a refresh continues fits the version it starts from.
LEMMA Continued ==
  ASSUME TypeOK, HistoryInv, DroppedInv, Fits, NEW v \in Versions, Continues(v)
  PROVE  /\ Suits(queue, FactsAt(v))
         /\ \A k \in ToSet(queue) : data[k] = FactsAt(v)[k].turn
         /\ NeverRemoved(v) => Filled(queue, FactsAt(v))
<1>1. v \in Nat /\ v # Absent
  BY DEF Versions, Absent
<1>2. CASE version = v
  <2>1. /\ Suits(queue, FactsAt(v))
        /\ data = [k \in Keys |-> IF k \in ToSet(queue) THEN FactsAt(v)[k].turn ELSE Absent]
        /\ NeverRemoved(v) => Filled(queue, FactsAt(v))
    BY <1>1, <1>2 DEF Fits
  <2>2. ToSet(queue) \subseteq Keys
    BY <2>1 DEF Suits, ActiveKeys
  <2>. QED  BY <2>1, <2>2
<1>3. CASE version = Absent /\ v = 0
  <2>1. queue = <<>> /\ FactsAt(0) = [k \in Keys |-> NoFact]
    BY <1>3 DEF DroppedInv, HistoryInv
  <2>2. ActiveKeys(FactsAt(v)) = {}
    BY <1>3, <2>1 DEF ActiveKeys, NoFact
  <2>3. ToSet(queue) = {}
    BY <2>1 DEF ToSet
  <2>. QED  BY <2>1, <2>2, <2>3, EmptySuits DEF Filled
<1>. QED  BY <1>2, <1>3 DEF Continues

LEMMA RefreshedFits ==
  ASSUME TypeOK, HistoryInv, ProcInv, DroppedInv, Fits, NEW p \in Procs, RefreshQueue(p)
  PROVE  RestOK' /\ CacheShowsItsVersion' /\ CacheHoldsTheNewest'
<1>1. RestOK /\ proc \in [Procs -> Process]
  BY TypeParts
<1>. DEFINE v == proc[p].seen
            u == proc[p].update
            facts == FactsAt(v)
            after == FactsAt(v + 1)
            q == Refreshed(queue, u)
            new == ToSet(u.refreshed)
<1>2. /\ v + 1 \in Versions /\ u \in Updates /\ Follows(v, u) /\ Continues(v)
  BY DEF RefreshQueue, ProcInv
<1>3. v \in Nat /\ databaseVersion \in Nat
  BY <1>1, HistoryIs DEF Process
<1>4. /\ UNCHANGED <<history, clock, holder, expired>>
      /\ version' = v + 1 /\ queue' = q
      /\ overtaken' \in SUBSET Procs
      /\ data' = [k \in Keys |-> IF k \notin ToSet(q) THEN Absent
                                 ELSE IF k \in new THEN v + 1 ELSE data[k]]
  BY <1>1 DEF RefreshQueue, RestOK
<1>. HIDE DEF v, u
<1>5. v \in Versions
  BY <1>2, <1>3 DEF Versions
<1>6. facts \in [Keys -> Fact]
  BY <1>1, <1>5, HistoryIs
<1>7. PICK t \in 0 .. clock :
        after = FactsAfter(facts, u, v + 1, t) /\ \A k \in Keys : facts[k].seen <= t
  BY <1>2 DEF Follows
<1>8. clock \in Nat /\ t \in Nat
  BY <1>1 DEF RestOK
<1>9. /\ Suits(queue, facts)
      /\ \A k \in ToSet(queue) : data[k] = facts[k].turn
      /\ NeverRemoved(v) => Filled(queue, facts)
  BY <1>2, <1>5, Continued
<1>10. \A k \in Keys : facts[k].active => facts[k].turn # 0
  BY <1>5 DEF HistoryInv
<1>. HIDE DEF facts, after, q, new
<1>11. /\ Suits(q, after) /\ ToSet(q) \subseteq ToSet(queue) \cup new
       /\ Filled(queue, facts) /\ ToSet(queue) \cap u.removed = {} => Filled(q, after)
  BY <1>2, <1>3, <1>6, <1>7, <1>8, <1>9, RefreshIs DEF q, new
<1>12. u.refreshed \in Seq(Keys) /\ new \cap u.removed = {}
  BY <1>2, UpdatesAssumption DEF new, ValidUpdate
<1>13. \A k \in Keys :
         /\ k \in new => after[k].turn = v + 1
         /\ k \notin new => after[k].turn = facts[k].turn
         /\ k \in u.removed => ~after[k].active
  BY <1>6, <1>7, <1>12 DEF FactsAfter, Fact, new
<1>14. ToSet(q) \subseteq Keys /\ ToSet(queue) \subseteq Keys
  BY <1>9, <1>11 DEF Suits, ActiveKeys
<1>15. data' = [k \in Keys |-> IF k \in ToSet(queue') THEN after[k].turn ELSE Absent]
  BY <1>4, <1>9, <1>11, <1>13, <1>14
<1>16. ASSUME NeverRemoved(v + 1)
       PROVE  Filled(q, after)
  <2>1. NeverRemoved(v)
    <3>1. \A w \in 0 .. v : w \in 0 .. v + 1
      BY <1>3
    <3>. QED  BY <1>16, <3>1 DEF NeverRemoved
  <2>2. \A k \in Keys : after[k].turn # 0 => after[k].active
    BY <1>3, <1>16 DEF NeverRemoved, ActiveKeys, after
  <2>3. \A k \in ToSet(queue) : facts[k].active /\ facts[k].turn # 0
    BY <1>9, <1>10, <1>14 DEF Suits, ActiveKeys
  <2>4. \A k \in ToSet(queue) : k \notin u.removed
    BY <1>12, <1>13, <1>14, <2>2, <2>3
  <2>. QED  BY <1>9, <1>11, <2>1, <2>4
<1>. QED  BY <1>1, <1>2, <1>4, <1>11, <1>15, <1>16, FitsNext DEF after

LEMMA FitsStays ==
  ASSUME TypeOK, Fits, Grows, UNCHANGED cacheVars
  PROVE  Fits'
<1>. SUFFICES ASSUME version # Absent
     PROVE  Fits'
  BY DEF Fits, cacheVars
<1>1. /\ version \in Versions
      /\ Suits(queue, FactsAt(version))
      /\ data = [k \in Keys |-> IF k \in ToSet(queue) THEN FactsAt(version)[k].turn ELSE Absent]
      /\ NeverRemoved(version) => Filled(queue, FactsAt(version))
  BY DEF Fits
<1>2. version' = version /\ queue' = queue /\ data' = data
  BY DEF cacheVars
<1>3. version \in Versions' /\ FactsAt(version)' = FactsAt(version)
  BY <1>1, <1>2 DEF Grows, FactsAt
<1>4. \A w \in 0 .. version : FactsAt(w)' = FactsAt(w)
  <2>1. databaseVersion \in Nat /\ version \in Nat
    BY <1>1, TypeParts, HistoryIs DEF Versions
  <2>2. \A w \in 0 .. version : w \in Versions
    BY <1>1, <2>1 DEF Versions
  <2>. QED  BY <2>2 DEF Grows
<1>5. NeverRemoved(version)' => NeverRemoved(version)
  BY <1>2, <1>4 DEF NeverRemoved
<1>6. Suits(queue, FactsAt(version))'
  BY <1>1, <1>2, <1>3 DEF Suits
<1>7. NeverRemoved(version)' => Filled(queue, FactsAt(version))'
  BY <1>1, <1>2, <1>3, <1>5 DEF Filled
<1>. QED  BY <1>1, <1>2, <1>3, <1>6, <1>7 DEF Fits

LEMMA CacheUntouched ==
  ASSUME NEW p \in Procs, Step(p), ~ReplaceQueue(p), ~RefreshQueue(p), ~Invalidate(p)
  PROVE  UNCHANGED cacheVars
BY DEF Step, Acquire, Plan, Release, Load, GetVersion, GetList, GetData, GetFails, LoadForWarmup,
       WarmupRefused, ReplaceFails, Select, Commit, CommitNothing, RefreshRefused, Crash, cacheVars

LEMMA LockTyped ==
  ASSUME RestOK, NEW p \in Procs, Step(p)
  PROVE  holder' \in Procs \cup {NoProc} /\ expired' = expired /\ overtaken' \in SUBSET Procs
BY DEF RestOK, ReadingLater, Step, Acquire, Plan, Release, Load, GetVersion, GetList, GetData, GetFails, LoadForWarmup,
       WarmupRefused, ReplaceQueue, ReplaceFails, Select, Commit, CommitNothing, RefreshQueue,
       RefreshRefused, Invalidate, Crash, cacheVars

\* The cache after a step.
LEMMA CacheStep ==
  ASSUME TypeOK, HistoryInv, ProcInv, DroppedInv, CacheShowsItsVersion, CacheHoldsTheNewest,
         NEW p \in Procs, Step(p)
  PROVE  RestOK' /\ CacheShowsItsVersion' /\ CacheHoldsTheNewest' /\ DroppedInv'
<1>1. RestOK /\ proc \in [Procs -> Process] /\ Fits
  BY TypeParts, FitsIs
<1>2. Grows
  BY HistoryGrows
<1>3. ASSUME ~Commit(p), UNCHANGED cacheVars
      PROVE  RestOK'
  <2>1. /\ UNCHANGED <<history, clock>> /\ holder' \in Procs \cup {NoProc}
        /\ expired' = expired /\ overtaken' \in SUBSET Procs
    BY <1>1, <1>3, OnlyCommit, LockTyped
  <2>. QED  BY <1>1, <1>3, <2>1 DEF RestOK, cacheVars
<1>4. CASE ReplaceQueue(p)
  <2>1. version' = proc[p].seen /\ proc[p].seen \in Nat
    BY <1>1, <1>4 DEF ReplaceQueue, Process
  <2>2. version' # Absent
    BY <2>1 DEF Absent
  <2>. QED  BY <1>4, <2>2, ReplacedFits DEF DroppedInv
<1>5. CASE RefreshQueue(p)
  <2>1. version' = proc[p].seen + 1 /\ proc[p].seen \in Nat
    BY <1>1, <1>5 DEF RefreshQueue, Process
  <2>2. version' # Absent
    BY <2>1 DEF Absent
  <2>. QED  BY <1>1, <1>5, <2>2, RefreshedFits DEF DroppedInv
<1>6. CASE Invalidate(p) /\ ~UNCHANGED cacheVars
  <2>1. /\ version' = Absent /\ queue' = <<>> /\ data' = [k \in Keys |-> Absent]
        /\ UNCHANGED <<history, clock, holder, expired, overtaken>>
    BY <1>6 DEF Invalidate
  <2>2. DroppedInv'
    BY <2>1 DEF DroppedInv
  <2>3. queue' \in Seq(Keys) /\ Len(queue') <= Capacity
    BY <2>1, EmptySeq, SizeAssumption
  <2>4. RestOK'
    BY <1>1, <2>1, <2>3 DEF RestOK
  <2>. QED  BY <2>1, <2>2, <2>4 DEF CacheShowsItsVersion, CacheHoldsTheNewest
<1>7. CASE Commit(p)
  <2>1. UNCHANGED cacheVars /\ UNCHANGED <<holder, expired, overtaken>>
    BY <1>7 DEF Commit
  <2>2. clock' \in Nat /\ history' \in Seq([Keys -> Fact]) /\ history' # <<>>
    BY <1>1, <1>7, CommitGoes
  <2>3. RestOK'
    BY <1>1, <2>1, <2>2 DEF RestOK, cacheVars
  <2>4. Fits'
    BY <1>1, <1>2, <2>1, FitsStays
  <2>5. DroppedInv'
    BY <2>1 DEF DroppedInv, cacheVars
  <2>. QED  BY <2>3, <2>4, <2>5, FitsWill
<1>8. CASE ~Commit(p) /\ UNCHANGED cacheVars
  <2>1. Fits' /\ RestOK'
    BY <1>1, <1>2, <1>3, <1>8, FitsStays
  <2>2. DroppedInv'
    BY <1>8 DEF DroppedInv, cacheVars
  <2>. QED  BY <2>1, <2>2, FitsWill
<1>. QED  BY <1>4, <1>5, <1>6, <1>7, <1>8, CacheUntouched

-----------------------------------------------------------------------------
(* History and requests.                                                   *)

LEMMA HistoryStep ==
  ASSUME TypeOK, HistoryInv, NEW p \in Procs, Step(p)
  PROVE  HistoryInv'
<1>1. RestOK /\ proc \in [Procs -> Process]
  BY TypeParts
<1>2. CASE ~Commit(p)
  <2>1. UNCHANGED <<history, clock>>
    BY <1>2, OnlyCommit
  <2>2. Versions' = Versions /\ clock' = clock /\ \A v : FactsAt(v)' = FactsAt(v)
    BY <1>1, <2>1, Stays
  <2>. QED  BY <2>2 DEF HistoryInv
<1>3. CASE Commit(p)
  <2>. DEFINE new == databaseVersion + 1
              u == proc'[p].update
  <2>1. /\ databaseVersion' = new /\ clock' \in Nat /\ clock <= clock'
        /\ \A v \in Versions : FactsAt(v)' = FactsAt(v)
        /\ Current' = FactsAfter(Current, u, new, clock')
    BY <1>1, <1>3, CommitGoes
  <2>2. databaseVersion \in Nat /\ Current \in [Keys -> Fact] /\ databaseVersion \in Versions
    BY <1>1, HistoryIs DEF Current
  <2>3. clock \in Nat
    BY <1>1 DEF RestOK
  <2>4. \A v \in Versions' : v \in Versions \/ v = databaseVersion'
    BY <2>1, <2>2 DEF Versions
  <2>5. ASSUME NEW v \in Versions, NEW k \in Keys
        PROVE  FactsAt(v)'[k].seen <= clock' /\ (FactsAt(v)'[k].active => FactsAt(v)'[k].turn # 0)
    <3>1. FactsAt(v)[k].seen \in Nat
      BY <1>1, HistoryIs DEF Fact
    <3>2. /\ FactsAt(v)[k].seen <= clock /\ FactsAt(v)'[k] = FactsAt(v)[k]
          /\ FactsAt(v)[k].active => FactsAt(v)[k].turn # 0
      BY <2>1 DEF HistoryInv
    <3>. QED  BY <2>1, <2>3, <3>1, <3>2
  <2>6. ASSUME NEW k \in Keys
        PROVE  Current'[k].seen <= clock' /\ (Current'[k].active => Current'[k].turn # 0)
    <3>1. /\ Current[k].seen <= clock /\ Current[k].seen \in Nat /\ Current[k] \in Fact
          /\ Current[k].active => Current[k].turn # 0
      BY <2>2 DEF HistoryInv, Current, Fact
    <3>. HIDE DEF u
    <3>2. CASE k \in ToSet(u.refreshed)
      <4>1. Current'[k] = [turn |-> new, seen |-> clock', active |-> TRUE]
        BY <2>1, <3>2 DEF FactsAfter
      <4>. QED  BY <2>1, <2>2, <4>1
    <3>3. CASE k \notin ToSet(u.refreshed)
      <4>1. Current'[k] = [Current[k] EXCEPT !.active = @ /\ k \notin u.removed]
        BY <2>1, <3>3 DEF FactsAfter
      <4>. QED  BY <2>1, <2>3, <3>1, <4>1 DEF Fact
    <3>. QED  BY <3>2, <3>3
  <2>7. FactsAt(0)' = FactsAt(0)
    BY <2>1, <2>2 DEF Versions
  <2>8. ASSUME NEW v \in Versions', NEW k \in Keys
        PROVE  FactsAt(v)'[k].seen <= clock' /\ (FactsAt(v)'[k].active => FactsAt(v)'[k].turn # 0)
    <3>1. CASE v \in Versions
      BY <2>5, <3>1
    <3>2. CASE v = databaseVersion'
      <4>1. FactsAt(v)' = Current'
        BY <3>2 DEF Current, FactsAt
      <4>. QED  BY <2>6, <4>1
    <3>. QED  BY <2>4, <3>1, <3>2
  <2>. QED  BY <2>7, <2>8 DEF HistoryInv
<1>. QED  BY <1>2, <1>3

LEMMA FollowsStays ==
  ASSUME RestOK, Grows, NEW v \in Nat, v + 1 \in Versions, NEW u, Follows(v, u)
  PROVE  /\ v + 1 \in Versions'
         /\ \E t \in 0 .. clock' : /\ FactsAt(v + 1)' = FactsAfter(FactsAt(v)', u, v + 1, t)
                                   /\ \A k \in Keys : FactsAt(v)'[k].seen <= t
<1>1. PICK t \in 0 .. clock : /\ FactsAt(v + 1) = FactsAfter(FactsAt(v), u, v + 1, t)
                              /\ \A k \in Keys : FactsAt(v)[k].seen <= t
  BY DEF Follows
<1>2. v \in Versions
  BY HistoryIs DEF Versions
<1>3. FactsAt(v)' = FactsAt(v) /\ FactsAt(v + 1)' = FactsAt(v + 1) /\ v + 1 \in Versions'
  BY <1>2 DEF Grows
<1>4. t \in 0 .. clock'
  BY DEF Grows, RestOK
<1>. QED  BY <1>1, <1>3, <1>4

\* How a request comes to refresh or to replace the queue.
LEMMA Arrives ==
  ASSUME TypeOK, NEW p \in Procs, Step(p)
  PROVE  /\ proc'[p].pc = "refresh" => Commit(p)
         /\ proc'[p].pc = "replace" => LoadForWarmup(p)
<1>. DEFINE Goal == proc'[p].pc # "refresh" /\ proc'[p].pc # "replace"
<1>1. RestOK /\ proc \in [Procs -> Process]
  BY TypeParts
<1>2. ASSUME NEW pc \in Pcs \ {"refresh", "replace"}, Goto(p, pc)
      PROVE  Goal
  BY <1>1, <1>2, WentTo
<1>3. ASSUME Leave(p) \/ Drop(p) \/ proc' = [proc EXCEPT ![p] = Idle]
      PROVE  Goal
  <2>1. proc'[p].pc \in {"idle", "drop", "release"}
    BY <1>1, <1>3, Left
  <2>. QED  BY <2>1
<1>4. ASSUME Plan(p) \/ GetVersion(p) \/ ReplaceQueue(p) \/ ReplaceFails(p)
      PROVE  Goal
  <2>1. \E pc \in Pcs \ {"refresh", "replace"} : Goto(p, pc)
    BY <1>4 DEF Plan, GetVersion, ReplaceQueue, ReplaceFails, Pcs
  <2>. QED  BY <1>2, <2>1
<1>5. ASSUME Release(p) \/ WarmupRefused(p) \/ Select(p) \/ CommitNothing(p) \/ RefreshQueue(p)
             \/ RefreshRefused(p) \/ Crash(p)
      PROVE  Goal
  BY <1>3, <1>5 DEF Release, WarmupRefused, Select, CommitNothing, RefreshQueue,
                    RefreshRefused, Crash
<1>6. ASSUME Invalidate(p)
      PROVE  Goal
  <2>1. Leave(p) \/ Goto(p, "select")
    BY <1>6 DEF Invalidate
  <2>. QED  BY <1>2, <1>3, <2>1 DEF Pcs
<1>7. ASSUME GetFails(p)
      PROVE  Goal
  <2>1. proc'[p].pc = "warmup"
    BY <1>1, <1>7, Missed DEF GetFails
  <2>. QED  BY <2>1
<1>8. ASSUME Load(p)
      PROVE  Goal
  <2>1. proc'[p].pc = "getVersion"
    BY <1>1, <1>8, LoadGoes
  <2>. QED  BY <2>1
<1>9. ASSUME GetList(p) \/ GetData(p)
      PROVE  Goal
  <2>1. proc'[p].pc \in {"select", "warmup", "getData"}
    BY <1>1, <1>9, GetListGoes, GetDataGoes
  <2>. QED  BY <2>1
<1>10. ASSUME LoadForWarmup(p)
       PROVE  proc'[p].pc # "refresh"
  BY <1>1, <1>10, LoadForWarmupGoes
<1>11. ASSUME Commit(p)
       PROVE  proc'[p].pc # "replace"
  <2>1. proc'[p].pc = "refresh"
    BY <1>1, <1>11, CommitGoes
  <2>. QED  BY <2>1
<1>12. ASSUME Acquire(p)
       PROVE  Goal
  <2>1. proc'[p].pc \in {"load", "commit"}
    BY <1>1, <1>12, AcquireGoes
  <2>. QED  BY <2>1
<1>. QED  BY <1>4, <1>5, <1>6, <1>7, <1>8, <1>9, <1>10, <1>11, <1>12 DEF Step

LEMMA ProcStep ==
  ASSUME TypeOK, HistoryInv, ProcInv, NEW p \in Procs, Step(p)
  PROVE  ProcInv'
<1>1. RestOK /\ proc \in [Procs -> Process] /\ Grows
  BY TypeParts, HistoryGrows
<1>2. \A o \in Procs : o # p => proc'[o] = proc[o]
  BY OneMoves
<1>. DEFINE Ready(o) ==
       /\ (proc[o].pc = "refresh")' => /\ (proc[o].seen + 1 \in Versions)'
                                       /\ (proc[o].update \in Updates)'
                                       /\ Follows(proc[o].seen, proc[o].update)'
       /\ (proc[o].pc = "replace")' => /\ (proc[o].seen \in Versions)'
                                       /\ (proc[o].items = WarmItems(FactsAt(proc[o].seen)))'
<1>3. ASSUME NEW o \in Procs, o # p
      PROVE  Ready(o)
  <2>1. proc'[o] = proc[o]
    BY <1>2, <1>3
  <2>2. PICK v, u : v = proc[o].seen /\ u = proc[o].update
    OBVIOUS
  <2>3. v \in Nat /\ proc'[o].seen = v /\ proc'[o].update = u
    BY <1>1, <2>1, <2>2 DEF Process
  <2>4. ASSUME (proc[o].pc = "refresh")'
        PROVE  /\ (proc[o].seen + 1 \in Versions)'
               /\ (proc[o].update \in Updates)'
               /\ Follows(proc[o].seen, proc[o].update)'
    <3>1. v + 1 \in Versions /\ u \in Updates /\ Follows(v, u)
      BY <2>1, <2>2, <2>4 DEF ProcInv, At
    <3>2. /\ v + 1 \in Versions'
          /\ \E t \in 0 .. clock' : /\ FactsAt(v + 1)' = FactsAfter(FactsAt(v)', u, v + 1, t)
                                    /\ \A k \in Keys : FactsAt(v)'[k].seen <= t
      BY <1>1, <2>3, <3>1, FollowsStays
    <3>3. FactsAt(proc[o].seen)' = FactsAt(v)' /\ FactsAt(proc[o].seen + 1)' = FactsAt(v + 1)'
      BY <2>3 DEF FactsAt
    <3>4. Follows(proc[o].seen, proc[o].update)'
      BY <2>3, <3>2, <3>3 DEF Follows
    <3>. QED  BY <2>3, <3>1, <3>2, <3>4
  <2>5. ASSUME (proc[o].pc = "replace")'
        PROVE  /\ (proc[o].seen \in Versions)'
               /\ (proc[o].items = WarmItems(FactsAt(proc[o].seen)))'
    <3>1. v \in Versions /\ proc[o].items = WarmItems(FactsAt(v))
      BY <2>1, <2>2, <2>5 DEF ProcInv, At
    <3>2. v \in Versions' /\ FactsAt(v)' = FactsAt(v)
      BY <1>1, <3>1 DEF Grows
    <3>3. FactsAt(proc[o].seen)' = FactsAt(v)
      BY <2>3, <3>2 DEF FactsAt
    <3>4. (proc[o].items = WarmItems(FactsAt(proc[o].seen)))'
      BY <2>1, <3>1, <3>3 DEF WarmItems
    <3>. QED  BY <2>3, <3>2, <3>4
  <2>. QED  BY <2>4, <2>5
<1>4. ASSUME Commit(p)
      PROVE  Ready(p)
  <2>1. PICK v, u : v = databaseVersion /\ u = proc'[p].update
    OBVIOUS
  <2>2. /\ proc'[p].pc = "refresh" /\ proc'[p].seen = v /\ u \in Updates
        /\ clock' \in Nat /\ clock <= clock' /\ databaseVersion' = v + 1
        /\ \A w \in Versions : FactsAt(w)' = FactsAt(w)
        /\ Current' = FactsAfter(Current, u, v + 1, clock')
    BY <1>1, <1>4, <2>1, CommitGoes
  <2>3. v \in Nat /\ v \in Versions /\ Current = FactsAt(v)
    BY <1>1, <2>1, HistoryIs DEF Current
  <2>4. v + 1 \in Versions'
    BY <2>2, <2>3 DEF Versions
  <2>5. FactsAt(v + 1)' = Current' /\ FactsAt(v)' = FactsAt(v)
    BY <2>2, <2>3 DEF Current, FactsAt
  <2>6. \A k \in Keys : FactsAt(v)[k].seen <= clock'
    <3>1. \A k \in Keys : FactsAt(v)[k].seen \in Nat /\ FactsAt(v)[k].seen <= clock
      BY <1>1, <2>3, HistoryIs DEF HistoryInv, Fact
    <3>2. clock \in Nat
      BY <1>1 DEF RestOK
    <3>. QED  BY <2>2, <3>1, <3>2
  <2>7. FactsAt(proc[p].seen)' = FactsAt(v)' /\ FactsAt(proc[p].seen + 1)' = FactsAt(v + 1)'
    BY <2>2 DEF FactsAt
  <2>8. clock' \in 0 .. clock'
    BY <2>2
  <2>9. /\ FactsAt(v + 1)' = FactsAfter(FactsAt(v)', u, v + 1, clock')
        /\ \A k \in Keys : FactsAt(v)'[k].seen <= clock'
    BY <2>2, <2>3, <2>5, <2>6
  <2>10. Follows(proc[p].seen, proc[p].update)'
    BY <2>1, <2>2, <2>7, <2>8, <2>9 DEF Follows
  <2>. QED  BY <2>1, <2>2, <2>4, <2>10
<1>5. ASSUME LoadForWarmup(p)
      PROVE  Ready(p)
  <2>1. PICK v : v = databaseVersion
    OBVIOUS
  <2>2. /\ proc'[p].pc = "replace" /\ proc'[p].seen = v /\ proc'[p].items = WarmItems(Current)
    BY <1>1, <1>5, <2>1, LoadForWarmupGoes
  <2>3. v \in Versions' /\ FactsAt(v)' = FactsAt(v) /\ Current = FactsAt(v)
    BY <1>1, <2>1, HistoryIs DEF Grows, Current
  <2>4. FactsAt(proc[p].seen)' = FactsAt(v)
    BY <2>2, <2>3 DEF FactsAt
  <2>5. (proc[p].items = WarmItems(FactsAt(proc[p].seen)))'
    BY <2>2, <2>3, <2>4 DEF WarmItems
  <2>. QED  BY <2>2, <2>3, <2>5
<1>6. Ready(p)
  BY <1>4, <1>5, Arrives
<1>7. \A o \in Procs : Ready(o)
  BY <1>3, <1>6
<1>. QED  BY <1>7 DEF ProcInv, At

-----------------------------------------------------------------------------
(* What a reader has read.                                                 *)

\* What AnswerInv says of one request.
Answered(p) ==
  /\ proc[p].pc \in {"idle", "load", "getVersion", "getList"} => proc[p].items = <<>>
  /\ proc[p].pc \in {"dropWarmup", "select"}
       => \E v \in Versions : ItemsMatch(proc[p].items, FactsAt(v))

LEMMA AnsweredIs == AnswerInv <=> \A p \in Procs : Answered(p)
BY DEF AnswerInv, Answered

LEMMA AnsweredWill == (\A p \in Procs : Answered(p))' => AnswerInv'
BY AnsweredIs, PTL

\* What has matched a version of the facts matches it for good.
LEMMA MatchStays ==
  ASSUME Grows, NEW items, \E v \in Versions : ItemsMatch(items, FactsAt(v))
  PROVE  \E v \in Versions' : ItemsMatch(items, FactsAt(v)')
<1>1. PICK v \in Versions : ItemsMatch(items, FactsAt(v))
  OBVIOUS
<1>2. v \in Versions' /\ FactsAt(v)' = FactsAt(v)
  BY DEF Grows
<1>. QED  BY <1>1, <1>2

LEMMA MatchWill ==
  ASSUME NEW p \in Procs, \E v \in Versions' : ItemsMatch(proc'[p].items, FactsAt(v)')
  PROVE  (\E v \in Versions : ItemsMatch(proc[p].items, FactsAt(v)))'
BY DEF ItemsMatch, FactsAt

\* If HMGET has data for all the keys they are facts of the version in Redis.  Without
\* a version there is no data, and then there were no keys.
LEMMA FetchedMatch ==
  ASSUME TypeOK, DroppedInv, CacheShowsItsVersion, NEW keys \in Seq(Keys),
         \A i \in DOMAIN keys : data[keys[i]] # Absent,
         NEW v \in Versions, version \in {v, Absent}
  PROVE  ItemsMatch(Fetched(keys), FactsAt(v))
<1>1. \A i \in DOMAIN keys : keys[i] \in Keys
  BY LenProperties
<1>2. ASSUME NEW i \in DOMAIN keys
      PROVE  FactsAt(v)[keys[i]].active /\ data[keys[i]] = FactsAt(v)[keys[i]].turn
  <2>1. keys[i] \in Keys /\ data[keys[i]] # Absent
    BY <1>1
  <2>2. version # Absent
    BY <2>1 DEF DroppedInv
  <2>3. /\ ToSet(queue) \subseteq ActiveKeys(FactsAt(v))
        /\ data[keys[i]] = IF keys[i] \in ToSet(queue) THEN FactsAt(v)[keys[i]].turn ELSE Absent
    BY <2>1, <2>2 DEF CacheShowsItsVersion
  <2>. QED  BY <2>1, <2>3 DEF ActiveKeys
<1>. QED  BY <1>2 DEF ItemsMatch, Fetched

\* How a reader comes to its answer.
LEMMA AnswerArrives ==
  ASSUME TypeOK, NEW p \in Procs, Step(p), proc'[p].pc \in {"dropWarmup", "select"}
  PROVE  \/ GetList(p) /\ proc'[p].items = proc[p].items
         \/ GetData(p)
         \/ /\ ReplaceQueue(p) \/ ReplaceFails(p) \/ Invalidate(p)
            /\ proc[p].pc \in {"replace", "dropWarmup"}
            /\ proc'[p].items = proc[p].items /\ proc'[p].seen = proc[p].seen
<1>1. RestOK /\ proc \in [Procs -> Process]
  BY TypeParts
<1>2. ~(Leave(p) \/ Drop(p) \/ proc' = [proc EXCEPT ![p] = Idle])
  <2>1. ASSUME Leave(p) \/ Drop(p) \/ proc' = [proc EXCEPT ![p] = Idle]
        PROVE  proc'[p].pc \in {"idle", "drop", "release"}
    BY <1>1, <2>1, Left
  <2>. QED  BY <2>1
<1>3. /\ ~Release(p) /\ ~WarmupRefused(p) /\ ~Select(p) /\ ~CommitNothing(p)
      /\ ~RefreshQueue(p) /\ ~RefreshRefused(p) /\ ~Crash(p)
  BY <1>2 DEF Release, WarmupRefused, Select, CommitNothing, RefreshQueue, RefreshRefused, Crash
<1>4. ~Acquire(p)
  <2>1. Acquire(p) => proc'[p].pc \in {"load", "commit"}
    BY <1>1, AcquireGoes
  <2>. QED  BY <2>1
<1>5. ASSUME NEW pc \in Pcs \ {"dropWarmup", "select"}
      PROVE  ~Goto(p, pc)
  <2>1. Goto(p, pc) => proc'[p].pc = pc
    BY <1>1, WentTo
  <2>. QED  BY <2>1
<1>6. ~Plan(p) /\ ~GetVersion(p)
  BY <1>5 DEF Plan, GetVersion, Pcs
<1>7. ~Load(p)
  <2>1. Load(p) => proc'[p].pc = "getVersion"
    BY <1>1, LoadGoes
  <2>. QED  BY <2>1
<1>8. ~GetFails(p)
  <2>1. GetFails(p) => proc'[p].pc = "warmup"
    BY <1>1, Missed DEF GetFails
  <2>. QED  BY <2>1
<1>9. ~LoadForWarmup(p)
  <2>1. LoadForWarmup(p) => proc'[p].pc = "replace"
    BY <1>1, LoadForWarmupGoes
  <2>. QED  BY <2>1
<1>10. ~Commit(p)
  <2>1. Commit(p) => proc'[p].pc = "refresh"
    BY <1>1, CommitGoes
  <2>. QED  BY <2>1
<1>11. CASE GetList(p)
  <2>1. \/ proc'[p].pc = "select" /\ proc'[p].items = proc[p].items
        \/ proc'[p].pc = "warmup"
        \/ proc'[p].pc = "getData"
    BY <1>1, <1>11, GetListGoes
  <2>. QED  BY <1>11, <2>1
<1>12. ASSUME ReplaceQueue(p) \/ ReplaceFails(p) \/ Invalidate(p)
       PROVE  /\ proc[p].pc \in {"replace", "dropWarmup"}
              /\ proc'[p].items = proc[p].items /\ proc'[p].seen = proc[p].seen
  <2>1. /\ proc[p].pc \in {"replace", "dropWarmup"}
        /\ Goto(p, "select") \/ Goto(p, "dropWarmup")
    BY <1>2, <1>12 DEF ReplaceQueue, ReplaceFails, Invalidate, At
  <2>. QED  BY <1>1, <2>1, WentTo DEF Pcs
<1>. QED  BY <1>3, <1>4, <1>6, <1>7, <1>8, <1>9, <1>10, <1>11, <1>12 DEF Step

LEMMA AnswerStep ==
  ASSUME TypeOK, ProcInv, DroppedInv, CacheShowsItsVersion, AnswerInv, NEW p \in Procs, Step(p)
  PROVE  AnswerInv'
<1>1. RestOK /\ proc \in [Procs -> Process] /\ Grows
  BY TypeParts, HistoryGrows
<1>. SUFFICES ASSUME NEW o \in Procs
     PROVE  Answered(o)'
  BY AnsweredWill
<1>2. Answered(o) /\ Answered(p)
  BY AnsweredIs
<1>3. CASE o # p
  <2>1. proc'[o] = proc[o]
    BY <1>3, OneMoves
  <2>2. ASSUME proc[o].pc \in {"dropWarmup", "select"}
        PROVE  (\E v \in Versions : ItemsMatch(proc[o].items, FactsAt(v)))'
    <3>1. \E v \in Versions' : ItemsMatch(proc[o].items, FactsAt(v)')
      BY <1>1, <1>2, <2>2, MatchStays DEF Answered
    <3>. QED  BY <2>1, <3>1, MatchWill
  <2>. QED  BY <1>2, <2>1, <2>2 DEF Answered
<1>4. ASSUME proc'[p].pc \in {"dropWarmup", "select"}
      PROVE  (\E v \in Versions : ItemsMatch(proc[p].items, FactsAt(v)))'
  <2>1. \E v \in Versions : ItemsMatch(proc'[p].items, FactsAt(v))
    <3>1. databaseVersion \in Versions
      BY <1>1, HistoryIs
    <3>2. CASE GetList(p) /\ proc'[p].items = proc[p].items
      <4>1. proc'[p].items = <<>>
        BY <1>2, <3>2 DEF GetList, At, Answered
      <4>. QED  BY <3>1, <4>1 DEF ItemsMatch
    <3>3. CASE GetData(p)
      <4>. DEFINE keys == proc[p].keys
                  v == IF version = Absent THEN databaseVersion ELSE version
      <4>1. keys \in Seq(Keys)
        BY <1>1 DEF Process
      <4>2. proc'[p].pc # "warmup"
        BY <1>4
      <4>3. /\ proc'[p].items = Fetched(keys)
            /\ \A i \in DOMAIN keys : data[keys[i]] # Absent
        BY <1>1, <3>3, <4>2, GetDataGoes
      <4>4. v \in Versions /\ version \in {v, Absent}
        BY <1>1, <3>1 DEF CacheShowsItsVersion, Versions, RestOK
      <4>. HIDE DEF keys, v
      <4>5. ItemsMatch(Fetched(keys), FactsAt(v))
        BY <4>1, <4>3, <4>4, FetchedMatch
      <4>. QED  BY <4>3, <4>4, <4>5
    <3>4. CASE /\ proc[p].pc \in {"replace", "dropWarmup"}
               /\ proc'[p].items = proc[p].items
      <4>1. CASE proc[p].pc = "dropWarmup"
        BY <1>2, <3>4, <4>1 DEF Answered
      <4>2. CASE proc[p].pc = "replace"
        <5>1. proc[p].seen \in Versions /\ proc[p].items = WarmItems(FactsAt(proc[p].seen))
          BY <4>2 DEF ProcInv, At
        <5>2. ItemsMatch(proc[p].items, FactsAt(proc[p].seen))
          BY <1>1, <5>1, HistoryIs, WarmItemsAre
        <5>. QED  BY <3>4, <5>1, <5>2
      <4>. QED  BY <3>4, <4>1, <4>2
    <3>. QED  BY <1>4, <3>2, <3>3, <3>4, AnswerArrives
  <2>2. \E v \in Versions' : ItemsMatch(proc'[p].items, FactsAt(v)')
    BY <1>1, <2>1, MatchStays
  <2>. QED  BY <2>2, MatchWill
<1>5. ASSUME proc'[p].pc \in {"idle", "load", "getVersion", "getList"}
      PROVE  proc'[p].items = <<>>
  <2>1. CASE Leave(p) \/ Drop(p) \/ proc' = [proc EXCEPT ![p] = Idle]
    BY <1>1, <2>1, Left
  <2>2. CASE Acquire(p) \/ Plan(p) \/ Load(p) \/ GetVersion(p)
    <3>1. proc[p].items = <<>>
      BY <1>2, <2>2 DEF Acquire, Plan, Load, GetVersion, At, Answered
    <3>2. (Plan(p) \/ GetVersion(p)) => \E pc \in Pcs : Goto(p, pc)
      BY DEF Plan, GetVersion, Pcs
    <3>3. proc'[p].items = proc[p].items
      BY <1>1, <2>2, <3>2, AcquireGoes, LoadGoes, WentTo
    <3>. QED  BY <3>1, <3>3
  <2>3. ~(GetList(p) \/ GetData(p))
    <3>1. GetList(p) \/ GetData(p) => proc'[p].pc \in {"select", "warmup", "getData"}
      BY <1>1, GetListGoes, GetDataGoes
    <3>. QED  BY <1>5, <3>1
  <2>4. ~GetFails(p)
    <3>1. GetFails(p) => proc'[p].pc = "warmup"
      BY <1>1, Missed DEF GetFails
    <3>. QED  BY <1>5, <3>1
  <2>5. ~LoadForWarmup(p)
    <3>1. LoadForWarmup(p) => proc'[p].pc = "replace"
      BY <1>1, LoadForWarmupGoes
    <3>. QED  BY <1>5, <3>1
  <2>6. ~Commit(p)
    <3>1. Commit(p) => proc'[p].pc = "refresh"
      BY <1>1, CommitGoes
    <3>. QED  BY <1>5, <3>1
  <2>7. ~Goto(p, "select") /\ ~Goto(p, "dropWarmup")
    <3>1. Goto(p, "select") \/ Goto(p, "dropWarmup") => proc'[p].pc \in {"select", "dropWarmup"}
      BY <1>1, WentTo DEF Pcs
    <3>. QED  BY <1>5, <3>1
  <2>8. ~ReplaceQueue(p) /\ ~ReplaceFails(p)
    BY <2>7 DEF ReplaceQueue, ReplaceFails
  <2>9. Release(p) \/ WarmupRefused(p) \/ Select(p) \/ CommitNothing(p) \/ RefreshQueue(p)
          \/ RefreshRefused(p) \/ Invalidate(p) \/ Crash(p)
        => Leave(p) \/ Drop(p) \/ proc' = [proc EXCEPT ![p] = Idle]
    BY <2>7 DEF Release, WarmupRefused, Select, CommitNothing, RefreshQueue, RefreshRefused,
                Invalidate, Crash
  <2>. QED  BY <2>1, <2>2, <2>3, <2>4, <2>5, <2>6, <2>8, <2>9 DEF Step
<1>6. Answered(p)'
  BY <1>4, <1>5 DEF Answered
<1>. QED  BY <1>3, <1>6

-----------------------------------------------------------------------------
(* Under the lock.                                                         *)

LEMMA LockWill ==
  ASSUME \A o \in Procs :
           proc'[o].pc \in {"commit", "refresh", "drop", "release"} => proc'[o].locked
  PROVE  LockInv'
BY DEF LockInv

\* A step ends the work, begins it, commits it, or is one of reading.
LEMMA Going ==
  ASSUME TypeOK, NEW p \in Procs, Step(p)
  PROVE  \/ Leave(p) \/ Drop(p) \/ proc' = [proc EXCEPT ![p] = Idle]
         \/ Acquire(p)
         \/ Commit(p)
         \/ /\ proc'[p].pc \in {"load"} \cup Reading
            /\ proc'[p].locked = proc[p].locked
<1>. DEFINE Goal == /\ proc'[p].pc \in {"load"} \cup Reading
                    /\ proc'[p].locked = proc[p].locked
<1>1. RestOK /\ proc \in [Procs -> Process]
  BY TypeParts
<1>2. ASSUME NEW pc \in {"load"} \cup Reading, Goto(p, pc)
      PROVE  Goal
  <2>1. pc \in Pcs
    BY DEF Pcs, Reading
  <2>2. proc'[p].pc = pc /\ proc'[p].locked = proc[p].locked
    BY <1>1, <1>2, <2>1, WentTo
  <2>. QED  BY <2>2
<1>3. ASSUME Plan(p) \/ GetVersion(p) \/ ReplaceQueue(p) \/ ReplaceFails(p)
      PROVE  Goal
  <2>1. \E pc \in {"load"} \cup Reading : Goto(p, pc)
    BY <1>3 DEF Plan, GetVersion, ReplaceQueue, ReplaceFails, Reading
  <2>. QED  BY <1>2, <2>1
<1>4. ASSUME GetFails(p)
      PROVE  Goal
  BY <1>1, <1>4, Missed DEF GetFails, Reading
<1>5. ASSUME Load(p)
      PROVE  Goal
  BY <1>1, <1>5, LoadGoes DEF Reading
<1>6. ASSUME GetList(p)
      PROVE  Goal
  BY <1>1, <1>6, GetListGoes DEF Reading
<1>7. ASSUME GetData(p)
      PROVE  Goal
  BY <1>1, <1>7, GetDataGoes DEF Reading
<1>8. ASSUME LoadForWarmup(p)
      PROVE  Goal
  BY <1>1, <1>8, LoadForWarmupGoes DEF Reading
<1>9. Invalidate(p) => Leave(p) \/ Goal
  <2>1. Invalidate(p) => Leave(p) \/ Goto(p, "select")
    BY DEF Invalidate
  <2>. QED  BY <1>2, <2>1 DEF Reading
<1>10. Release(p) \/ WarmupRefused(p) \/ Select(p) \/ CommitNothing(p) \/ RefreshQueue(p)
         \/ RefreshRefused(p) \/ Crash(p)
       => Leave(p) \/ Drop(p) \/ proc' = [proc EXCEPT ![p] = Idle]
  BY DEF Release, WarmupRefused, Select, CommitNothing, RefreshQueue, RefreshRefused, Crash
<1>. QED  BY <1>3, <1>4, <1>5, <1>6, <1>7, <1>8, <1>9, <1>10 DEF Step

LEMMA LockStep ==
  ASSUME TypeOK, LockInv, NEW p \in Procs, Step(p)
  PROVE  LockInv'
<1>1. RestOK /\ proc \in [Procs -> Process]
  BY TypeParts
<1>. DEFINE Owns(o) == proc'[o].pc \in {"commit", "refresh", "drop", "release"} => proc'[o].locked
<1>2. ASSUME NEW o \in Procs, o # p
      PROVE  Owns(o)
  <2>1. proc'[o] = proc[o]
    BY <1>2, OneMoves
  <2>. QED  BY <2>1 DEF LockInv
<1>3. CASE Leave(p) \/ Drop(p) \/ proc' = [proc EXCEPT ![p] = Idle]
  <2>1. proc'[p].pc # "idle" <=> proc'[p].locked
    BY <1>1, <1>3, Left
  <2>2. Owns(p)
    BY <2>1
  <2>. QED  BY <1>2, <2>2, LockWill
<1>4. CASE Acquire(p)
  <2>1. Owns(p)
    BY <1>1, <1>4, AcquireGoes
  <2>. QED  BY <1>2, <2>1, LockWill
<1>5. CASE Commit(p)
  <2>1. proc[p].locked
    BY <1>5 DEF Commit, At, LockInv
  <2>2. Owns(p)
    BY <1>1, <1>5, <2>1, CommitGoes
  <2>. QED  BY <1>2, <2>2, LockWill
<1>6. CASE proc'[p].pc \in {"load"} \cup Reading
  <2>1. Owns(p)
    BY <1>6 DEF Reading
  <2>. QED  BY <1>2, <2>1, LockWill
<1>. QED  BY <1>3, <1>4, <1>5, <1>6, Going

\* What AloneInv says of one request.
Fine(p) ==
  proc[p].locked =>
    /\ holder = p
    /\ proc[p].pc \in Reading => proc[p].seen = databaseVersion
    /\ proc[p].pc \in {"getList", "getData"} /\ p \notin overtaken
         => version \in {proc[p].seen, Absent}
    /\ proc[p].pc \in {"replace", "dropWarmup", "select"} /\ p \notin overtaken
         => ItemsMatch(proc[p].items, Current)

LEMMA FineIs == AloneInv <=> (~expired => \A p \in Procs : Fine(p))
BY DEF AloneInv, Fine

LEMMA FineWill == (expired \/ \A p \in Procs : Fine(p))' => AloneInv'
<1>1. (expired \/ \A p \in Procs : Fine(p)) => AloneInv
  BY FineIs
<1>. QED  BY <1>1, PTL

\* Only the first and the last step under the lock touch it.
LEMMA LockKept ==
  ASSUME NEW p \in Procs, Step(p), ~Acquire(p), ~Release(p)
  PROVE  holder' = holder
BY DEF Step, Plan, Load, GetVersion, GetList, GetData, GetFails, LoadForWarmup, WarmupRefused,
       ReplaceQueue, ReplaceFails, Select, Commit, CommitNothing, RefreshQueue,
       RefreshRefused, Invalidate, Crash

\* Nobody gets rid of being overtaken by the step of another.
LEMMA OvertakenStays ==
  ASSUME NEW p \in Procs, Step(p), NEW o \in Procs, o # p, o \notin overtaken'
  PROVE  o \notin overtaken /\ (ReplaceQueue(p) => o \notin ReadingLater(proc[p].seen))
BY DEF Step, Acquire, Plan, Release, Load, GetVersion, GetList, GetData, GetFails, LoadForWarmup,
       WarmupRefused, ReplaceQueue, ReplaceFails, Select, Commit, CommitNothing, RefreshQueue,
       RefreshRefused, Invalidate, Crash

\* Beside the holder of the lock only readers without it move.
LEMMA Bystander ==
  ASSUME AloneInv, LockInv, ~expired, NEW p \in Procs, Step(p),
         NEW o \in Procs, o # p, proc[o].locked
  PROVE  /\ holder = o /\ holder' = o /\ UNCHANGED <<history, clock>>
         /\ ~RefreshQueue(p) /\ ~(Invalidate(p) /\ At(p, "drop"))
<1>1. holder = o
  BY DEF AloneInv
<1>2. ~proc[p].locked
  BY <1>1 DEF AloneInv
<1>3. ~Acquire(p)
  BY <1>1, SizeAssumption DEF Acquire
<1>4. ~Release(p) /\ ~Commit(p) /\ ~RefreshQueue(p) /\ ~(Invalidate(p) /\ At(p, "drop"))
  BY <1>2 DEF Release, Commit, RefreshQueue, At, LockInv
<1>. QED  BY <1>1, <1>3, <1>4, LockKept, OnlyCommit

\* What a reader without the lock may do to the queue of the one with it.
LEMMA OtherFine ==
  ASSUME TypeOK, ProcInv, LockInv, AloneInv, ~expired, NEW p \in Procs, Step(p),
         NEW o \in Procs, o # p
  PROVE  Fine(o)'
<1>1. RestOK /\ proc \in [Procs -> Process]
  BY TypeParts
<1>2. proc'[o] = proc[o]
  BY OneMoves
<1>. SUFFICES ASSUME proc[o].locked
     PROVE  Fine(o)'
  BY <1>2 DEF Fine
<1>3. /\ holder' = o /\ UNCHANGED <<history, clock>> /\ ~RefreshQueue(p)
      /\ ~(Invalidate(p) /\ At(p, "drop"))
  BY Bystander
<1>4. databaseVersion' = databaseVersion /\ Current' = Current /\ databaseVersion \in Nat
  BY <1>1, <1>3, Stays, HistoryIs
<1>5. Fine(o)
  BY FineIs
<1>6. ASSUME proc[o].pc \in {"getList", "getData"}, o \notin overtaken'
      PROVE  version' \in {proc[o].seen, Absent}
  <2>1. /\ version \in {proc[o].seen, Absent} /\ proc[o].seen = databaseVersion
        /\ ReplaceQueue(p) => o \notin ReadingLater(proc[p].seen)
    BY <1>5, <1>6, OvertakenStays DEF Fine, Reading
  <2>2. CASE ReplaceQueue(p)
    <3>1. version' = proc[p].seen /\ proc[p].seen \in Versions
      BY <2>2 DEF ReplaceQueue, ProcInv
    <3>2. proc[p].seen \in Nat /\ proc[p].seen <= databaseVersion
      BY <1>1, <1>4, <3>1 DEF Versions, Process
    <3>3. ~(proc[o].seen > proc[p].seen)
      BY <1>6, <2>1, <2>2 DEF ReadingLater
    <3>. HIDE DEF databaseVersion
    <3>. QED  BY <1>4, <2>1, <3>1, <3>2, <3>3
  <2>3. CASE Invalidate(p)
    <3>1. version' = Absent \/ version' = version
      BY <2>3 DEF Invalidate, cacheVars
    <3>. QED  BY <2>1, <3>1
  <2>4. CASE ~ReplaceQueue(p) /\ ~Invalidate(p)
    <3>1. version' = version
      BY <1>3, <2>4, CacheUntouched DEF cacheVars
    <3>. QED  BY <2>1, <3>1
  <2>. QED  BY <2>2, <2>3, <2>4
<1>7. ASSUME proc[o].pc \in {"replace", "dropWarmup", "select"}, o \notin overtaken'
      PROVE  ItemsMatch(proc[o].items, Current)'
  <2>1. ItemsMatch(proc[o].items, Current)
    BY <1>5, <1>7, OvertakenStays DEF Fine
  <2>. QED  BY <1>2, <1>4, <2>1 DEF ItemsMatch
<1>. QED  BY <1>2, <1>3, <1>4, <1>5, <1>6, <1>7 DEF Fine

\* A request that reads nothing is fine as long as it holds the lock.
LEMMA FineAway ==
  ASSUME NEW p \in Procs, proc'[p].pc \notin Reading, proc'[p].locked => holder' = p
  PROVE  Fine(p)'
BY DEF Fine, Reading

\* So is one that has to warm up the version of the moment.
LEMMA FineWarm ==
  ASSUME NEW p \in Procs, proc'[p].pc \in {"getVersion", "warmup"},
         proc'[p].locked => holder' = p /\ (proc[p].seen = databaseVersion)'
  PROVE  Fine(p)'
BY DEF Fine, Reading

\* The steps of a selection.
LEMMA SelectionStep ==
  ASSUME TypeOK, DroppedInv, CacheShowsItsVersion, AnswerInv, NEW p \in Procs,
         Fine(p), proc[p].locked, UNCHANGED <<history, clock, holder>>,
         Load(p) \/ GetVersion(p) \/ GetList(p) \/ GetData(p) \/ GetFails(p) \/ LoadForWarmup(p)
  PROVE  Fine(p)'
<1>1. RestOK /\ proc \in [Procs -> Process]
  BY TypeParts
<1>2. databaseVersion' = databaseVersion /\ Current' = Current
  BY <1>1, Stays
<1>3. holder' = p
  BY DEF Fine
<1>4. CASE Load(p)
  <2>1. proc'[p].pc = "getVersion" /\ proc'[p].seen = databaseVersion
    BY <1>1, <1>4, LoadGoes
  <2>. QED  BY <1>2, <1>3, <2>1, FineWarm
<1>5. ASSUME proc'[p].pc = "warmup", proc'[p].seen = databaseVersion
      PROVE  Fine(p)'
  BY <1>2, <1>3, <1>5, FineWarm
<1>6. CASE GetVersion(p)
  <2>1. proc[p].seen = databaseVersion
    BY <1>6 DEF GetVersion, Fine, At, Reading
  <2>2. CASE version = proc[p].seen
    <3>1. Goto(p, "getList") /\ UNCHANGED cacheVars
      BY <1>6, <2>2 DEF GetVersion
    <3>2. proc'[p].pc = "getList" /\ proc'[p].seen = proc[p].seen
      BY <1>1, <3>1, WentTo DEF Pcs
    <3>. QED  BY <1>2, <1>3, <2>1, <2>2, <3>1, <3>2 DEF Fine, Reading, cacheVars
  <2>3. CASE version # proc[p].seen
    <3>1. Goto(p, "warmup")
      BY <1>6, <2>3 DEF GetVersion
    <3>2. proc'[p].pc = "warmup" /\ proc'[p].seen = proc[p].seen
      BY <1>1, <3>1, WentTo DEF Pcs
    <3>. QED  BY <1>5, <2>1, <3>2
  <2>. QED  BY <2>2, <2>3
<1>7. CASE GetList(p)
  <2>1. proc[p].seen = databaseVersion /\ proc[p].items = <<>>
    BY <1>7 DEF GetList, Fine, At, Reading, AnswerInv
  <2>2. /\ proc'[p].seen = proc[p].seen
        /\ \/ proc'[p].pc = "select" /\ proc'[p].items = proc[p].items
           \/ proc'[p].pc = "warmup"
           \/ proc'[p].pc = "getData"
    BY <1>1, <1>7, GetListGoes
  <2>3. /\ version' = version /\ overtaken' = overtaken
        /\ p \notin overtaken => version \in {proc[p].seen, Absent}
    BY <1>7 DEF GetList, cacheVars, Fine, At
  <2>4. CASE proc'[p].pc = "select" /\ proc'[p].items = proc[p].items
    <3>1. ItemsMatch(proc[p].items, Current)'
      BY <2>1, <2>4 DEF ItemsMatch
    <3>. QED  BY <1>2, <1>3, <2>1, <2>2, <2>4, <3>1 DEF Fine, Reading
  <2>5. CASE proc'[p].pc = "warmup"
    BY <1>5, <2>1, <2>2, <2>5
  <2>6. CASE proc'[p].pc = "getData"
    BY <1>2, <1>3, <2>1, <2>2, <2>3, <2>6 DEF Fine, Reading
  <2>. QED  BY <2>2, <2>4, <2>5, <2>6
<1>8. CASE GetData(p)
  <2>. DEFINE keys == proc[p].keys
  <2>1. /\ proc[p].seen = databaseVersion /\ overtaken' = overtaken
        /\ p \notin overtaken => version \in {databaseVersion, Absent}
    BY <1>8 DEF GetData, Fine, At, Reading
  <2>2. /\ proc'[p].seen = proc[p].seen
        /\ \/ proc'[p].pc = "warmup"
           \/ /\ proc'[p].pc = "select" /\ proc'[p].items = Fetched(keys)
              /\ \A i \in DOMAIN keys : data[keys[i]] # Absent
    BY <1>1, <1>8, GetDataGoes
  <2>3. CASE proc'[p].pc = "warmup"
    BY <1>5, <2>1, <2>2, <2>3
  <2>4. CASE /\ proc'[p].pc = "select" /\ proc'[p].items = Fetched(keys)
             /\ \A i \in DOMAIN keys : data[keys[i]] # Absent
    <3>1. keys \in Seq(Keys) /\ databaseVersion \in Versions
      BY <1>1, HistoryIs DEF Process
    <3>. HIDE DEF keys
    <3>2. p \notin overtaken => ItemsMatch(Fetched(keys), Current)
      BY <2>1, <2>4, <3>1, FetchedMatch DEF Current
    <3>3. p \notin overtaken => ItemsMatch(proc[p].items, Current)'
      BY <1>2, <2>4, <3>2 DEF ItemsMatch
    <3>. QED  BY <1>2, <1>3, <2>1, <2>2, <2>4, <3>3 DEF Fine, Reading
  <2>. QED  BY <2>2, <2>3, <2>4
<1>9. CASE GetFails(p)
  <2>1. proc[p].seen = databaseVersion
    BY <1>9 DEF GetFails, Fine, Reading
  <2>2. proc'[p].pc = "warmup" /\ proc'[p].seen = proc[p].seen
    BY <1>1, <1>9, Missed DEF GetFails
  <2>. QED  BY <1>5, <2>1, <2>2
<1>10. CASE LoadForWarmup(p)
  <2>1. /\ proc'[p].pc = "replace" /\ proc'[p].seen = databaseVersion
        /\ proc'[p].items = WarmItems(Current)
    BY <1>1, <1>10, LoadForWarmupGoes
  <2>2. ItemsMatch(WarmItems(Current), Current)
    BY <1>1, HistoryIs, WarmItemsAre DEF Current
  <2>3. ItemsMatch(proc[p].items, Current)'
    BY <1>2, <2>1, <2>2 DEF ItemsMatch
  <2>. QED  BY <1>2, <1>3, <2>1, <2>3 DEF Fine, Reading
<1>. QED  BY <1>4, <1>6, <1>7, <1>8, <1>9, <1>10

\* The steps from the warm-up on: what the request carries stays.
LEMMA KeepingStep ==
  ASSUME TypeOK, NEW p \in Procs, Fine(p), proc[p].locked, UNCHANGED <<history, clock, holder>>,
         proc[p].pc \in {"replace", "dropWarmup"}, overtaken \subseteq overtaken',
         Goto(p, "select") \/ Goto(p, "dropWarmup")
  PROVE  Fine(p)'
<1>1. RestOK /\ proc \in [Procs -> Process]
  BY TypeParts
<1>2. databaseVersion' = databaseVersion /\ Current' = Current
  BY <1>1, Stays
<1>3. /\ proc'[p].pc \in {"select", "dropWarmup"}
      /\ proc'[p].seen = proc[p].seen /\ proc'[p].items = proc[p].items
  BY <1>1, WentTo DEF Pcs
<1>4. /\ holder = p /\ proc[p].seen = databaseVersion
      /\ p \notin overtaken => ItemsMatch(proc[p].items, Current)
  BY DEF Fine, Reading
<1>5. p \notin overtaken' => ItemsMatch(proc[p].items, Current)'
  BY <1>2, <1>3, <1>4 DEF ItemsMatch
<1>. QED  BY <1>2, <1>3, <1>4, <1>5 DEF Fine, Reading

LEMMA AloneStep ==
  ASSUME TypeOK, ProcInv, DroppedInv, CacheShowsItsVersion, AnswerInv, LockInv, AloneInv,
         NEW p \in Procs, Step(p)
  PROVE  AloneInv'
<1>1. RestOK /\ proc \in [Procs -> Process]
  BY TypeParts
<1>2. expired' = expired
  BY <1>1, LockTyped
<1>. SUFFICES ASSUME ~expired
     PROVE  \A o \in Procs : Fine(o)'
  BY <1>2, FineWill
<1>3. \A o \in Procs : o # p => Fine(o)'
  BY OtherFine
<1>4. Fine(p)
  BY FineIs
<1>5. CASE Acquire(p)
  <2>1. proc'[p].pc \in {"load", "commit"}
    BY <1>1, <1>5, AcquireGoes
  <2>2. holder' = p
    BY <1>5 DEF Acquire
  <2>. QED  BY <1>3, <2>1, <2>2, FineAway DEF Reading
<1>6. CASE Release(p) \/ Crash(p)
  <2>1. proc' = [proc EXCEPT ![p] = Idle]
    BY <1>6 DEF Release, Crash
  <2>2. proc'[p].pc = "idle" /\ ~proc'[p].locked
    BY <1>1, <2>1, IdleIs
  <2>. QED  BY <1>3, <2>2, FineAway DEF Reading
<1>8. ASSUME Leave(p) \/ Drop(p), Drop(p) /\ ~Leave(p) => At(p, "refresh"),
             proc[p].locked => holder' = p
      PROVE  \A o \in Procs : Fine(o)'
  <2>1. /\ proc'[p].pc \in {"idle", "drop", "release"}
        /\ proc'[p].locked => Drop(p) \/ proc[p].locked
    BY <1>1, <1>8, Left
  <2>2. Leave(p) /\ proc'[p].locked => proc[p].locked
    BY <1>1, IdleIs DEF Leave
  <2>3. proc'[p].locked => proc[p].locked
    BY <1>8, <2>1, <2>2 DEF At, LockInv
  <2>. QED  BY <1>3, <1>8, <2>1, <2>3, FineAway DEF Reading
<1>9. CASE Commit(p)
  <2>1. proc'[p].pc = "refresh" /\ proc[p].locked
    BY <1>1, <1>9, CommitGoes DEF Commit, At, LockInv
  <2>2. holder' = p
    BY <1>4, <1>9, <2>1 DEF Commit, Fine
  <2>. QED  BY <1>3, <2>1, <2>2, FineAway DEF Reading
<1>10. CASE Plan(p)
  <2>1. proc'[p].pc = "load" /\ proc'[p].locked = proc[p].locked
    BY <1>1, <1>10, WentTo DEF Plan, Pcs
  <2>2. proc[p].locked => holder' = p
    BY <1>4, <1>10 DEF Plan, Fine
  <2>. QED  BY <1>3, <2>1, <2>2, FineAway DEF Reading
<1>11. CASE Load(p) \/ GetVersion(p) \/ GetList(p) \/ GetData(p) \/ GetFails(p) \/ LoadForWarmup(p)
  <2>1. UNCHANGED <<history, clock, holder>>
    BY <1>11 DEF Load, GetVersion, GetList, GetData, GetFails, LoadForWarmup
  <2>2. CASE proc[p].locked
    BY <1>3, <1>4, <1>11, <2>1, <2>2, SelectionStep
  <2>3. CASE ~proc[p].locked
    <3>1. ~proc'[p].locked
      <4>1. GetVersion(p) => \E pc \in Pcs : Goto(p, pc)
        BY DEF GetVersion, Pcs
      <4>2. proc'[p].locked = proc[p].locked
        BY <1>1, <1>11, <4>1, LoadGoes, WentTo, GetListGoes, GetDataGoes, Missed,
           LoadForWarmupGoes DEF GetFails
      <4>. QED  BY <2>3, <4>2
    <3>. QED  BY <1>3, <3>1 DEF Fine
  <2>. QED  BY <2>2, <2>3
<1>12. CASE ReplaceQueue(p) \/ ReplaceFails(p) \/ (Invalidate(p) /\ Goto(p, "select") /\ ~Leave(p))
  <2>1. /\ UNCHANGED <<history, clock, holder>> /\ overtaken \subseteq overtaken'
        /\ proc[p].pc \in {"replace", "dropWarmup"}
        /\ Goto(p, "select") \/ Goto(p, "dropWarmup")
    BY <1>12 DEF ReplaceQueue, ReplaceFails, Invalidate, At
  <2>2. proc'[p].locked = proc[p].locked
    BY <1>1, <2>1, WentTo DEF Pcs
  <2>3. Fine(p)'
    BY <1>4, <2>1, <2>2, KeepingStep DEF Fine
  <2>. QED  BY <1>3, <2>3
<1>13. CASE WarmupRefused(p) \/ Select(p) \/ CommitNothing(p) \/ (Invalidate(p) /\ Leave(p))
  <2>1. Leave(p)
    BY <1>13 DEF WarmupRefused, Select, CommitNothing
  <2>2. proc[p].locked => holder' = p
    BY <1>4, <1>13 DEF WarmupRefused, Select, CommitNothing, Invalidate, Fine
  <2>. QED  BY <1>8, <2>1, <2>2
<1>14. CASE RefreshQueue(p) \/ RefreshRefused(p)
  <2>1. At(p, "refresh") /\ (Leave(p) \/ Drop(p))
    BY <1>14 DEF RefreshQueue, RefreshRefused
  <2>2. proc[p].locked => holder' = p
    BY <1>4, <1>14 DEF RefreshQueue, RefreshRefused, Fine
  <2>. QED  BY <1>8, <2>1, <2>2
<1>15. Invalidate(p) => Leave(p) \/ Goto(p, "select")
  BY DEF Invalidate
<1>. QED  BY <1>5, <1>6, <1>9, <1>10, <1>11, <1>12, <1>13, <1>14, <1>15 DEF Step

-----------------------------------------------------------------------------
(* The invariant.                                                          *)

LEMMA Beginning ==
  ASSUME Init
  PROVE  IInv
<1>1. <<>> \in Seq(Keys)
  BY EmptySeq
<1>. DEFINE facts == [k \in Keys |-> NoFact]
<1>2. facts \in [Keys -> Fact]
  BY DEF NoFact, Fact
<1>3. history = <<facts>> /\ Len(history) = 1
  BY DEF Init
<1>. HIDE DEF facts
<1>4. history \in Seq([Keys -> Fact]) /\ history # <<>> /\ history[1] = facts
  BY <1>2, <1>3
<1>5. Len(<<>>) <= Capacity
  BY <1>1, EmptySeq, SizeAssumption
<1>6. RestOK
  BY <1>1, <1>4, <1>5 DEF Init, RestOK
<1>7. proc \in [Procs -> Process]
  BY IdleIs DEF Init
<1>8. TypeOK
  BY <1>6, <1>7, TypeParts
<1>9. databaseVersion = 0 /\ Versions = {0} /\ FactsAt(0) = facts /\ clock = 0
  BY <1>3, <1>4 DEF databaseVersion, Versions, FactsAt, Init
<1>10. HistoryInv
  BY <1>9 DEF HistoryInv, facts, NoFact
<1>11. \A p \in Procs : proc[p] = Idle
  BY DEF Init
<1>12. ProcInv /\ AloneInv /\ AnswerInv /\ LockInv
  BY <1>11 DEF ProcInv, AloneInv, AnswerInv, LockInv, At, Idle
<1>13. DroppedInv /\ CacheShowsItsVersion /\ CacheHoldsTheNewest
  BY DEF DroppedInv, CacheShowsItsVersion, CacheHoldsTheNewest, Init
<1>. QED  BY <1>8, <1>10, <1>12, <1>13 DEF IInv

LEMMA Steps ==
  ASSUME IInv, NEW p \in Procs, Step(p)
  PROVE  IInv'
<1>1. RestOK' /\ CacheShowsItsVersion' /\ CacheHoldsTheNewest' /\ DroppedInv'
  BY CacheStep DEF IInv
<1>2. proc' \in [Procs -> Process]
  BY OneMoves DEF IInv
<1>3. TypeOK'
  BY <1>1, <1>2, TypeWill
<1>4. HistoryInv' /\ ProcInv'
  BY HistoryStep, ProcStep DEF IInv
<1>5. AnswerInv' /\ LockInv' /\ AloneInv'
  BY AnswerStep, LockStep, AloneStep DEF IInv
<1>. QED  BY <1>1, <1>3, <1>4, <1>5 DEF IInv

\* When nothing moves but the lock, what is known stays; an expired lock is no promise.
LEMMA Rests ==
  ASSUME IInv, Expire \/ UNCHANGED vars
  PROVE  IInv'
<1>1. /\ UNCHANGED <<history, clock, version, queue, data, overtaken, proc>>
      /\ holder' \in Procs \cup {NoProc} /\ expired' \in BOOLEAN
      /\ expired' \/ (~expired /\ UNCHANGED <<holder, expired>>)
  BY TypeParts DEF Expire, vars, cacheVars, IInv, RestOK
<1>2. RestOK /\ proc \in [Procs -> Process]
  BY TypeParts DEF IInv
<1>3. RestOK'
  BY <1>1, <1>2 DEF RestOK
<1>4. TypeOK'
  BY <1>1, <1>2, <1>3, TypeWill
<1>5. databaseVersion' = databaseVersion /\ Versions' = Versions /\ Current' = Current
      /\ \A v : FactsAt(v)' = FactsAt(v)
  BY <1>1, <1>2, Stays
<1>6. HistoryInv' /\ DroppedInv'
  BY <1>1, <1>5 DEF HistoryInv, DroppedInv, IInv
<1>7. CacheShowsItsVersion' /\ CacheHoldsTheNewest'
  <2>1. Fits /\ Grows
    BY <1>1, <1>2, FitsIs, Stays DEF IInv
  <2>. QED  BY <1>1, <1>3, <2>1, FitsStays, FitsWill DEF IInv, cacheVars
<1>8. ProcInv'
  BY <1>1, <1>5 DEF ProcInv, Follows, WarmItems, FactsAt, Versions, databaseVersion, At, IInv
<1>9. AloneInv'
  BY <1>1, <1>5 DEF AloneInv, ItemsMatch, IInv
<1>10. AnswerInv' /\ LockInv'
  BY <1>1, <1>5 DEF AnswerInv, LockInv, ItemsMatch, IInv
<1>. QED  BY <1>4, <1>6, <1>7, <1>8, <1>9, <1>10 DEF IInv

\* The inductive invariant holds in every state.
THEOREM Invariance == Spec => []IInv
<1>1. Init => IInv
  BY Beginning
<1>2. IInv /\ [Next]_vars => IInv'
  BY Steps, Rests DEF Next
<1>. QED  BY <1>1, <1>2, PTL DEF Spec

\* Every state is well-formed; in particular no script leaves more keys in the queue
\* than REPLACE_QUEUE_LUA and REFRESH_QUEUE_LUA are given as capacity.
THEOREM TypeCorrect == Spec => []TypeOK
<1>1. IInv => TypeOK
  BY DEF IInv
<1>. QED  BY <1>1, Invariance, PTL

\* The queue that get_queue reads under a version shows the facts of that version,
\* whatever refreshes, warm-ups, invalidations, crashes and expired locks came
\* between: the compare-and-set of REFRESH_QUEUE_LUA admits no other.
THEOREM ShowsItsVersion == Spec => []CacheShowsItsVersion
<1>1. IInv => CacheShowsItsVersion
  BY DEF IInv
<1>. QED  BY <1>1, Invariance, PTL

\* An incremental refresh keeps what a warm-up of _load_resources_for_warmup would
\* have chosen: the resources used last, in their order, and, as long as nothing has
\* been removed, as many as there is room for.
THEOREM HoldsTheNewest == Spec => []CacheHoldsTheNewest
<1>1. IInv => CacheHoldsTheNewest
  BY DEF IInv
<1>. QED  BY <1>1, Invariance, PTL

\* Whatever refreshes, drops and warm-ups come between the GET, the LRANGE and the
\* HMGET of get_queue, the resources shown to an agent are facts of one version.
THEOREM OneVersionShown == Spec => []ShowsOneVersion
<1>1. IInv => ShowsOneVersion
  BY DEF IInv, AnswerInv, ShowsOneVersion, At, Versions
<1>. QED  BY <1>1, Invariance, PTL

\* The resources that send_message shows the agent under the lock are those of the
\* last completed Turn, unless a lock has run out before its holder was done or a
\* planner, without the lock, has put an older queue between its GET and its HMGET.
THEOREM SelectionCurrent == Spec => []SelectionIsCurrent
<1>1. IInv => SelectionIsCurrent
  BY DEF IInv, AloneInv, SelectionIsCurrent, At
<1>. QED  BY <1>1, Invariance, PTL
=============================================================================
