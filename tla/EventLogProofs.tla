---------------------------- MODULE EventLogProofs ----------------------------
(***************************************************************************)
(* What EventLog guarantees for any number of calls, sources and events,   *)
(* any clock and any faults.                                               *)
(***************************************************************************)
EXTENDS EventLogInv, SequenceTheorems, FiniteSetTheorems, TLAPS

-----------------------------------------------------------------------------
(* Sorted sets.                                                            *)

\* Places tell the members of a finite set apart, and all are taken.
LEMMA Places ==
  ASSUME NEW S, IsFiniteSet(S), NEW R, StrictOrder(S, R)
  PROVE  /\ \A x \in S : Place(S, R, x) + 1 \in 1 .. Cardinality(S)
         /\ \A x, y \in S : <<x, y>> \in R <=> Place(S, R, x) < Place(S, R, y)
         /\ \A n \in 1 .. Cardinality(S) : \E x \in S : Place(S, R, x) = n - 1
<1>. DEFINE N == Cardinality(S)
            P(x) == Preceding(S, R, x)
            f == [x \in S |-> Place(S, R, x) + 1]
<1>1. N \in Nat
  BY FS_CardinalityType
<1>2. ASSUME NEW x \in S
      PROVE  IsFiniteSet(P(x)) /\ Cardinality(P(x)) \in Nat /\ Cardinality(P(x)) < N
  <2>1. P(x) \in SUBSET S /\ x \notin P(x)
    BY DEF Preceding, StrictOrder
  <2>2. IsFiniteSet(P(x)) /\ Cardinality(P(x)) <= N /\ (N = Cardinality(P(x)) => S = P(x))
    BY <2>1, FS_Subset
  <2>3. Cardinality(P(x)) \in Nat
    BY <2>2, FS_CardinalityType
  <2>. QED  BY <1>1, <1>2, <2>1, <2>2, <2>3
<1>3. ASSUME NEW x \in S, NEW y \in S, <<x, y>> \in R
      PROVE  Cardinality(P(x)) < Cardinality(P(y))
  <2>1. P(x) \in SUBSET P(y) /\ x \in P(y) /\ x \notin P(x)
    BY <1>3 DEF Preceding, StrictOrder
  <2>2. Cardinality(P(x)) <= Cardinality(P(y))
        /\ (Cardinality(P(y)) = Cardinality(P(x)) => P(y) = P(x))
    BY <1>2, <2>1, FS_Subset
  <2>. QED  BY <1>2, <2>1, <2>2
<1>. DEFINE pl(x) == Place(S, R, x)
<1>4. \A x \in S : pl(x) \in Nat /\ pl(x) < N
  BY <1>2 DEF Place
<1>5. \A x, y \in S : <<x, y>> \in R => pl(x) < pl(y)
  BY <1>3 DEF Place
<1>6. \A x, y \in S : x = y \/ <<x, y>> \in R \/ <<y, x>> \in R
  BY DEF StrictOrder
<1>7. \A x \in S : <<x, x>> \notin R
  BY DEF StrictOrder
<1>8. \A x, y \in S : <<x, y>> \in R => <<y, x>> \notin R
  BY DEF StrictOrder
<1>. HIDE DEF P, pl
<1>9. ASSUME NEW x \in S, NEW y \in S
      PROVE  <<x, y>> \in R <=> pl(x) < pl(y)
  <2>1. pl(x) \in Nat /\ pl(y) \in Nat
    BY <1>4
  <2>2. CASE <<x, y>> \in R
    BY <1>5, <2>2
  <2>3. CASE <<y, x>> \in R
    BY <1>5, <1>8, <2>1, <2>3
  <2>4. CASE x = y
    BY <1>7, <2>1, <2>4
  <2>. QED  BY <1>6, <2>2, <2>3, <2>4
<1>10. f \in [S -> 1 .. N] /\ \A x \in S : f[x] = pl(x) + 1
  BY <1>1, <1>4 DEF pl
<1>11. ASSUME NEW x \in S, NEW y \in S, f[x] = f[y]
      PROVE  x = y
  <2>1. pl(x) \in Nat /\ pl(y) \in Nat /\ pl(x) = pl(y)
    BY <1>4, <1>10, <1>11
  <2>2. <<x, y>> \notin R /\ <<y, x>> \notin R
    BY <1>5, <2>1
  <2>. QED  BY <1>6, <2>2
<1>12. f \in Injection(S, 1 .. N)
  BY <1>10, <1>11 DEF Injection, IsInjective
<1>13. IsFiniteSet(1 .. N) /\ Cardinality(1 .. N) = N
  BY <1>1, FS_Interval
<1>14. f \in Surjection(S, 1 .. N)
  BY <1>12, <1>13, FS_Injection
<1>15. \A n \in 1 .. N : \E x \in S : f[x] = n
  BY <1>14 DEF Surjection
<1>16. ASSUME NEW n \in 1 .. N
       PROVE  \E x \in S : pl(x) = n - 1
  <2>1. PICK x \in S : pl(x) + 1 = n
    BY <1>10, <1>15
  <2>. QED  BY <1>4, <2>1
<1>17. \A x \in S : pl(x) + 1 \in 1 .. N
  BY <1>1, <1>4
<1>. QED  BY <1>9, <1>16, <1>17 DEF pl

\* The sequence holds all members, each once and in order.
LEMMA SortedIs ==
  ASSUME NEW S, IsFiniteSet(S), NEW R, StrictOrder(S, R)
  PROVE  /\ Cardinality(S) \in Nat
         /\ SortedBy(S, R) \in [1 .. Cardinality(S) -> S]
         /\ \A i, j \in 1 .. Cardinality(S) :
              i < j => <<SortedBy(S, R)[i], SortedBy(S, R)[j]>> \in R
         /\ \A x \in S : \E i \in 1 .. Cardinality(S) : SortedBy(S, R)[i] = x
<1>. DEFINE N == Cardinality(S)
            q == SortedBy(S, R)
<1>1. N \in Nat
  BY FS_CardinalityType
<1>2. DOMAIN q = 1 .. N /\ \A n \in 1 .. N : q[n] = CHOOSE x \in S : Place(S, R, x) = n - 1
  BY DEF SortedBy
<1>3. \A n \in 1 .. N : q[n] \in S /\ Place(S, R, q[n]) = n - 1
  BY <1>2, Places
<1>4. q = [n \in 1 .. N |-> q[n]]
  BY DEF SortedBy
<1>. HIDE DEF q
<1>5. q \in [1 .. N -> S]
  BY <1>3, <1>4
<1>6. \A i, j \in 1 .. N : i < j => <<q[i], q[j]>> \in R
  BY <1>1, <1>3, Places
<1>7. ASSUME NEW x \in S
      PROVE  \E i \in 1 .. N : q[i] = x
  <2>1. PICK i \in 1 .. N : i = Place(S, R, x) + 1
    BY Places
  <2>2. q[i] \in S /\ Place(S, R, q[i]) = Place(S, R, x)
    <3>1. Place(S, R, q[i]) = i - 1 /\ q[i] \in S
      BY <1>3
    <3>2. Place(S, R, x) \in Nat
      BY <1>7, FS_Subset, FS_CardinalityType DEF Place, Preceding
    <3>. QED  BY <1>1, <2>1, <3>1, <3>2
  <2>3. Place(S, R, x) \in Nat
    BY <1>7, FS_Subset, FS_CardinalityType DEF Place, Preceding
  <2>4. <<q[i], x>> \notin R /\ <<x, q[i]>> \notin R
    BY <2>2, <2>3, Places
  <2>5. q[i] = x
    BY <2>2, <2>4 DEF StrictOrder
  <2>. QED  BY <2>1, <2>5
<1>. QED  BY <1>1, <1>5, <1>6, <1>7 DEF q

-----------------------------------------------------------------------------
(* The order of events.                                                    *)

\* Each source has its own rank.
LEMMA RankIs ==
  /\ \A s \in Sources : Rank(s) \in Nat
  /\ \A s, t \in Sources : Rank(s) = Rank(t) => s = t
  /\ IsFiniteSet(Sources)
<1>. DEFINE n == Len(Documents)
<1>1. /\ n \in Nat /\ DOMAIN Documents = 1 .. n
      /\ Documents \in [1 .. n -> ToSet(Documents)] /\ AgentTool \notin ToSet(Documents)
  BY LogAssumption, LenProperties
<1>2. ASSUME NEW s \in ToSet(Documents)
      PROVE  Rank(s) \in 1 .. n /\ Documents[Rank(s)] = s
  <2>1. \E i \in DOMAIN Documents : Documents[i] = s
    BY DEF ToSet
  <2>2. s /= AgentTool
    BY <1>1
  <2>. QED  BY <1>1, <2>1, <2>2 DEF Rank
<1>3. Rank(AgentTool) = 0
  BY DEF Rank
<1>4. \A s \in Sources : Rank(s) \in Nat
  BY <1>1, <1>2, <1>3 DEF Sources
<1>5. \A s, t \in Sources : Rank(s) = Rank(t) => s = t
  <2>. SUFFICES ASSUME NEW s \in Sources, NEW t \in Sources, Rank(s) = Rank(t)
       PROVE  s = t
    OBVIOUS
  <2>1. CASE s \in ToSet(Documents) /\ t \in ToSet(Documents)
    <3>1. Documents[Rank(s)] = s /\ Documents[Rank(t)] = t
      BY <1>2, <2>1
    <3>. QED  BY <3>1
  <2>2. CASE s = AgentTool /\ t = AgentTool
    BY <2>2
  <2>3. CASE (s = AgentTool) # (t = AgentTool)
    <3>1. Rank(s) # Rank(t)
      BY <1>1, <1>2, <1>3, <2>3 DEF Sources
    <3>. QED  BY <3>1
  <2>. QED  BY <2>1, <2>2, <2>3 DEF Sources
<1>6. IsFiniteSet(Sources)
  <2>1. Documents \in Surjection(1 .. n, ToSet(Documents))
    BY <1>1 DEF Surjection, ToSet
  <2>2. IsFiniteSet(1 .. n)
    BY <1>1, FS_Interval
  <2>3. IsFiniteSet(ToSet(Documents))
    BY <2>1, <2>2, FS_Surjection
  <2>. QED  BY <2>3, FS_AddElement DEF Sources
<1>. QED  BY <1>4, <1>5, <1>6

\* The four parts of the key.
Time(f) == f.event.created_at
Id(f) == EventId[f.event.call, f.event.kind /= "started"]

LEMMA KeyParts ==
  ASSUME NEW f \in Found
  PROVE  Time(f) \in Nat /\ Id(f) \in Nat /\ Rank(f.source) \in Nat /\ f.line \in Nat
<1>1. f.event \in Event /\ f.source \in Sources /\ f.line \in Nat
  BY DEF Found
<1>2. f.event.created_at \in Nat /\ f.event.call \in Calls
  BY <1>1, LogAssumption DEF Event, Times
<1>3. PICK b \in BOOLEAN : b = (f.event.kind /= "started")
  OBVIOUS
<1>4. <<f.event.call, b>> \in Calls \X BOOLEAN
  BY <1>2
<1>5. EventId[<<f.event.call, b>>] \in Nat
  BY <1>4, LogAssumption
<1>6. Id(f) \in Nat
  BY <1>3, <1>5, Zenon DEF Id
<1>7. Time(f) \in Nat
  BY <1>2 DEF Time
<1>. QED  BY <1>1, <1>6, <1>7, RankIs

LEMMA BeforeIs ==
  ASSUME NEW f, NEW g
  PROVE  Before(f, g) <=>
           \/ Time(f) < Time(g)
           \/ Time(f) = Time(g) /\ Id(f) < Id(g)
           \/ Time(f) = Time(g) /\ Id(f) = Id(g) /\ Rank(f.source) < Rank(g.source)
           \/ /\ Time(f) = Time(g) /\ Id(f) = Id(g) /\ Rank(f.source) = Rank(g.source)
              /\ f.line < g.line
<1>. DEFINE P(n) == Key(f)[n] < Key(g)[n] /\ \A k \in 1 .. n - 1 : Key(f)[k] = Key(g)[k]
<1>1. Before(f, g) <=> P(1) \/ P(2) \/ P(3) \/ P(4)
  <2>. HIDE DEF P
  <2>1. Before(f, g) <=> \E n \in 1 .. 4 : P(n)
    BY DEF Before, P
  <2>2. 1 .. 4 = {1, 2, 3, 4}
    OBVIOUS
  <2>. QED  BY <2>1, <2>2
<1>2. /\ Key(f)[1] = Time(f) /\ Key(f)[2] = Id(f) /\ Key(f)[3] = Rank(f.source) /\ Key(f)[4] = f.line
      /\ Key(g)[1] = Time(g) /\ Key(g)[2] = Id(g) /\ Key(g)[3] = Rank(g.source) /\ Key(g)[4] = g.line
  BY DEF Key, Time, Id
<1>3. 1 .. 0 = {} /\ 1 .. 1 = {1} /\ 1 .. 2 = {1, 2} /\ 1 .. 3 = {1, 2, 3}
  OBVIOUS
<1>4. 1 - 1 = 0 /\ 2 - 1 = 1 /\ 3 - 1 = 2 /\ 4 - 1 = 3
  OBVIOUS
<1>. QED  BY <1>1, <1>2, <1>3, <1>4

LEMMA BeforeOrders ==
  /\ \A f, g, h \in Found : Before(f, g) /\ Before(g, h) => Before(f, h)
  /\ \A f \in Found : ~Before(f, f)
  /\ \A f, g \in Found : f.event = g.event \/ f.source /= g.source \/ f.line /= g.line
                           => f = g \/ Before(f, g) \/ Before(g, f)
<1>1. ASSUME NEW f \in Found, NEW g \in Found, NEW h \in Found, Before(f, g), Before(g, h)
      PROVE  Before(f, h)
  <2>1. /\ Time(f) \in Nat /\ Id(f) \in Nat /\ Rank(f.source) \in Nat /\ f.line \in Nat
        /\ Time(g) \in Nat /\ Id(g) \in Nat /\ Rank(g.source) \in Nat /\ g.line \in Nat
        /\ Time(h) \in Nat /\ Id(h) \in Nat /\ Rank(h.source) \in Nat /\ h.line \in Nat
    BY KeyParts
  <2>. QED  BY <1>1, <2>1, BeforeIs
<1>2. ASSUME NEW f \in Found
      PROVE  ~Before(f, f)
  <2>1. Time(f) \in Nat /\ Id(f) \in Nat /\ Rank(f.source) \in Nat /\ f.line \in Nat
    BY KeyParts
  <2>. QED  BY <2>1, BeforeIs
<1>3. ASSUME NEW f \in Found, NEW g \in Found,
             f.event = g.event \/ f.source /= g.source \/ f.line /= g.line
      PROVE  f = g \/ Before(f, g) \/ Before(g, f)
  <2>1. /\ Time(f) \in Nat /\ Id(f) \in Nat /\ Rank(f.source) \in Nat /\ f.line \in Nat
        /\ Time(g) \in Nat /\ Id(g) \in Nat /\ Rank(g.source) \in Nat /\ g.line \in Nat
    BY KeyParts
  <2>2. f.source \in Sources /\ g.source \in Sources
    BY DEF Found
  <2>3. CASE f.source = g.source /\ f.line = g.line
    <3>1. f.event = g.event
      BY <1>3, <2>3
    <3>. QED  BY <2>3, <3>1 DEF Found
  <2>4. CASE f.source /= g.source
    <3>1. Rank(f.source) /= Rank(g.source)
      BY <2>2, <2>4, RankIs
    <3>. QED  BY <2>1, <3>1, BeforeIs
  <2>5. CASE f.line /= g.line
    BY <2>1, <2>5, BeforeIs
  <2>. QED  BY <2>3, <2>4, <2>5
<1>. QED  BY <1>1, <1>2, <1>3

-----------------------------------------------------------------------------
(* The files.                                                              *)

\* All variables but query.
WorldOK ==
  /\ now \in Times /\ faults \in 0 .. MaxFaults
  /\ files \in [Sources -> Seq(Line)]
  /\ call \in [Calls -> Call]
QueryOK ==
  query /= NoQuery => query \in Query /\ (query.paged \/ Len(query.returned) <= TimelineLimit)

LEMMA TypeParts == TypeOK <=> WorldOK /\ QueryOK
BY DEF TypeOK, WorldOK, QueryOK

LEMMA TypeWill == WorldOK' /\ QueryOK' => TypeOK'
BY TypeParts, PTL

\* What can be read is an event.
LEMMA LinesAre ==
  ASSUME NEW file \in Seq(Line)
  PROVE  /\ Len(file) \in Nat /\ DOMAIN file = 1 .. Len(file)
         /\ \A n \in DOMAIN file : file[n] \in Line
         /\ \A n \in Lines(file) : n \in DOMAIN file /\ file[n].text \in Event
<1>1. Len(file) \in Nat /\ DOMAIN file = 1 .. Len(file) /\ \A n \in DOMAIN file : file[n] \in Line
  BY LenProperties
<1>2. ASSUME NEW n \in Lines(file)
      PROVE  n \in DOMAIN file /\ file[n].text \in Event
  <2>1. n \in DOMAIN file /\ file[n].text.kind \notin Broken
    BY DEF Lines
  <2>2. file[n].text \notin [kind : Broken]
    BY <2>1
  <2>. QED  BY <1>1, <2>1, <2>2 DEF Line
<1>. QED  BY <1>1, <1>2

\* A call writes two lines at most.
LEMMA SpentIs ==
  ASSUME NEW S \in SUBSET (Calls \X BOOLEAN)
  PROVE  /\ IsFiniteSet(S) /\ Cardinality(S) \in Nat
         /\ Cardinality(S) <= 2 * Cardinality(Calls)
<1>1. IsFiniteSet(Calls) /\ Cardinality(Calls) \in Nat
  BY LogAssumption, FS_CardinalityType
<1>2. IsFiniteSet(BOOLEAN) /\ Cardinality(BOOLEAN) = 2
  <2>1. BOOLEAN = {TRUE, FALSE} /\ TRUE # FALSE
    BY Zenon
  <2>2. IsFiniteSet({TRUE, FALSE}) /\ Cardinality({TRUE, FALSE}) = 2
    <3>1. IsFiniteSet({FALSE}) /\ Cardinality({FALSE}) = 1
      BY FS_Singleton
    <3>2. TRUE \notin {FALSE} /\ {TRUE, FALSE} = {FALSE} \cup {TRUE}
      BY <2>1, Zenon
    <3>3. IsFiniteSet({FALSE} \cup {TRUE}) /\ Cardinality({FALSE} \cup {TRUE}) = 1 + 1
      BY <3>1, <3>2, FS_AddElement
    <3>4. 1 + 1 = 2
      OBVIOUS
    <3>. QED  BY <3>2, <3>3, <3>4, Zenon
  <2>. QED  BY <2>1, <2>2
<1>3. /\ IsFiniteSet(Calls \X BOOLEAN)
      /\ Cardinality(Calls \X BOOLEAN) = Cardinality(Calls) * Cardinality(BOOLEAN)
  BY <1>1, <1>2, FS_Product
<1>4. IsFiniteSet(S) /\ Cardinality(S) <= Cardinality(Calls \X BOOLEAN)
  BY <1>3, FS_Subset
<1>5. Cardinality(S) \in Nat
  BY <1>4, FS_CardinalityType
<1>6. Cardinality(Calls \X BOOLEAN) = 2 * Cardinality(Calls)
  BY <1>1, <1>2, <1>3
<1>. QED  BY <1>4, <1>5, <1>6

LEMMA ReadFileIs ==
  ASSUME WorldOK, FileInv, NEW q, NEW s \in Sources
  PROVE  /\ IsFiniteSet(ReadFile(q, s)) /\ ReadFile(q, s) \subseteq Found
         /\ \A f \in ReadFile(q, s) :
              /\ f.source = s /\ f.line \in Lines(files[s]) /\ f.event = files[s][f.line].text
              /\ Matches(q, f.event)
<1>. DEFINE read(n) == [event |-> files[s][n].text, source |-> s, line |-> n]
            all == {read(n) : n \in Lines(files[s])}
<1>1. files[s] \in Seq(Line)
  BY DEF WorldOK
<1>2. /\ Len(files[s]) \in Nat /\ DOMAIN files[s] = 1 .. Len(files[s])
      /\ \A n \in Lines(files[s]) : n \in DOMAIN files[s] /\ files[s][n].text \in Event
  BY <1>1, LinesAre
<1>3. Cardinality(Calls) \in Nat /\ Len(files[s]) <= 2 * Cardinality(Calls)
  <2>1. /\ Cardinality(Spent(s)) \in Nat /\ Cardinality(Spent(s)) <= 2 * Cardinality(Calls)
        /\ Cardinality(Calls) \in Nat
    <3>1. Spent(s) \in SUBSET (Calls \X BOOLEAN)
      BY DEF Spent
    <3>. QED  BY <3>1, SpentIs, LogAssumption, FS_CardinalityType
  <2>2. Len(files[s]) <= Cardinality(Spent(s))
    BY DEF FileInv
  <2>. QED  BY <1>2, <2>1, <2>2
<1>4. \A n \in Lines(files[s]) : n \in 1 .. 2 * Cardinality(Calls)
  BY <1>2, <1>3
<1>5. IsFiniteSet(Lines(files[s]))
  <2>1. Lines(files[s]) \in SUBSET (1 .. Len(files[s])) /\ IsFiniteSet(1 .. Len(files[s]))
    BY <1>2, FS_Interval DEF Lines
  <2>. QED  BY <2>1, FS_Subset
<1>6. IsFiniteSet(all)
  <2>. DEFINE g == [n \in Lines(files[s]) |-> read(n)]
  <2>1. g \in Surjection(Lines(files[s]), all)
    BY DEF Surjection
  <2>. QED  BY <1>5, <2>1, FS_Surjection
<1>7. ReadFile(q, s) = {f \in all : Matches(q, f.event)}
  BY DEF ReadFile
<1>8. \A f \in all : /\ f.source = s /\ f.line \in Lines(files[s]) /\ f.event = files[s][f.line].text
                     /\ f \in Found
  BY <1>2, <1>4 DEF Found
<1>. HIDE DEF all
<1>9. ReadFile(q, s) \in SUBSET all
  BY <1>7
<1>10. IsFiniteSet(ReadFile(q, s))
  BY <1>6, <1>9, FS_Subset
<1>. QED  BY <1>7, <1>8, <1>10

\* All that was found is in one order, since no line has had two events.
LEMMA FoundOrdered ==
  ASSUME QueryOK, SeenInv, query /= NoQuery
  PROVE  LET S == query.found IN
         /\ \A f, g \in S : f = g \/ Before(f, g) \/ Before(g, f)
         /\ \A f \in S : ~Before(f, f)
         /\ \A f, g, h \in S : Before(f, g) /\ Before(g, h) => Before(f, h)
<1>1. query.found \subseteq Found
  BY DEF QueryOK, Query
<1>2. \A f, g \in query.found : f.event = g.event \/ f.source /= g.source \/ f.line /= g.line
  BY DEF SeenInv, Seen
<1>. QED  BY <1>1, <1>2, BeforeOrders

-----------------------------------------------------------------------------
(* Writing.                                                                *)

\* A line that is ended stays; another may be spoilt, and is then for good.
LEMMA AppendedIs ==
  ASSUME NEW file \in Seq(Line), NEW line \in Line
  PROVE  LET w == Appended(file, line) IN
         /\ w \in Seq(Line) /\ Len(w) <= Len(file) + 1
         /\ \A n \in DOMAIN file :
              /\ n \in DOMAIN w /\ (file[n].ended => w[n] = file[n])
              /\ w[n].text = file[n].text \/ w[n].text.kind \in Broken
         /\ \A n \in DOMAIN w : \/ n \in DOMAIN file /\ w[n].text = file[n].text
                                \/ w[n].text.kind \in Broken
                                \/ w[n].text = line.text
<1>. DEFINE w == Appended(file, line)
            N == Len(file)
<1>1. N \in Nat /\ DOMAIN file = 1 .. N /\ \A n \in DOMAIN file : file[n] \in Line
  BY LinesAre
<1>2. CASE file = << >> \/ Last(file).ended
  <2>1. w = Append(file, line)
    BY <1>2 DEF Appended
  <2>2. /\ w \in Seq(Line) /\ Len(w) = N + 1
        /\ \A i \in 1 .. N : w[i] = file[i]
        /\ w[N + 1] = line
    BY <2>1, AppendProperties
  <2>. HIDE DEF w
  <2>3. DOMAIN w = 1 .. N + 1
    BY <2>2, LenProperties
  <2>4. \A n \in 1 .. N + 1 : n \in 1 .. N \/ n = N + 1
    BY <1>1
  <2>5. \A n \in 1 .. N : n \in 1 .. N + 1
    BY <1>1
  <2>. QED  BY <1>1, <2>2, <2>3, <2>4, <2>5 DEF w
<1>3. CASE ~(file = << >> \/ Last(file).ended)
  <2>. DEFINE b == Joined(file[N], line)
  <2>1. w = [file EXCEPT ![N] = b]
    BY <1>3 DEF Appended
  <2>2. N \in 1 .. N /\ ~file[N].ended
    <3>1. N # 0
      BY <1>3, EmptySeq
    <3>. QED  BY <1>1, <1>3, <3>1 DEF Last
  <2>3. b \in Line /\ b.text.kind \in Broken
    BY DEF Joined, Line, Broken
  <2>. HIDE DEF b, w
  <2>4. /\ w \in Seq(Line) /\ Len(w) = N
        /\ w[N] = b /\ \A n \in 1 .. N : n # N => w[n] = file[n]
    <3>. HIDE DEF N
    <3>1. /\ w \in Seq(Line) /\ Len(w) = Len(file)
          /\ \A j \in 1 .. Len(file) : w[j] = IF j = N THEN b ELSE file[j]
      BY <2>1, <2>2, <2>3, ExceptSeq DEF N
    <3>. QED  BY <2>2, <3>1 DEF N
  <2>5. DOMAIN w = 1 .. N
    BY <2>4, LenProperties
  <2>6. \A n \in 1 .. N : \/ n = N /\ w[n].text.kind \in Broken /\ ~file[n].ended
                         \/ w[n] = file[n]
    BY <2>2, <2>3, <2>4
  <2>7. w \in Seq(Line) /\ Len(w) <= N + 1
    <3>1. N \in Nat /\ Len(w) = N
      BY <1>1, <2>4
    <3>. HIDE DEF N
    <3>. QED  BY <2>4, <3>1
  <2>. HIDE DEF N
  <2>. QED  BY <1>1, <2>5, <2>6, <2>7 DEF w, N
<1>. QED  BY <1>2, <1>3

\* What CallInv says of one call.
Sound(c, r) ==
  /\ r.event /= NoEvent <=> r.at \in {"starting", "closing"}
  /\ r.event /= NoEvent =>
       /\ r.event.call = c
       /\ r.event.kind = IF r.at = "starting" THEN "started" ELSE r.end
  /\ r.at \in {"begin", "starting", "operating"} => r.end = "none"
  /\ r.at \in {"ending", "closing"} => r.end \in Ends
  /\ r.end = "succeeded" => r.effect

LEMMA CallInvIs == CallInv <=> \A c \in Calls : Sound(c, call[c])
BY DEF CallInv, Sound, At

LEMMA CallInvWill == (\A c \in Calls : Sound(c, call[c]))' => CallInv'
BY CallInvIs, PTL

LEMMA NoEventIs == \A e \in Event : e /= NoEvent /\ e.kind \in {"started"} \cup Ends /\ e.call \in Calls
BY DEF Event, NoEvent, Ends

\* One call goes on, in the order of its places; how it ended stays.
Goes(c, r) ==
  /\ call' = [call EXCEPT ![c] = r]
  /\ r \in Call /\ Sound(c, r) /\ r.source = call[c].source
  /\ call[c].end /= "none" => r.end = call[c].end
  /\ call[c].at \notin {"begin", "starting"} => r.at \notin {"begin", "starting"}
  /\ call[c].at /= "over"

LEMMA StampGoes ==
  ASSUME WorldOK, CallInv, NEW c \in Calls, Stamp(c)
  PROVE  \E r : Goes(c, r)
<1>. DEFINE e == [call |-> c, created_at |-> now,
                  kind |-> IF At(c, "begin") THEN "started" ELSE call[c].end]
            r == [[call[c] EXCEPT !.event = e]
                    EXCEPT !.at = IF At(c, "begin") THEN "starting" ELSE "closing"]
<1>1. call[c] \in Call /\ Sound(c, call[c]) /\ now \in Times /\ call[c].at \in {"begin", "ending"}
  BY CallInvIs DEF WorldOK, Stamp, At
<1>2. e \in Event /\ e.call = c /\ e.kind = IF At(c, "begin") THEN "started" ELSE call[c].end
  BY <1>1 DEF Event, Sound, At
<1>3. e /= NoEvent
  BY <1>2, NoEventIs
<1>4. call' = [call EXCEPT ![c] = r]
  BY DEF Stamp, WorldOK
<1>. HIDE DEF e
<1>5. r \in Call /\ r.event = e /\ r.at = (IF At(c, "begin") THEN "starting" ELSE "closing")
      /\ r.end = call[c].end /\ r.effect = call[c].effect /\ r.source = call[c].source
  BY <1>1, <1>2 DEF Call
<1>. HIDE DEF r
<1>6. Sound(c, r)
  BY <1>1, <1>2, <1>3, <1>5 DEF Sound, At
<1>. QED  BY <1>1, <1>4, <1>5, <1>6 DEF Goes, At

LEMMA EndedGoes ==
  ASSUME WorldOK, CallInv, NEW c \in Calls, At(c, "starting") \/ At(c, "closing"), Ended(c)
  PROVE  \E r : Goes(c, r) /\ r.end = call[c].end
                /\ r.at = (IF At(c, "starting") THEN "operating" ELSE "over")
<1>. DEFINE r == [[call[c] EXCEPT !.at = AfterWrite(c)] EXCEPT !.event = NoEvent]
<1>1. call[c] \in Call /\ Sound(c, call[c])
  BY CallInvIs DEF WorldOK
<1>2. call' = [call EXCEPT ![c] = r]
  BY DEF Ended, WorldOK
<1>3. AfterWrite(c) = IF At(c, "starting") THEN "operating" ELSE "over"
  BY DEF AfterWrite
<1>4. r \in Call /\ r.event = NoEvent /\ r.at = AfterWrite(c)
      /\ r.end = call[c].end /\ r.effect = call[c].effect /\ r.source = call[c].source
  BY <1>1, <1>3 DEF Call
<1>. HIDE DEF r
<1>5. Sound(c, r)
  BY <1>1, <1>3, <1>4 DEF Sound, At
<1>. QED  BY <1>1, <1>2, <1>3, <1>4, <1>5 DEF Goes, At

LEMMA DiesGoes ==
  ASSUME WorldOK, CallInv, NEW c \in Calls, Dies(c)
  PROVE  \E r : Goes(c, r)
<1>. DEFINE r == [[call[c] EXCEPT !.at = "over"] EXCEPT !.event = NoEvent]
<1>1. call[c] \in Call /\ Sound(c, call[c])
  BY CallInvIs DEF WorldOK
<1>2. call' = [call EXCEPT ![c] = r]
  BY DEF Dies, WorldOK
<1>3. r \in Call /\ r.event = NoEvent /\ r.at = "over"
      /\ r.end = call[c].end /\ r.effect = call[c].effect /\ r.source = call[c].source
  BY <1>1 DEF Call
<1>. HIDE DEF r
<1>4. Sound(c, r)
  BY <1>1, <1>3 DEF Sound
<1>. QED  BY <1>1, <1>2, <1>3, <1>4 DEF Goes, Dies, At

LEMMA OperateGoes ==
  ASSUME WorldOK, CallInv, NEW c \in Calls, NEW end \in Ends, NEW effect \in BOOLEAN,
         Operate(c, end, effect)
  PROVE  \E r : Goes(c, r)
<1>. DEFINE r == [[[call[c] EXCEPT !.end = end] EXCEPT !.effect = effect] EXCEPT !.at = "ending"]
<1>1. call[c] \in Call /\ Sound(c, call[c]) /\ call[c].at = "operating"
  BY CallInvIs DEF WorldOK, Operate, At
<1>2. call' = [call EXCEPT ![c] = r]
  BY DEF Operate, WorldOK
<1>3. end = "succeeded" => effect
  BY DEF Operate, Verdicts
<1>4. r \in Call /\ r.event = call[c].event /\ r.at = "ending"
      /\ r.end = end /\ r.effect = effect /\ r.source = call[c].source
  BY <1>1 DEF Call
<1>. HIDE DEF r
<1>5. call[c].end = "none" /\ call[c].event = NoEvent
  BY <1>1 DEF Sound
<1>6. Sound(c, r)
  BY <1>3, <1>4, <1>5 DEF Sound
<1>. QED  BY <1>1, <1>2, <1>4, <1>5, <1>6 DEF Goes

LEMMA CallsGo ==
  ASSUME WorldOK, CallInv, NEW c \in Calls, NEW r, Goes(c, r)
  PROVE  /\ call' \in [Calls -> Call] /\ CallInv'
         /\ \A d \in Calls : call'[d] = IF d = c THEN r ELSE call[d]
         /\ \A d \in Calls : call[d].end /= "none" => call'[d].end = call[d].end
         /\ \A s : Spent(s) \subseteq Spent(s)'
<1>1. call' \in [Calls -> Call] /\ \A d \in Calls : call'[d] = IF d = c THEN r ELSE call[d]
  BY DEF Goes, WorldOK
<1>2. \A d \in Calls : Sound(d, call'[d])
  BY <1>1, CallInvIs DEF Goes
<1>3. CallInv'
  BY <1>2, CallInvWill
<1>4. \A d \in Calls : call[d].end /= "none" => call'[d].end = call[d].end
  BY <1>1 DEF Goes
<1>5. \A d \in Calls : /\ call'[d].source = call[d].source
                       /\ call[d].at \notin {"begin", "starting"} => call'[d].at \notin {"begin", "starting"}
                       /\ call[d].at = "over" => call'[d].at = "over"
  BY <1>1 DEF Goes
<1>6. \A s : Spent(s) \subseteq Spent(s)'
  BY <1>5 DEF Spent, At
<1>. QED  BY <1>1, <1>3, <1>4, <1>6

\* Lines that are ended stay, a text gives way to no other event, and what has
\* ended stays so.
Kept ==
  /\ \A s \in Sources : \A n \in DOMAIN files[s] :
       /\ n \in DOMAIN files'[s]
       /\ files[s][n].ended => files'[s][n] = files[s][n]
       /\ files'[s][n].text = files[s][n].text \/ files'[s][n].text.kind \in Broken
  /\ \A c \in Calls : call[c].end /= "none" => call'[c].end = call[c].end

\* A step that writes nothing.
LEMMA SilentStep ==
  ASSUME WorldOK, CallInv, FileInv, NEW c \in Calls, NEW r, Goes(c, r), files' = files
  PROVE  FileInv' /\ Kept
<1>1. /\ \A d \in Calls : call[d].end /= "none" => call'[d].end = call[d].end
      /\ \A s : Spent(s) \subseteq Spent(s)'
  BY CallsGo
<1>2. ASSUME NEW s \in Sources
      PROVE  Len(files[s]) <= Cardinality(Spent(s)')
  <2>1. Spent(s) \in SUBSET (Calls \X BOOLEAN) /\ Spent(s)' \in SUBSET (Calls \X BOOLEAN)
    BY DEF Spent
  <2>2. /\ IsFiniteSet(Spent(s)') /\ Cardinality(Spent(s)') \in Nat /\ Cardinality(Spent(s)) \in Nat
    BY <2>1, SpentIs
  <2>3. Spent(s) \subseteq Spent(s)'
    BY <1>1
  <2>4. Cardinality(Spent(s)) <= Cardinality(Spent(s)')
    BY <2>2, <2>3, FS_Subset
  <2>5. Len(files[s]) <= Cardinality(Spent(s)) /\ Len(files[s]) \in Nat
    BY LinesAre DEF FileInv, WorldOK
  <2>. QED  BY <2>2, <2>4, <2>5
<1>3. ASSUME NEW s \in Sources, NEW n \in Lines(files[s]), files[s][n].text.kind \in Ends
      PROVE  files[s][n].text.kind = call'[files[s][n].text.call].end
  <2>1. files[s][n].text.kind = call[files[s][n].text.call].end /\ files[s][n].text.call \in Calls
    BY <1>3, LinesAre, NoEventIs DEF FileInv, WorldOK
  <2>2. files[s][n].text.kind /= "none"
    BY <1>3 DEF Ends
  <2>. QED  BY <1>1, <2>1, <2>2
<1>4. FileInv'
  BY <1>2, <1>3 DEF FileInv, Lines
<1>5. Kept
  BY <1>1 DEF Kept
<1>. QED  BY <1>4, <1>5

LEMMA WritingStep ==
  ASSUME WorldOK, CallInv, FileInv, NEW c \in Calls, NEW line \in Line, Writes(c, line),
         line.text.kind \notin Broken => line.text = call[c].event
  PROVE  files' \in [Sources -> Seq(Line)] /\ FileInv' /\ Kept
<1>0. PICK s0 : s0 = call[c].source
  OBVIOUS
<1>. DEFINE w == Appended(files[s0], line)
<1>1. /\ s0 \in Sources /\ files[s0] \in Seq(Line)
      /\ At(c, "starting") \/ At(c, "closing")
      /\ files' = [files EXCEPT ![s0] = w] /\ Ended(c)
  BY <1>0 DEF Writes, WorldOK, Call
<1>2. PICK r : /\ Goes(c, r) /\ r.end = call[c].end
               /\ r.at = (IF At(c, "starting") THEN "operating" ELSE "over")
  BY <1>1, EndedGoes
<1>3. /\ \A d \in Calls : call'[d] = IF d = c THEN r ELSE call[d]
      /\ \A d \in Calls : call[d].end /= "none" => call'[d].end = call[d].end
      /\ \A s : Spent(s) \subseteq Spent(s)'
  BY <1>2, CallsGo
<1>4. /\ w \in Seq(Line) /\ Len(w) <= Len(files[s0]) + 1
      /\ \A n \in DOMAIN files[s0] :
           /\ n \in DOMAIN w /\ (files[s0][n].ended => w[n] = files[s0][n])
           /\ w[n].text = files[s0][n].text \/ w[n].text.kind \in Broken
      /\ \A n \in DOMAIN w : \/ n \in DOMAIN files[s0] /\ w[n].text = files[s0][n].text
                             \/ w[n].text.kind \in Broken
                             \/ w[n].text = line.text
  BY <1>1, AppendedIs
<1>. HIDE DEF w
<1>5. /\ files' \in [Sources -> Seq(Line)]
      /\ \A s \in Sources : files'[s] = IF s = s0 THEN w ELSE files[s]
  BY <1>1, <1>4 DEF WorldOK
<1>6. Kept
  BY <1>3, <1>4, <1>5 DEF Kept
<1>7. ASSUME NEW s \in Sources
      PROVE  /\ IsFiniteSet(Spent(s)') /\ Cardinality(Spent(s)') \in Nat
             /\ IsFiniteSet(Spent(s)) /\ Cardinality(Spent(s)) \in Nat
             /\ Cardinality(Spent(s)) <= Cardinality(Spent(s)')
  <2>1. Spent(s) \in SUBSET (Calls \X BOOLEAN) /\ Spent(s)' \in SUBSET (Calls \X BOOLEAN)
    BY DEF Spent
  <2>2. /\ IsFiniteSet(Spent(s)') /\ Cardinality(Spent(s)') \in Nat
        /\ IsFiniteSet(Spent(s)) /\ Cardinality(Spent(s)) \in Nat
    BY <2>1, SpentIs
  <2>3. Spent(s) \subseteq Spent(s)'
    BY <1>3
  <2>. QED  BY <2>2, <2>3, FS_Subset
<1>8. Cardinality(Spent(s0)) + 1 <= Cardinality(Spent(s0)')
  <2>. DEFINE x == <<c, At(c, "closing")>>
  <2>1. x \notin Spent(s0) /\ x \in Spent(s0)'
    <3>1. call'[c] = r /\ r.source = s0 /\ call[c].source = s0
      BY <1>0, <1>2, <1>3 DEF Goes
    <3>2. CASE At(c, "starting")
      <4>1. x = <<c, FALSE>> /\ call'[c].at = "operating"
        BY <1>2, <3>1, <3>2, Zenon DEF At
      <4>2. <<c, FALSE>> \notin Spent(s0)
        BY <3>2 DEF Spent
      <4>3. <<c, FALSE>> \in Spent(s0)'
        BY <3>1, <4>1 DEF Spent, At
      <4>. QED  BY <4>1, <4>2, <4>3
    <3>3. CASE At(c, "closing")
      <4>1. x = <<c, TRUE>> /\ call'[c].at = "over"
        BY <1>2, <3>1, <3>3, Zenon DEF At
      <4>2. <<c, TRUE>> \notin Spent(s0)
        BY <3>3 DEF Spent, At
      <4>3. <<c, TRUE>> \in Spent(s0)'
        BY <3>1, <4>1 DEF Spent, At
      <4>. QED  BY <4>1, <4>2, <4>3
    <3>. QED  BY <1>1, <3>2, <3>3
  <2>. HIDE DEF x
  <2>2. s0 \in Sources
    BY <1>1
  <2>3. Cardinality(Spent(s0) \cup {x}) = Cardinality(Spent(s0)) + 1
    BY <1>7, <2>1, <2>2, FS_AddElement
  <2>4. Spent(s0) \cup {x} \subseteq Spent(s0)'
    BY <1>3, <2>1
  <2>5. Cardinality(Spent(s0) \cup {x}) <= Cardinality(Spent(s0)')
    BY <1>7, <2>2, <2>4, FS_Subset
  <2>. QED  BY <2>3, <2>5
<1>9. ASSUME NEW s \in Sources
      PROVE  Len(files'[s]) <= Cardinality(Spent(s)')
  <2>1. Len(files[s]) <= Cardinality(Spent(s)) /\ Len(files[s]) \in Nat
    BY LinesAre DEF FileInv, WorldOK
  <2>2. Len(w) \in Nat
    BY <1>4, LenProperties
  <2>3. CASE s = s0
    <3>1. files'[s] = w
      BY <1>5, <2>3
    <3>. QED  BY <1>4, <1>7, <1>8, <2>1, <2>2, <2>3, <3>1
  <2>4. CASE s /= s0
    <3>1. files'[s] = files[s]
      BY <1>5, <2>4
    <3>. QED  BY <1>7, <2>1, <3>1
  <2>. QED  BY <2>3, <2>4
<1>10. ASSUME NEW s \in Sources, NEW n \in Lines(files'[s]), files'[s][n].text.kind \in Ends
       PROVE  files'[s][n].text.kind = call'[files'[s][n].text.call].end
  <2>0. n \in DOMAIN files'[s] /\ files'[s][n].text.kind \notin Broken
    BY <1>10 DEF Lines
  <2>1. CASE n \in DOMAIN files[s] /\ files'[s][n].text = files[s][n].text
    <3>0. n \in Lines(files[s])
      BY <2>0, <2>1 DEF Lines
    <3>1. files[s][n].text.kind = call[files[s][n].text.call].end /\ files[s][n].text.call \in Calls
      BY <1>10, <2>1, <3>0, LinesAre, NoEventIs DEF FileInv, WorldOK
    <3>2. files[s][n].text.kind /= "none"
      BY <1>10, <2>1 DEF Ends
    <3>. QED  BY <1>3, <2>1, <3>1, <3>2
  <2>2. CASE files'[s][n].text = line.text
    <3>2. line.text = call[c].event /\ Sound(c, call[c]) /\ call[c] \in Call
      BY <2>0, <2>2, CallInvIs DEF WorldOK
    <3>3. call[c].event /= NoEvent
      BY <1>1, <3>2 DEF Sound, At
    <3>4. line.text.call = c /\ line.text.kind = call[c].end
      BY <1>10, <2>2, <3>2, <3>3 DEF Sound, Ends
    <3>5. call'[c].end = call[c].end
      BY <1>2, <1>3
    <3>. QED  BY <2>2, <3>4, <3>5
  <2>. QED  BY <1>4, <1>5, <2>0, <2>1, <2>2
<1>11. FileInv'
  BY <1>9, <1>10 DEF FileInv
<1>. QED  BY <1>5, <1>6, <1>11

LEMMA WriterIs ==
  ASSUME WorldOK, CallInv, FileInv, NEW c \in Calls, WriterStep(c)
  PROVE  WorldOK' /\ CallInv' /\ FileInv' /\ Kept /\ query' = query
<1>1. ASSUME NEW r, Goes(c, r), files' = files, now' = now, faults' \in 0 .. MaxFaults,
             query' = query
      PROVE  WorldOK' /\ CallInv' /\ FileInv' /\ Kept /\ query' = query
  <2>1. call' \in [Calls -> Call] /\ CallInv'
    BY <1>1, CallsGo
  <2>2. FileInv' /\ Kept
    BY <1>1, SilentStep
  <2>3. WorldOK'
    BY <1>1, <2>1 DEF WorldOK
  <2>. QED  BY <1>1, <2>1, <2>2, <2>3
<1>2. MaxFaults \in Nat /\ faults \in 0 .. MaxFaults /\ now \in Times
  BY LogAssumption DEF WorldOK
<1>3. faults < MaxFaults => faults + 1 \in 0 .. MaxFaults
  BY <1>2
<1>4. CASE Stamp(c)
  <2>1. PICK r : Goes(c, r)
    BY <1>4, StampGoes
  <2>. QED  BY <1>1, <1>2, <1>4, <2>1 DEF Stamp
<1>5. CASE Dies(c)
  <2>1. PICK r : Goes(c, r)
    BY <1>5, DiesGoes
  <2>. QED  BY <1>1, <1>3, <1>5, <2>1 DEF Dies
<1>6. CASE WriteFails(c)
  <2>1. PICK r : Goes(c, r)
    BY <1>6, EndedGoes DEF WriteFails
  <2>. QED  BY <1>1, <1>3, <1>6, <2>1 DEF WriteFails
<1>7. CASE \E end \in Ends, effect \in BOOLEAN : Operate(c, end, effect)
  <2>1. PICK end \in Ends, effect \in BOOLEAN : Operate(c, end, effect)
    BY <1>7
  <2>2. PICK r : Goes(c, r)
    BY <2>1, OperateGoes
  <2>. QED  BY <1>1, <1>2, <2>1, <2>2 DEF Operate
<1>8. ASSUME NEW line \in Line, Writes(c, line), line.text.kind \notin Broken => line.text = call[c].event,
             faults' \in 0 .. MaxFaults
      PROVE  WorldOK' /\ CallInv' /\ FileInv' /\ Kept /\ query' = query
  <2>1. files' \in [Sources -> Seq(Line)] /\ FileInv' /\ Kept
    BY <1>8, WritingStep
  <2>2. PICK r : Goes(c, r)
    BY <1>8, EndedGoes DEF Writes
  <2>3. call' \in [Calls -> Call] /\ CallInv'
    BY <2>2, CallsGo
  <2>4. WorldOK' /\ query' = query
    BY <1>2, <1>8, <2>1, <2>3 DEF WorldOK, Writes
  <2>. QED  BY <2>1, <2>3, <2>4
<1>9. At(c, "starting") \/ At(c, "closing") => call[c].event \in Event
  <2>1. call[c] \in Call /\ Sound(c, call[c])
    BY CallInvIs DEF WorldOK
  <2>. QED  BY <2>1 DEF Sound, At, Call
<1>10. CASE Write(c)
  <2>. DEFINE line == [text |-> call[c].event, ended |-> TRUE]
  <2>1. Writes(c, line) /\ faults' \in 0 .. MaxFaults
    BY <1>2, <1>10 DEF Write
  <2>2. line \in Line /\ line.text = call[c].event
    BY <1>9, <2>1 DEF Line, Writes
  <2>. HIDE DEF line
  <2>. QED  BY <1>8, <2>1, <2>2
<1>11. CASE \E text \in {call[c].event} \cup [kind : Broken] : WriteTorn(c, text)
  <2>1. PICK text \in {call[c].event} \cup [kind : Broken] : WriteTorn(c, text)
    BY <1>11
  <2>. DEFINE line == [text |-> text, ended |-> FALSE]
  <2>2. Writes(c, line) /\ faults' \in 0 .. MaxFaults
    BY <1>3, <2>1 DEF WriteTorn
  <2>3. line \in Line /\ (line.text.kind \notin Broken => line.text = call[c].event)
    BY <1>9, <2>1, <2>2 DEF Line, Writes
  <2>. HIDE DEF line
  <2>. QED  BY <1>8, <2>2, <2>3
<1>. QED  BY <1>4, <1>5, <1>6, <1>7, <1>10, <1>11 DEF WriterStep

\* What has been seen still stands, or is destroyed.
LEMMA SeenStays ==
  ASSUME WorldOK, QueryOK, SeenInv, PageInv, Kept, query' = query
  PROVE  SeenInv' /\ PageInv'
<1>1. ASSUME query /= NoQuery, NEW f \in Seen
      PROVE  /\ f.source \in Sources /\ f.line \in DOMAIN files[f.source]
             /\ f.line \in DOMAIN files'[f.source]
             /\ Stands(f) => Stands(f)' \/ Destroyed(f)'
             /\ Destroyed(f) => Destroyed(f)'
             /\ Stands(f) /\ LineOf(f).ended => Stands(f)' /\ LineOf(f)'.ended
             /\ f.event.kind \in Ends => f.event.kind = call'[f.event.call].end
  <2>1. f.source \in query.sources /\ f.line \in DOMAIN files[f.source]
        /\ (f.event.kind \in Ends => f.event.kind = call[f.event.call].end)
    BY <1>1 DEF SeenInv
  <2>2. f.source \in Sources /\ f.event \in Event
    <3>1. query \in Query
      BY <1>1 DEF QueryOK
    <3>2. ToSet(query.returned) \subseteq Found
      <4>1. query.returned \in Seq(Found)
        BY <3>1 DEF Query
      <4>. QED  BY <4>1, LenProperties DEF ToSet
    <3>3. f \in Found
      BY <3>1, <3>2 DEF Query, Seen
    <3>. QED  BY <3>3 DEF Found
  <2>3. /\ f.line \in DOMAIN files'[f.source]
        /\ files[f.source][f.line].ended => files'[f.source][f.line] = files[f.source][f.line]
        /\ \/ files'[f.source][f.line].text = files[f.source][f.line].text
           \/ files'[f.source][f.line].text.kind \in Broken
    BY <2>1, <2>2 DEF Kept
  <2>4. f.event.kind \in Ends => f.event.kind = call'[f.event.call].end
    <3>1. f.event.call \in Calls
      BY <2>2, NoEventIs
    <3>. QED  BY <2>1, <3>1 DEF Kept, Ends
  <2>. QED  BY <2>1, <2>2, <2>3, <2>4 DEF Stands, LineOf, Destroyed
<1>2. query /= NoQuery => Standing' \subseteq Standing
  BY <1>1 DEF Standing, Seen
<1>3. PageInv'
  BY <1>2 DEF PageInv
<1>4. SeenInv'
  <2>1. Seen' = Seen
    BY DEF Seen
  <2>2. \A e : Matches(query, e)' <=> Matches(query, e)
    BY DEF Matches, DocumentPredicate, AuditPredicate, IsFailure
  <2>3. query /= NoQuery => query.existed \subseteq Seen
    BY DEF Seen
  <2>. QED  BY <1>1, <2>1, <2>2, <2>3 DEF SeenInv
<1>. QED  BY <1>3, <1>4

LEMMA WriterKeeps ==
  ASSUME IInv, NEW c \in Calls, WriterStep(c)
  PROVE  IInv'
<1>1. WorldOK /\ QueryOK /\ CallInv /\ FileInv /\ SeenInv /\ PageInv
  BY TypeParts DEF IInv
<1>2. WorldOK' /\ CallInv' /\ FileInv' /\ Kept /\ query' = query
  BY <1>1, WriterIs
<1>3. QueryOK'
  BY <1>1, <1>2 DEF QueryOK
<1>. QED  BY <1>1, <1>2, <1>3, SeenStays, TypeWill DEF IInv

-----------------------------------------------------------------------------
(* Reading.                                                                *)

LEMMA NextSourceIs ==
  ASSUME QueryOK, query /= NoQuery, query.rest /= {}
  PROVE  NextSource \in query.rest /\ NextSource \in Sources
<1>. DEFINE S == query.rest
            R == {st \in S \X S : Rank(st[1]) < Rank(st[2])}
            N == Cardinality(S)
            q == SortedBy(S, R)
<1>1. S \subseteq Sources
  BY DEF QueryOK, Query
<1>2. IsFiniteSet(S) /\ \A s \in S : Rank(s) \in Nat
  BY <1>1, RankIs, FS_Subset
<1>3. \A s, t \in S : <<s, t>> \in R <=> Rank(s) < Rank(t)
  OBVIOUS
<1>4. \A s, t \in S : Rank(s) = Rank(t) => s = t
  BY <1>1, RankIs
<1>. HIDE DEF S, R
<1>5. StrictOrder(S, R)
  BY <1>2, <1>3, <1>4 DEF StrictOrder
<1>6. /\ N \in Nat /\ q \in [1 .. N -> S]
      /\ \A i, j \in 1 .. N : i < j => <<q[i], q[j]>> \in R
      /\ \A s \in S : \E i \in 1 .. N : q[i] = s
  BY <1>2, <1>5, SortedIs
<1>. HIDE DEF N, q
<1>7. 1 \in 1 .. N
  <2>1. PICK s \in S : TRUE
    BY DEF S
  <2>2. PICK i \in 1 .. N : q[i] = s
    BY <1>6
  <2>. QED  BY <1>6, <2>2
<1>8. q[1] \in S
  BY <1>6, <1>7
<1>9. ASSUME NEW s \in S
      PROVE  Rank(q[1]) <= Rank(s)
  <2>1. PICK i \in 1 .. N : q[i] = s
    BY <1>6
  <2>2. CASE i = 1
    BY <1>2, <1>8, <2>1, <2>2
  <2>3. CASE i # 1
    <3>1. 1 < i
      BY <1>6, <2>3
    <3>2. Rank(q[1]) < Rank(s)
      BY <1>3, <1>6, <1>7, <1>8, <2>1, <3>1
    <3>. QED  BY <1>2, <1>8, <3>2
  <2>. QED  BY <2>2, <2>3
<1>10. \E s \in query.rest : \A t \in query.rest : Rank(s) <= Rank(t)
  BY <1>8, <1>9 DEF S
<1>. QED  BY <1>1, <1>10 DEF NextSource, S

LEMMA SequenceIs ==
  ASSUME NEW S, NEW N \in Nat, NEW q \in [1 .. N -> S]
  PROVE  q \in Seq(S) /\ Len(q) = N /\ DOMAIN q = 1 .. N
<1>1. q \in Seq(S)
  BY SeqDef
<1>2. Len(q) \in Nat /\ DOMAIN q = 1 .. Len(q) /\ DOMAIN q = 1 .. N
  BY <1>1, LenProperties
<1>3. Len(q) = N
  <2>1. CASE Len(q) < N
    <3>1. N \in 1 .. N /\ N \notin 1 .. Len(q)
      BY <1>2, <2>1
    <3>. QED  BY <1>2, <3>1
  <2>2. CASE N < Len(q)
    <3>1. Len(q) \in 1 .. Len(q) /\ Len(q) \notin 1 .. N
      BY <1>2, <2>2
    <3>. QED  BY <1>2, <3>1
  <2>. QED  BY <1>2, <2>1, <2>2
<1>. QED  BY <1>1, <1>2, <1>3

\* In the order of the answer.
Precedes(f, g) == IF query.paged THEN Before(g, f) ELSE Before(f, g)

\* A page is the first part of what remains, in order.
LEMMA PageIs ==
  ASSUME WorldOK, QueryOK, FileInv, SeenInv, query /= NoQuery
  PROVE  LET S == Remaining(query)
             page == Page(query)
             M == Len(page) IN
         /\ page \in Seq(S) /\ M \in Nat /\ M <= Limit(query) /\ DOMAIN page = 1 .. M
         /\ \A i, j \in 1 .. M : i < j => Precedes(page[i], page[j])
         /\ \A f \in S : f \in ToSet(page) \/ (M # 0 /\ Precedes(page[M], f))
         /\ ~HasMore(query) => S \subseteq ToSet(page)
<1>. DEFINE S == Remaining(query)
            R == Order(query)
            N == Cardinality(S)
            L == Limit(query)
            q == SortedBy(S, R)
            page == Page(query)
            M == Len(page)
<1>1. S \subseteq query.found /\ query.sources \subseteq Sources
  BY DEF Remaining, QueryOK, Query
<1>3. IsFiniteSet(S)
  BY <1>1, FS_Subset DEF SeenInv
<1>4. \A f, g \in S : <<f, g>> \in R <=> Precedes(f, g)
  BY <1>1 DEF Order, Precedes
<1>5. /\ \A f, g \in S : f = g \/ Before(f, g) \/ Before(g, f)
      /\ \A f \in S : ~Before(f, f)
      /\ \A f, g, h \in S : Before(f, g) /\ Before(g, h) => Before(f, h)
  <2>. HIDE DEF S
  <2>. QED  BY <1>1, FoundOrdered
<1>6. StrictOrder(S, R)
  <2>. HIDE DEF S, R
  <2>. QED  BY <1>4, <1>5 DEF StrictOrder, Precedes
<1>7. L \in Nat \ {0}
  BY LogAssumption DEF Limit
<1>8. Rest(query) = q /\ page = (IF Len(q) > L THEN SubSeq(q, 1, L) ELSE q) /\ (HasMore(query) <=> Len(q) > L)
  BY DEF Rest, Page, HasMore
<1>. HIDE DEF S, R, L
<1>9. /\ N \in Nat /\ q \in [1 .. N -> S]
      /\ \A i, j \in 1 .. N : i < j => <<q[i], q[j]>> \in R
      /\ \A f \in S : \E i \in 1 .. N : q[i] = f
  BY <1>3, <1>6, SortedIs
<1>. HIDE DEF N, q, page
<1>10. q \in Seq(S) /\ Len(q) = N /\ DOMAIN q = 1 .. N
  BY <1>9, SequenceIs
<1>11. \A i, j \in 1 .. N : i < j => Precedes(q[i], q[j])
  BY <1>4, <1>9
<1>12. CASE N > L
  <2>1. page = SubSeq(q, 1, L)
    BY <1>8, <1>10, <1>12
  <2>2. 1 \in Int /\ L \in Int /\ \A i \in 1 .. L : q[i] \in S
    BY <1>7, <1>9, <1>12
  <2>3. /\ page \in Seq(S) /\ Len(page) = IF 1 <= L THEN L - 1 + 1 ELSE 0
        /\ \A i \in 1 .. L - 1 + 1 : page[i] = q[1 + i - 1]
    BY <2>1, <2>2, SubSeqProperties
  <2>4. M = L /\ \A i \in 1 .. L : page[i] = q[i]
    BY <1>7, <2>3
  <2>5. DOMAIN page = 1 .. L
    BY <2>3, <2>4, LenProperties
  <2>6. \A i \in 1 .. L : i \in 1 .. N
    BY <1>7, <1>9, <1>12
  <2>7. \A i, j \in 1 .. M : i < j => Precedes(page[i], page[j])
    BY <1>11, <2>4, <2>6
  <2>8. ASSUME NEW f \in S
        PROVE  f \in ToSet(page) \/ (M # 0 /\ Precedes(page[M], f))
    <3>1. PICK i \in 1 .. N : q[i] = f
      BY <1>9
    <3>2. CASE i <= L
      <4>1. i \in DOMAIN page /\ page[i] = f
        BY <1>7, <1>9, <2>4, <2>5, <3>1, <3>2
      <4>. QED  BY <4>1 DEF ToSet
    <3>3. CASE i > L
      <4>1. L \in 1 .. L /\ L \in 1 .. N /\ L < i
        BY <1>7, <1>9, <1>12, <3>3
      <4>2. Precedes(q[L], f) /\ page[L] = q[L]
        BY <1>11, <2>4, <3>1, <4>1
      <4>. QED  BY <1>7, <2>4, <4>2
    <3>. QED  BY <1>7, <1>9, <3>2, <3>3
  <2>9. HasMore(query)
    BY <1>8, <1>10, <1>12
  <2>10. M \in Nat /\ M <= L
    BY <1>7, <2>4
  <2>. QED  BY <2>3, <2>4, <2>5, <2>7, <2>8, <2>9, <2>10 DEF S, L, page
<1>13. CASE ~(N > L)
  <2>1. page = q /\ M = N
    BY <1>8, <1>10, <1>13
  <2>2. S \subseteq ToSet(page)
    BY <1>9, <1>10, <2>1 DEF ToSet
  <2>3. M \in Nat /\ M <= L
    BY <1>7, <1>9, <1>13, <2>1
  <2>. HIDE DEF M
  <2>. QED  BY <1>10, <1>11, <2>1, <2>2, <2>3 DEF S, L, page, M
<1>. QED  BY <1>12, <1>13

\* The query goes on to r, over the same files.
Turns(r) == query' = r /\ UNCHANGED <<now, files, call, faults>>

\* What SeenInv says of a query.
SeenBy(r) == r.found \cup r.existed \cup ToSet(r.returned)
Noted(r, f) ==
  /\ f.source \in r.sources /\ f.line \in DOMAIN files[f.source]
  /\ Stands(f) \/ Destroyed(f)
  /\ Matches(r, f.event)
  /\ f.event.kind \in Ends => f.event.kind = call[f.event.call].end
Distinct(S) == \A f, g \in S : f.source = g.source /\ f.line = g.line => f.event = g.event
Safe(r) == \A f \in r.existed \ r.loose : Stands(f) /\ LineOf(f).ended

Sees(r) ==
  /\ r.rest \subseteq r.sources /\ IsFiniteSet(r.found)
  /\ \A f \in SeenBy(r) : Noted(r, f)
  /\ Distinct(SeenBy(r)) /\ Safe(r)

LEMMA SeesIs == ASSUME query /= NoQuery, SeenInv PROVE Sees(query)
BY DEF SeenInv, Sees, SeenBy, Seen, Noted, Distinct, Safe

\* A query that goes on with what it has seen.
LEMMA SeesOn ==
  ASSUME query /= NoQuery, SeenInv, NEW r,
         r.filter = query.filter, r.failures = query.failures, r.sources = query.sources,
         r.existed = query.existed, r.loose = query.loose,
         r.rest \subseteq r.sources, IsFiniteSet(r.found), SeenBy(r) \subseteq SeenBy(query)
  PROVE  Sees(r)
<1>1. Sees(query)
  BY SeesIs
<1>2. \A e : Matches(r, e) <=> Matches(query, e)
  BY DEF Matches, DocumentPredicate, AuditPredicate
<1>. QED  BY <1>1, <1>2 DEF Sees, Noted, Distinct, Safe

\* A step of a query is about the query.
LEMMA QueryTurns ==
  ASSUME IInv, NEW r \in Query, Turns(r), r.paged \/ Len(r.returned) <= TimelineLimit, Sees(r)
  PROVE  TypeOK' /\ CallInv' /\ FileInv' /\ SeenInv' /\ query' = r /\ query' /= NoQuery
<1>1. WorldOK /\ CallInv /\ FileInv
  BY TypeParts DEF IInv
<1>2. UNCHANGED <<now, files, call, faults>> /\ query' = r
  BY DEF Turns
<1>3. r /= NoQuery
  BY DEF Query, NoQuery
<1>4. WorldOK' /\ QueryOK'
  BY <1>1, <1>2 DEF WorldOK, QueryOK
<1>5. CallInv' /\ FileInv'
  BY <1>1, <1>2 DEF CallInv, FileInv, At, Spent, Lines
<1>6. SeenInv'
  <2>1. /\ r.rest \subseteq r.sources /\ IsFiniteSet(r.found)
        /\ \A f \in SeenBy(r) : Noted(r, f)
        /\ Distinct(SeenBy(r)) /\ Safe(r)
    BY DEF Sees
  <2>2. Seen' = SeenBy(r)
    BY <1>2 DEF Seen, SeenBy
  <2>3. \A e : Matches(query, e)' <=> Matches(r, e)
    BY <1>2 DEF Matches, DocumentPredicate, AuditPredicate, IsFailure
  <2>4. \A f : (Stands(f)' <=> Stands(f)) /\ (Destroyed(f)' <=> Destroyed(f))
              /\ LineOf(f)' = LineOf(f)
    BY <1>2 DEF Stands, Destroyed, LineOf
  <2>. QED  BY <1>2, <2>1, <2>2, <2>3, <2>4 DEF SeenInv, Noted, Distinct, Safe
<1>. QED  BY <1>2, <1>3, <1>4, <1>5, <1>6, TypeWill

LEMMA AskedStep ==
  ASSUME IInv, NEW paged \in BOOLEAN, NEW failures \in BOOLEAN, NEW filter \in Filters,
         NEW sources \in SUBSET Sources, Asks(Asked(paged, failures, filter, sources))
  PROVE  IInv'
<1>. DEFINE q == Asked(paged, failures, filter, sources)
            e == Readable(q)
            l == {f \in e : Loose(f)}
            r == [[q EXCEPT !.existed = e] EXCEPT !.loose = l]
<1>1. WorldOK /\ FileInv
  BY TypeParts DEF IInv
<1>2. /\ q.sources = sources /\ q.rest = sources /\ q.found = {} /\ q.returned = << >>
      /\ q.filter = filter /\ q.failures = failures /\ q.paged = paged /\ q.at = "scanning"
  BY DEF Asked
<1>3. \A f \in e : /\ f \in Found /\ f.source \in sources
                  /\ f.line \in Lines(files[f.source]) /\ f.event = files[f.source][f.line].text
                  /\ Matches(q, f.event)
  <2>. SUFFICES ASSUME NEW s \in sources, NEW f \in ReadFile(q, s)
       PROVE  /\ f \in Found /\ f.source \in sources
              /\ f.line \in Lines(files[f.source]) /\ f.event = files[f.source][f.line].text
              /\ Matches(q, f.event)
    BY <1>2 DEF Readable
  <2>. QED  BY <1>1, ReadFileIs
<1>4. << >> \in Seq(Found) /\ Len(<< >>) = 0 /\ ToSet(<< >>) = {} /\ DOMAIN << >> = {}
  BY EmptySeq DEF ToSet
<1>5. q \in Query
  BY <1>4 DEF Asked, Query
<1>6. Turns(r)
  BY <1>5 DEF Asks, Turns, Query
<1>7. l \subseteq e /\ \A f \in e \ l : files[f.source][f.line].ended
  BY DEF Loose
<1>. HIDE DEF q, e, l
<1>8. /\ r \in Query /\ r.existed = e /\ r.loose = l /\ r.sources = sources /\ r.rest = sources
      /\ r.found = {} /\ r.returned = << >> /\ r.filter = q.filter /\ r.failures = q.failures
      /\ r.paged = paged /\ r.at = "scanning"
  BY <1>2, <1>3, <1>5, <1>7 DEF Query
<1>. HIDE DEF r
<1>9. \A x : Matches(r, x) <=> Matches(q, x)
  BY <1>2, <1>8 DEF Matches, DocumentPredicate, AuditPredicate
<1>10. SeenBy(r) = e
  BY <1>4, <1>8 DEF SeenBy
<1>11. \A f \in e : Noted(r, f) /\ Stands(f)
  <2>1. \A f \in e : f.event.kind \in Ends => f.event.kind = call[f.event.call].end
    BY <1>1, <1>3 DEF FileInv
  <2>. QED  BY <1>3, <1>8, <1>9, <2>1 DEF Noted, Stands, LineOf, Lines
<1>12. Distinct(e) /\ Safe(r)
  BY <1>3, <1>7, <1>8, <1>11 DEF Distinct, Safe, LineOf
<1>13. Sees(r)
  BY <1>8, <1>10, <1>11, <1>12, FS_EmptySet DEF Sees
<1>14. r.paged \/ Len(r.returned) <= TimelineLimit
  BY <1>4, <1>8, LogAssumption
<1>15. TypeOK' /\ CallInv' /\ FileInv' /\ SeenInv' /\ query' = r
  BY <1>6, <1>8, <1>13, <1>14, QueryTurns
<1>16. \A f \in Standing' : f.source \in r.rest
  BY <1>3, <1>8, <1>15 DEF Standing
<1>17. PageInv'
  BY <1>4, <1>8, <1>15, <1>16 DEF PageInv
<1>. QED  BY <1>15, <1>17 DEF IInv

LEMMA ReadSourceStep ==
  ASSUME IInv, ReadSource
  PROVE  IInv'
<1>. DEFINE s == NextSource
            new == ReadFile(query, s)
            r == [[query EXCEPT !.rest = @ \ {s}] EXCEPT !.found = @ \cup new]
<1>1. WorldOK /\ QueryOK /\ FileInv /\ SeenInv /\ PageInv
  BY TypeParts DEF IInv
<1>2. query /= NoQuery /\ query.at = "scanning" /\ query.rest /= {}
  BY DEF ReadSource, Scanning
<1>3. query \in Query /\ (query.paged \/ Len(query.returned) <= TimelineLimit)
  BY <1>1, <1>2 DEF QueryOK
<1>4. s \in query.rest /\ s \in Sources
  BY <1>1, <1>2, NextSourceIs
<1>5. Turns(r)
  BY <1>3 DEF ReadSource, Turns, Query
<1>6. /\ new \subseteq Found /\ IsFiniteSet(new)
      /\ \A f \in new : /\ f.source = s /\ f.line \in Lines(files[s])
                        /\ f.event = files[s][f.line].text /\ Matches(query, f.event)
  BY <1>1, <1>4, ReadFileIs
<1>7. Sees(query)
  BY <1>1, <1>2, SeesIs
<1>8. ASSUME NEW f \in Standing, f.source = s
      PROVE  f \in new
  <2>1. Noted(query, f) /\ ~Destroyed(f) /\ f \in Found
    BY <1>3, <1>7, <1>8 DEF Sees, SeenBy, Standing, Query
  <2>2. f.line \in Lines(files[s]) /\ f.event = files[s][f.line].text /\ Matches(query, f.event)
    BY <1>8, <2>1 DEF Noted, Stands, Destroyed, LineOf, Lines
  <2>3. f = [event |-> files[s][f.line].text, source |-> s, line |-> f.line]
    BY <1>8, <2>1, <2>2 DEF Found
  <2>. QED  BY <2>2, <2>3 DEF ReadFile
<1>. HIDE DEF s, new
<1>9. /\ r \in Query /\ r.rest = query.rest \ {s} /\ r.found = query.found \cup new
      /\ r.at = query.at /\ r.paged = query.paged /\ r.failures = query.failures
      /\ r.filter = query.filter /\ r.sources = query.sources /\ r.returned = query.returned
      /\ r.more = query.more /\ r.existed = query.existed /\ r.loose = query.loose
  BY <1>3, <1>6 DEF Query
<1>. HIDE DEF r
<1>10. \A e : Matches(r, e) <=> Matches(query, e)
  BY <1>9 DEF Matches, DocumentPredicate, AuditPredicate
<1>11. SeenBy(r) = SeenBy(query) \cup new
  BY <1>9 DEF SeenBy
<1>12. Sees(r)
  <2>1. /\ query.rest \subseteq query.sources /\ IsFiniteSet(query.found)
        /\ \A f \in SeenBy(query) : Noted(query, f)
        /\ Distinct(SeenBy(query)) /\ Safe(query)
    BY <1>7 DEF Sees
  <2>2. \A f \in new : f.event.kind \in Ends => f.event.kind = call[f.event.call].end
    BY <1>1, <1>4, <1>6 DEF FileInv
  <2>3. \A f \in new : Noted(query, f) /\ Stands(f) /\ ~Destroyed(f)
    BY <1>4, <1>6, <2>1, <2>2 DEF Noted, Stands, Destroyed, LineOf, Lines
  <2>4. \A f \in SeenBy(r) : Noted(r, f)
    BY <1>9, <1>10, <1>11, <2>1, <2>3 DEF Noted
  <2>5. ASSUME NEW f \in new, NEW g \in SeenBy(r), f.source = g.source, f.line = g.line
        PROVE  f.event = g.event
    <3>1. Stands(f) /\ ~Destroyed(f) /\ (Stands(g) \/ Destroyed(g))
      BY <2>3, <2>4 DEF Noted
    <3>. QED  BY <2>5, <3>1 DEF Stands, Destroyed, LineOf
  <2>6. Distinct(SeenBy(r))
    BY <1>11, <2>1, <2>5 DEF Distinct
  <2>7. IsFiniteSet(r.found)
    <3>1. IsFiniteSet(query.found \cup new)
      BY <1>6, <2>1, FS_Union
    <3>. QED  BY <1>9, <3>1
  <2>8. Safe(r) /\ r.rest \subseteq r.sources
    BY <1>9, <2>1 DEF Safe
  <2>. QED  BY <2>4, <2>6, <2>7, <2>8 DEF Sees
<1>13. TypeOK' /\ CallInv' /\ FileInv' /\ SeenInv' /\ query' = r
  BY <1>3, <1>5, <1>9, <1>12, QueryTurns
<1>14. Standing' = Standing
  BY <1>5, <1>9, <1>13 DEF Standing, Destroyed, Turns
<1>15. \A f \in Standing : f.source \notin r.rest => f \in r.found
  BY <1>1, <1>2, <1>8, <1>9 DEF PageInv
<1>16. PageInv'
  BY <1>1, <1>2, <1>9, <1>13, <1>14, <1>15 DEF PageInv
<1>. QED  BY <1>13, <1>16 DEF IInv

LEMMA NextPageStep ==
  ASSUME IInv, NextPage
  PROVE  IInv'
<1>. DEFINE r == [[query EXCEPT !.at = "scanning"] EXCEPT !.rest = query.sources]
<1>1. QueryOK /\ SeenInv /\ PageInv
  BY TypeParts DEF IInv
<1>2. query /= NoQuery /\ query.paged
  BY DEF NextPage
<1>3. query \in Query
  BY <1>1, <1>2 DEF QueryOK
<1>4. Turns(r)
  BY <1>3 DEF NextPage, Turns, Query
<1>5. /\ r \in Query /\ r.rest = query.sources /\ r.at = "scanning" /\ r.found = query.found
      /\ r.paged = query.paged /\ r.failures = query.failures
      /\ r.filter = query.filter /\ r.sources = query.sources /\ r.returned = query.returned
      /\ r.more = query.more /\ r.existed = query.existed /\ r.loose = query.loose
  BY <1>3 DEF Query
<1>. HIDE DEF r
<1>6. Sees(query)
  BY <1>1, <1>2, SeesIs
<1>7. Sees(r)
  <2>1. SeenBy(r) = SeenBy(query)
    BY <1>5 DEF SeenBy
  <2>. QED  BY <1>1, <1>2, <1>5, <1>6, <2>1, SeesOn DEF Sees
<1>8. TypeOK' /\ CallInv' /\ FileInv' /\ SeenInv' /\ query' = r
  BY <1>2, <1>4, <1>5, <1>7, QueryTurns
<1>9. \A f \in Standing : f.source \in r.rest
  BY <1>5, <1>6 DEF Sees, SeenBy, Noted, Standing
<1>10. Standing' = Standing
  BY <1>4, <1>5, <1>8 DEF Standing, Destroyed, Turns
<1>11. PageInv'
  BY <1>1, <1>2, <1>5, <1>8, <1>9, <1>10 DEF PageInv
<1>. QED  BY <1>8, <1>11 DEF IInv

\* What an answer adds to the pages before it.
LEMMA AnswerAdds ==
  ASSUME IInv, query /= NoQuery, query.at = "scanning", query.rest = {}
  PROVE  LET all == query.returned \o Page(query) IN
         /\ all \in Seq(Found)
         /\ query.paged \/ Len(all) <= TimelineLimit
         /\ ToSet(all) \subseteq ToSet(query.returned) \cup query.found
         /\ query.paged => \A k \in DOMAIN all, n \in DOMAIN all : k < n => Before(all[n], all[k])
         /\ query.paged /\ all /= << >> =>
              \A f \in Standing : Before(f, Last(all)) \/ f \in ToSet(all)
         /\ ~HasMore(query) => Standing \subseteq ToSet(all)
<1>. DEFINE old == query.returned
            page == Page(query)
            S == Remaining(query)
            M == Len(page)
            O == Len(old)
            all == old \o page
<1>1. WorldOK /\ QueryOK /\ FileInv /\ SeenInv /\ PageInv
  BY TypeParts DEF IInv
<1>2. query \in Query /\ (query.paged \/ O <= TimelineLimit)
  BY <1>1 DEF QueryOK
<1>3. /\ page \in Seq(S) /\ M \in Nat /\ M <= Limit(query) /\ DOMAIN page = 1 .. M
      /\ \A i, j \in 1 .. M : i < j => Precedes(page[i], page[j])
      /\ \A f \in S : f \in ToSet(page) \/ (M # 0 /\ Precedes(page[M], f))
      /\ ~HasMore(query) => S \subseteq ToSet(page)
  BY <1>1, PageIs
<1>4. S \subseteq query.found /\ query.found \subseteq Found
  BY <1>2 DEF Remaining, Query
<1>5. old \in Seq(Found) /\ O \in Nat /\ DOMAIN old = 1 .. O
  BY <1>2, LenProperties DEF Query
<1>6. \A f \in S : old = << >> \/ Before(f, Last(old))
  BY DEF Remaining, Beyond
<1>7. \A f \in query.found : f \in S \/ (old /= << >> /\ ~Before(f, Last(old)))
  BY DEF Remaining, Beyond
<1>8. \A f \in Standing : f \in query.found
  BY <1>1 DEF PageInv
<1>9. query.paged \/ old = << >>
  BY <1>1 DEF PageInv
<1>. HIDE DEF page, S, old
<1>10. page \in Seq(Found)
  <2>1. \A i \in 1 .. M : page[i] \in Found
    BY <1>3, <1>4, LenProperties
  <2>. QED  BY <1>3, <2>1, SeqDef, LenProperties
<1>11. /\ all \in Seq(Found) /\ Len(all) = O + M /\ DOMAIN all = 1 .. O + M
       /\ \A i \in 1 .. O + M : all[i] = IF i <= O THEN old[i] ELSE page[i - O]
  BY <1>3, <1>5, <1>10, ConcatProperties, LenProperties
<1>12. \A i \in 1 .. O : i \in 1 .. O + M /\ all[i] = old[i]
  BY <1>3, <1>5, <1>11
<1>13. \A i \in 1 .. M : O + i \in 1 .. O + M /\ all[O + i] = page[i]
  BY <1>3, <1>5, <1>11
<1>14. \A i \in 1 .. O + M : i \in 1 .. O \/ (i - O \in 1 .. M /\ O + (i - O) = i)
  BY <1>3, <1>5
<1>. HIDE DEF all
<1>15. \A i \in 1 .. M : page[i] \in S
  BY <1>3, LenProperties
<1>16. ToSet(all) = ToSet(old) \cup ToSet(page)
  <2>1. \A i \in 1 .. O + M : all[i] \in ToSet(old) \cup ToSet(page)
    <3>. SUFFICES ASSUME NEW i \in 1 .. O + M
         PROVE  all[i] \in ToSet(old) \cup ToSet(page)
      OBVIOUS
    <3>1. CASE i \in 1 .. O
      BY <1>5, <1>12, <3>1 DEF ToSet
    <3>2. CASE i - O \in 1 .. M /\ O + (i - O) = i
      <4>1. all[i] = page[i - O]
        BY <1>13, <3>2
      <4>. QED  BY <1>3, <3>2, <4>1 DEF ToSet
    <3>. QED  BY <1>14, <3>1, <3>2
  <2>2. \A i \in 1 .. O : old[i] \in ToSet(all)
    BY <1>11, <1>12 DEF ToSet
  <2>3. \A i \in 1 .. M : page[i] \in ToSet(all)
    BY <1>11, <1>13 DEF ToSet
  <2>4. /\ ToSet(all) = {all[i] : i \in 1 .. O + M}
        /\ ToSet(old) = {old[i] : i \in 1 .. O}
        /\ ToSet(page) = {page[i] : i \in 1 .. M}
    BY <1>3, <1>5, <1>11 DEF ToSet
  <2>5. ToSet(all) \subseteq ToSet(old) \cup ToSet(page)
    BY <2>1, <2>4
  <2>6. ToSet(old) \subseteq ToSet(all) /\ ToSet(page) \subseteq ToSet(all)
    BY <2>2, <2>3, <2>4
  <2>. QED  BY <2>5, <2>6
<1>17. ToSet(page) \subseteq S
  BY <1>3, <1>15 DEF ToSet
<1>18. query.paged \/ Len(all) <= TimelineLimit
  <2>. SUFFICES ASSUME ~query.paged
       PROVE  Len(all) <= TimelineLimit
    OBVIOUS
  <2>1. old = << >> /\ Limit(query) = TimelineLimit /\ TimelineLimit \in Nat
    BY <1>9, LogAssumption DEF Limit
  <2>2. O = 0
    BY <2>1, EmptySeq
  <2>. HIDE DEF O, M
  <2>. QED  BY <1>3, <1>11, <2>1, <2>2
<1>19. \A f, g, h \in Found : Before(f, g) /\ Before(g, h) => Before(f, h)
  BY BeforeOrders
<1>20. ASSUME query.paged
       PROVE  \A k \in DOMAIN all, n \in DOMAIN all : k < n => Before(all[n], all[k])
  <2>. SUFFICES ASSUME NEW k \in 1 .. O + M, NEW n \in 1 .. O + M, k < n
       PROVE  Before(all[n], all[k])
    BY <1>11
  <2>1. CASE k \in 1 .. O /\ n \in 1 .. O
    <3>1. Before(old[n], old[k])
      BY <1>1, <1>5, <1>20, <2>1 DEF PageInv, old
    <3>. QED  BY <1>12, <2>1, <3>1
  <2>2. CASE k \in 1 .. O /\ n - O \in 1 .. M
    <3>1. all[n] = page[n - O] /\ all[n] \in S /\ all[k] = old[k]
      <4>1. O + (n - O) = n
        BY <1>5
      <4>2. all[O + (n - O)] = page[n - O] /\ page[n - O] \in S
        BY <1>13, <1>15, <2>2
      <4>3. all[k] = old[k]
        BY <1>12, <2>2
      <4>. QED  BY <4>1, <4>2, <4>3
    <3>2. O \in 1 .. O /\ Last(old) = old[O] /\ old /= << >>
      <4>1. O \in 1 .. O
        BY <1>5, <2>2
      <4>2. old /= << >>
        BY <1>5, <4>1, EmptySeq
      <4>. QED  BY <4>1, <4>2 DEF Last
    <3>3. Before(all[n], old[O])
      BY <1>6, <3>1, <3>2
    <3>4. CASE k = O
      BY <3>1, <3>3, <3>4
    <3>5. CASE k < O
      <4>1. Before(old[O], old[k])
        BY <1>1, <1>5, <1>20, <2>2, <3>2, <3>5 DEF PageInv, old
      <4>2. old[O] \in Found /\ old[k] \in Found /\ all[n] \in Found
        BY <1>4, <1>5, <2>2, <3>1, <3>2, LenProperties
      <4>. QED  BY <1>19, <3>1, <3>3, <4>1, <4>2
    <3>6. k = O \/ k < O
      <4>1. O \in Nat /\ k \in 1 .. O
        BY <1>5, <2>2
      <4>. HIDE DEF O
      <4>. QED  BY <4>1
    <3>. QED  BY <3>4, <3>5, <3>6
  <2>3. CASE k - O \in 1 .. M /\ n - O \in 1 .. M
    <3>1. k - O < n - O
      BY <1>5
    <3>2. Before(page[n - O], page[k - O])
      BY <1>3, <1>20, <2>3, <3>1 DEF Precedes
    <3>3. all[n] = page[n - O] /\ all[k] = page[k - O]
      BY <1>13, <1>5, <2>3
    <3>. QED  BY <3>2, <3>3
  <2>4. ~(k - O \in 1 .. M /\ n \in 1 .. O)
    BY <1>3, <1>5
  <2>. QED  BY <1>14, <2>1, <2>2, <2>3, <2>4
<1>21. ASSUME query.paged, all /= << >>, NEW f \in Standing
       PROVE  Before(f, Last(all)) \/ f \in ToSet(all)
  <2>1. CASE f \in S
    <3>1. CASE f \in ToSet(page)
      BY <1>16, <3>1
    <3>2. CASE M # 0 /\ Precedes(page[M], f)
      <4>1. Last(all) = all[O + M]
        BY <1>11 DEF Last
      <4>2. M \in 1 .. M
        BY <1>3, <3>2
      <4>3. all[O + M] = page[M]
        BY <1>13, <4>2
      <4>. QED  BY <1>21, <3>2, <4>1, <4>3 DEF Precedes
    <3>. QED  BY <1>3, <2>1, <3>1, <3>2
  <2>2. CASE f \notin S
    <3>1. old /= << >> /\ ~Before(f, Last(old))
      BY <1>7, <1>8, <2>2
    <3>2. f \in ToSet(old)
      BY <1>1, <1>21, <3>1 DEF PageInv, old
    <3>. QED  BY <1>16, <3>2
  <2>. QED  BY <2>1, <2>2
<1>22. ASSUME ~HasMore(query), NEW f \in Standing
       PROVE  f \in ToSet(all)
  <2>1. CASE f \in S
    BY <1>3, <1>16, <1>22, <2>1
  <2>2. CASE f \notin S
    <3>1. old /= << >> /\ ~Before(f, Last(old))
      BY <1>7, <1>8, <2>2
    <3>2. f \in ToSet(old)
      BY <1>1, <1>9, <3>1 DEF PageInv, old
    <3>. QED  BY <1>16, <3>2
  <2>. QED  BY <2>1, <2>2
<1>23. ToSet(all) \subseteq ToSet(old) \cup query.found
  BY <1>4, <1>16, <1>17
<1>. QED  BY <1>11, <1>18, <1>20, <1>21, <1>22, <1>23 DEF all, old, page

LEMMA AnswerStep ==
  ASSUME IInv, Answer
  PROVE  IInv'
<1>. DEFINE all == query.returned \o Page(query)
            r == [[[[query EXCEPT !.returned = all] EXCEPT !.found = {}]
                     EXCEPT !.more = HasMore(query)] EXCEPT !.at = "answered"]
<1>1. QueryOK /\ SeenInv
  BY TypeParts DEF IInv
<1>2. query /= NoQuery /\ query.at = "scanning" /\ query.rest = {}
  BY DEF Answer, Scanning
<1>3. query \in Query
  BY <1>1, <1>2 DEF QueryOK
<1>4. /\ all \in Seq(Found)
      /\ query.paged \/ Len(all) <= TimelineLimit
      /\ ToSet(all) \subseteq ToSet(query.returned) \cup query.found
      /\ query.paged => \A k \in DOMAIN all, n \in DOMAIN all : k < n => Before(all[n], all[k])
      /\ query.paged /\ all /= << >> =>
           \A f \in Standing : Before(f, Last(all)) \/ f \in ToSet(all)
      /\ ~HasMore(query) => Standing \subseteq ToSet(all)
  BY <1>2, AnswerAdds
<1>5. Turns(r)
  BY <1>3 DEF Answer, Turns, Query
<1>6. HasMore(query) \in BOOLEAN
  BY DEF HasMore
<1>. HIDE DEF all, HasMore
<1>7. /\ r \in Query /\ r.returned = all /\ r.found = {} /\ r.more = HasMore(query)
      /\ r.at = "answered" /\ r.rest = query.rest
      /\ r.paged = query.paged /\ r.failures = query.failures
      /\ r.filter = query.filter /\ r.sources = query.sources
      /\ r.existed = query.existed /\ r.loose = query.loose
  BY <1>3, <1>4, <1>6 DEF Query
<1>. HIDE DEF r
<1>8. Sees(r)
  <2>1. Sees(query)
    BY <1>1, <1>2, SeesIs
  <2>2. SeenBy(r) \subseteq SeenBy(query)
    BY <1>4, <1>7 DEF SeenBy
  <2>3. IsFiniteSet(r.found)
    BY <1>7, FS_EmptySet
  <2>. QED  BY <1>1, <1>2, <1>7, <2>1, <2>2, <2>3, SeesOn DEF Sees
<1>9. TypeOK' /\ CallInv' /\ FileInv' /\ SeenInv' /\ query' = r
  BY <1>4, <1>5, <1>7, <1>8, QueryTurns
<1>10. Standing' = Standing
  BY <1>5, <1>7, <1>9 DEF Standing, Destroyed, Turns
<1>11. PageInv'
  BY <1>4, <1>7, <1>9, <1>10 DEF PageInv
<1>. QED  BY <1>9, <1>11 DEF IInv

-----------------------------------------------------------------------------
(* The invariant.                                                          *)

LEMMA Beginning ==
  ASSUME Init
  PROVE  IInv
<1>1. PICK w \in Writers :
        call = [c \in Calls |-> [source |-> w[c], effect |-> FALSE, end |-> "none",
                                 event |-> NoEvent, at |-> "begin"]]
  BY DEF Init
<1>2. \A c \in Calls : w[c] \in Sources
  BY LogAssumption
<1>3. call \in [Calls -> Call] /\ \A c \in Calls : Sound(c, call[c])
  BY <1>1, <1>2 DEF Call, Sound
<1>4. now \in Times /\ faults \in 0 .. MaxFaults
  BY LogAssumption DEF Init, Times
<1>5. \A s \in Sources : files[s] = << >> /\ Len(files[s]) = 0 /\ Lines(files[s]) = {}
  BY EmptySeq DEF Init, Lines
<1>6. files \in [Sources -> Seq(Line)]
  BY EmptySeq DEF Init
<1>7. WorldOK /\ QueryOK
  BY <1>3, <1>4, <1>6 DEF WorldOK, QueryOK, Init
<1>8. CallInv
  BY <1>3, CallInvIs
<1>9. \A s : Cardinality(Spent(s)) \in Nat
  BY SpentIs DEF Spent
<1>10. FileInv
  <2>. SUFFICES ASSUME NEW s \in Sources
       PROVE  Len(files[s]) <= Cardinality(Spent(s)) /\ Lines(files[s]) = {}
    BY DEF FileInv
  <2>1. Len(files[s]) = 0 /\ Lines(files[s]) = {} /\ Cardinality(Spent(s)) \in Nat
    BY <1>5, <1>9
  <2>. QED  BY <2>1
<1>11. SeenInv /\ PageInv
  BY DEF SeenInv, PageInv, Init
<1>. QED  BY <1>7, <1>8, <1>10, <1>11, TypeParts DEF IInv

\* The clock goes on, a scan gives up, or nothing happens.
LEMMA Rests ==
  ASSUME IInv, Tick \/ ReadFails \/ UNCHANGED vars
  PROVE  IInv'
<1>1. WorldOK /\ QueryOK /\ CallInv /\ FileInv /\ SeenInv /\ PageInv
  BY TypeParts DEF IInv
<1>2. /\ UNCHANGED <<files, call, faults>> /\ now' \in Times
      /\ query' = query \/ query' = NoQuery
  BY <1>1, LogAssumption DEF Tick, ReadFails, vars, WorldOK, Times
<1>3. WorldOK' /\ QueryOK'
  BY <1>1, <1>2 DEF WorldOK, QueryOK
<1>4. CallInv' /\ FileInv'
  BY <1>1, <1>2 DEF CallInv, FileInv, At, Spent, Lines
<1>5. SeenInv' /\ PageInv'
  <2>1. CASE query' = query
    BY <1>1, <1>2, <2>1, SeenStays DEF Kept
  <2>2. CASE query' = NoQuery
    BY <2>2 DEF SeenInv, PageInv
  <2>. QED  BY <1>2, <2>1, <2>2
<1>. QED  BY <1>3, <1>4, <1>5, TypeWill DEF IInv

LEMMA QueryKeeps ==
  ASSUME IInv, QueryStep
  PROVE  IInv'
<1>1. PICK filter \in Filters : DocumentQuery(filter) \/ AuditQuery(filter)
  BY DEF QueryStep
<1>2. ToSet(Documents) \in SUBSET Sources /\ {AgentTool} \in SUBSET Sources
  BY DEF Sources
<1>3. \E paged \in BOOLEAN, failures \in BOOLEAN, sources \in SUBSET Sources :
        Asks(Asked(paged, failures, filter, sources))
  BY <1>1, <1>2 DEF DocumentQuery, AuditQuery, QueryDocumentBusinessLogs, GetDocumentTimeline,
       GetDocumentExecutionTimeline, GetDocumentFailureTimeline, QueryAgentToolAudits, GetToolTimeline
<1>. QED  BY <1>3, AskedStep

\* The inductive invariant holds in every state.
THEOREM Invariance == Spec => []IInv
<1>1. Init => IInv
  BY Beginning
<1>2. IInv /\ [Next]_vars => IInv'
  BY WriterKeeps, QueryKeeps, ReadSourceStep, AnswerStep, NextPageStep, Rests DEF Next
<1>. QED  BY <1>1, <1>2, PTL DEF Spec

\* Every state is well-formed; in particular an audited call or a stage leaves at most
\* two lines, and a time line holds no more events than its limit.
THEOREM TypeCorrect == Spec => []TypeOK
<1>1. IInv => TypeOK
  BY DEF IInv
<1>. QED  BY <1>1, Invariance, PTL

\* Only an event without a line feed can be destroyed.
LEMMA DestroyedIs ==
  ASSUME IInv, query /= NoQuery
  PROVE  \A f \in query.existed : f \in Standing \/ (f \in query.loose /\ Destroyed(f))
<1>. SUFFICES ASSUME NEW f \in query.existed, f \notin query.loose
     PROVE  ~Destroyed(f)
  BY DEF Standing
<1>1. QueryOK /\ SeenInv
  BY TypeParts DEF IInv
<1>2. f \in Found
  BY <1>1 DEF QueryOK, Query
<1>3. LineOf(f).text = f.event /\ f.event \in Event
  BY <1>1, <1>2 DEF SeenInv, Stands, Found
<1>4. f.event.kind \notin Broken
  BY <1>3, NoEventIs DEF Broken, Ends
<1>. QED  BY <1>3, <1>4 DEF Destroyed, LineOf

\* Who follows the cursors of scan to the last page has seen every event that matched
\* when the first page was asked for, newest first and none twice, however the logs
\* have grown meanwhile and in whatever order their clocks stamped the events, but for
\* an event whose line had no line feed and was destroyed by a later write.
THEOREM PagesAreComplete == Spec => []PagesComplete
<1>1. ASSUME IInv
      PROVE  PagesComplete
  <2>. SUFFICES ASSUME query /= NoQuery, query.at = "answered", query.paged
       PROVE  /\ \A k \in DOMAIN query.returned, n \in DOMAIN query.returned :
                   k < n => Before(query.returned[n], query.returned[k])
              /\ ~query.more => \A f \in query.existed :
                   f \in ToSet(query.returned) \/ (f \in query.loose /\ Destroyed(f))
    BY DEF PagesComplete, Answered
  <2>1. PageInv
    BY <1>1 DEF IInv
  <2>2. \A f \in query.existed : f \in Standing \/ (f \in query.loose /\ Destroyed(f))
    BY <1>1, DestroyedIs
  <2>. QED  BY <2>1, <2>2 DEF PageInv
<1>. QED  BY <1>1, Invariance, PTL

\* What a time line says of a call.
LEMMA OutcomeIs ==
  ASSUME IInv, query /= NoQuery
  PROVE  /\ \A c : \/ Outcome(query, c) = "none"
                   \/ c \in Calls /\ Outcome(query, c) = call[c].end /\ call[c].end \in Ends
         /\ \A f \in ToSet(query.returned) :
              f.event.kind \in Ends => Outcome(query, f.event.call) = f.event.kind
<1>. DEFINE ends(c) == {f \in ToSet(query.returned) : f.event.call = c /\ f.event.kind \in Ends}
<1>1. WorldOK /\ QueryOK /\ SeenInv
  BY TypeParts DEF IInv
<1>2. ASSUME NEW f \in ToSet(query.returned), f.event.kind \in Ends
      PROVE  f.event.call \in Calls /\ f.event.kind = call[f.event.call].end
  <2>1. f \in Seen
    BY DEF Seen
  <2>2. f \in Found
    <3>1. query.returned \in Seq(Found)
      BY <1>1 DEF QueryOK, Query
    <3>. QED  BY <3>1, LenProperties DEF ToSet
  <2>3. f.event \in Event
    BY <2>2 DEF Found
  <2>4. f.event.kind = call[f.event.call].end
    BY <1>1, <1>2, <2>1 DEF SeenInv
  <2>. QED  BY <2>3, <2>4, NoEventIs
<1>3. \A c : Outcome(query, c) = IF ends(c) = {} THEN "none"
                                 ELSE (CHOOSE f \in ends(c) : TRUE).event.kind
  BY DEF Outcome
<1>4. ASSUME NEW c, ends(c) /= {}
      PROVE  c \in Calls /\ Outcome(query, c) = call[c].end /\ call[c].end \in Ends
  <2>. DEFINE f == CHOOSE f \in ends(c) : TRUE
  <2>1. f \in ends(c)
    BY <1>4
  <2>2. Outcome(query, c) = f.event.kind
    BY <1>3, <1>4
  <2>. HIDE DEF f
  <2>3. f \in ToSet(query.returned) /\ f.event.call = c /\ f.event.kind \in Ends
    BY <2>1
  <2>. QED  BY <1>2, <2>2, <2>3
<1>5. \A c : ends(c) = {} => Outcome(query, c) = "none"
  BY <1>3
<1>6. ASSUME NEW f \in ToSet(query.returned), f.event.kind \in Ends
      PROVE  Outcome(query, f.event.call) = f.event.kind
  <2>1. f \in ends(f.event.call)
    BY <1>6
  <2>2. Outcome(query, f.event.call) = call[f.event.call].end
    BY <1>4, <2>1
  <2>. QED  BY <1>2, <1>6, <2>2
<1>. HIDE DEF ends
<1>. QED  BY <1>4, <1>5, <1>6

\* What _aggregate_invocations tells of a call is how it ended, and of none that it has
\* succeeded whose effect is not in the database; unless the time line says that it is
\* cut off, no end that was in the log when it was asked for is missing, but for one
\* whose line had no line feed and was destroyed by a later write.
THEOREM TimelinesAreTrue == Spec => []TimelineTellsTheTruth
<1>1. ASSUME IInv
      PROVE  TimelineTellsTheTruth
  <2>. SUFFICES ASSUME query /= NoQuery, query.at = "answered", ~query.paged
       PROVE  /\ \A c \in Invocations(query) :
                   /\ Outcome(query, c) \in {"none", call[c].end}
                   /\ Outcome(query, c) = "succeeded" => call[c].effect
              /\ ~query.more => \A f \in query.existed :
                   \/ f.event.kind \in Ends => Outcome(query, f.event.call) = f.event.kind
                   \/ f \in query.loose /\ Destroyed(f)
    BY DEF TimelineTellsTheTruth, Answered
  <2>1. ASSUME NEW c
        PROVE  /\ Outcome(query, c) \in {"none", call[c].end}
               /\ Outcome(query, c) = "succeeded" => call[c].effect
    <3>1. \/ Outcome(query, c) = "none"
          \/ c \in Calls /\ Outcome(query, c) = call[c].end
      BY <1>1, OutcomeIs
    <3>2. c \in Calls => (call[c].end = "succeeded" => call[c].effect)
      BY <1>1 DEF IInv, CallInv
    <3>. QED  BY <3>1, <3>2
  <2>2. ~query.more => Standing \subseteq ToSet(query.returned)
    BY <1>1 DEF IInv, PageInv
  <2>3. \A f \in query.existed : f \in Standing \/ (f \in query.loose /\ Destroyed(f))
    BY <1>1, DestroyedIs
  <2>. QED  BY <1>1, <2>1, <2>2, <2>3, OutcomeIs
<1>. QED  BY <1>1, Invariance, PTL
=============================================================================
