------------------------- MODULE ShardedQueryProofs -------------------------
(***************************************************************************)
(* Theorems about ShardedQuery, for any queries, rows and permits: the     *)
(* plan is sound, permits are not exceeded, what a call reports is what    *)
(* its bands brought, every step brings it nearer to an end, and it is     *)
(* never stuck before.                                                     *)
(***************************************************************************)
EXTENDS ShardedQuery, ShardPlanProofs

(* The plan *)

\* The plan is that of the query.
Planned ==
    /\ query \in Queries
    /\ \E width \in Widths : plan = PlanQuery(query, width)

\* Where a chunk begins and ends, on days that the query asks for.
LEMMA ChunkEnds ==
  ASSUME NEW q, IsQuery(q), q.days # Absent,
         NEW k \in DOMAIN Chunks(q.days[1], q.days[2])
  PROVE  LET c == Chunks(q.days[1], q.days[2])[k]
             start == ToOrd(q.days[1])
             end == ToOrd(q.days[2])
         IN /\ k \in Nat \ {0}
            /\ c.from \in Days(q) /\ c.to \in Days(q)
            /\ ToOrd(c.from) = start + (k - 1) * MaxSpanDays
            /\ ToOrd(c.to) = Lesser(start + k * MaxSpanDays - 1, end)
<1> DEFINE start == ToOrd(q.days[1])
           end == ToOrd(q.days[2])
           c == Chunks(q.days[1], q.days[2])[k]
           n == (end - start) \div MaxSpanDays
           p == (k - 1) * MaxSpanDays
           lo == start + p
           hi == Lesser(start + k * MaxSpanDays - 1, end)
<1>1. start \in Int /\ end \in Int /\ MaxSpanDays \in Nat \ {0}
  BY DaysAreDates, OrdIsInt, PlanAssumption
<1>2. k \in 1..(n + 1)
  BY Zenon DEF Chunks
<1>3. c = [right |-> Own, from |-> FromOrd(lo), to |-> FromOrd(hi)]
  BY <1>2, Zenon DEF Chunks
<1>4. n \in Int
  BY <1>1, Quotient, SMT
<1>5. k \in Nat \ {0} /\ k - 1 \in Int /\ k - 1 <= n
  BY <1>2, <1>4, SMT
<1>6. MaxSpanDays * (k - 1) <= end - start
  <2>1. end - start \in Int
    BY <1>1, SMT
  <2> QED
    BY <1>1, <1>5, <2>1, QuotientAtLeast, Zenon
<1>7. p \in Int /\ 0 <= p /\ p <= end - start /\ k * MaxSpanDays = p + MaxSpanDays
  BY <1>1, <1>5, <1>6, Z3
<1> HIDE DEF p, c
<1>8. lo \in Int /\ hi \in Int /\ start <= lo /\ lo <= hi /\ hi <= end
  <2> HIDE DEF start, end
  <2> QED
    BY <1>1, <1>7, SMT DEF Lesser
<1> HIDE DEF lo, hi
<1>9. /\ FromOrd(lo) \in Date /\ ToOrd(FromOrd(lo)) = lo
      /\ FromOrd(hi) \in Date /\ ToOrd(FromOrd(hi)) = hi
  BY <1>8, EveryOrdIsADate, Zenon
<1>10. ASSUME NEW d \in Date, start <= ToOrd(d), ToOrd(d) <= end
       PROVE  d \in Days(q)
  BY <1>10, DaysAreDates, DatesInOrder, Zenon
<1>11. FromOrd(lo) \in Days(q) /\ FromOrd(hi) \in Days(q)
  <2>1. start <= hi /\ lo <= end
    BY <1>1, <1>8, SMT
  <2> QED
    BY <1>8, <1>9, <1>10, <2>1, Zenon
<1> HIDE DEF start, end
<1>12. c.from = FromOrd(lo) /\ c.to = FromOrd(hi)
  BY <1>3, Zenon
<1> QED
  BY <1>5, <1>9, <1>11, <1>12, Zenon DEF c, start, end, lo, hi, p

\* The days of a chunk, counted from the first that the query asks for.
LEMMA ChunkCovers ==
  ASSUME NEW q, IsQuery(q), q.days # Absent,
         NEW k \in DOMAIN Chunks(q.days[1], q.days[2]), NEW d \in Days(q)
  PROVE  LET x == ToOrd(d) - ToOrd(q.days[1])
         IN /\ x \in Nat /\ x <= ToOrd(q.days[2]) - ToOrd(q.days[1])
            /\ Covers(Chunks(q.days[1], q.days[2])[k], d)
                 <=> MaxSpanDays * (k - 1) <= x /\ x < MaxSpanDays * (k - 1) + MaxSpanDays
<1> DEFINE start == ToOrd(q.days[1])
           end == ToOrd(q.days[2])
           c == Chunks(q.days[1], q.days[2])[k]
           p == MaxSpanDays * (k - 1)
<1>1. /\ k \in Nat \ {0} /\ c.from \in Date /\ c.to \in Date /\ d \in Date
      /\ ToOrd(c.from) = start + (k - 1) * MaxSpanDays
      /\ ToOrd(c.to) = Lesser(start + k * MaxSpanDays - 1, end)
      /\ AtMost(q.days[1], d) /\ AtMost(d, q.days[2])
      /\ q.days[1] \in Date /\ q.days[2] \in Date
  BY ChunkEnds, DaysAreDates
<1>2. start \in Int /\ end \in Int /\ ToOrd(d) \in Int /\ start <= ToOrd(d) /\ ToOrd(d) <= end
  BY <1>1, OrdIsInt, DatesInOrder
<1>3. MaxSpanDays \in Nat \ {0}
  BY PlanAssumption
<1>4. p \in Int /\ (k - 1) * MaxSpanDays = p /\ k * MaxSpanDays = p + MaxSpanDays
  BY <1>1, <1>3, Z3
<1>5. Covers(c, d) <=> ToOrd(c.from) <= ToOrd(d) /\ ToOrd(d) <= ToOrd(c.to)
  BY <1>1, DatesInOrder, Zenon DEF Covers
<1> HIDE DEF start, end, c, p
<1>6. Covers(c, d) <=> p <= ToOrd(d) - start /\ ToOrd(d) - start < p + MaxSpanDays
  BY <1>1, <1>2, <1>3, <1>4, <1>5, SMT DEF Lesser
<1>7. ToOrd(d) - start \in Nat /\ ToOrd(d) - start <= end - start
  BY <1>2, SMT
<1> QED
  BY <1>6, <1>7, Zenon DEF start, end, c, p

\* Each day of a range is in one of the chunks the range is cut into, and in no other
\* (mdds/shard.rs:224).
THEOREM ChunksPartition ==
  ASSUME NEW q, IsQuery(q), q.days # Absent, NEW d \in Days(q)
  PROVE  \E k \in DOMAIN Chunks(q.days[1], q.days[2]) :
           \A j \in DOMAIN Chunks(q.days[1], q.days[2]) :
             Covers(Chunks(q.days[1], q.days[2])[j], d) <=> j = k
<1> DEFINE start == ToOrd(q.days[1])
           end == ToOrd(q.days[2])
           chunks == Chunks(q.days[1], q.days[2])
           x == ToOrd(d) - start
           n == (end - start) \div MaxSpanDays
           e == x \div MaxSpanDays
<1>1. MaxSpanDays \in Nat \ {0}
  BY PlanAssumption
<1>2. DOMAIN chunks = 1..(n + 1)
  BY Zenon DEF Chunks
<1>3. start \in Int /\ end \in Int
  BY DaysAreDates, OrdIsInt
<1>4. x \in Nat /\ x <= end - start
  <2>1. d \in Date /\ q.days[1] \in Date /\ q.days[2] \in Date
        /\ AtMost(q.days[1], d) /\ AtMost(d, q.days[2])
    BY DaysAreDates
  <2>2. ToOrd(d) \in Int /\ start <= ToOrd(d) /\ ToOrd(d) <= end
    BY <2>1, OrdIsInt, DatesInOrder
  <2> HIDE DEF start, end
  <2> QED
    BY <1>3, <2>2, SMT
<1> HIDE DEF x
<1>5. e \in Int /\ MaxSpanDays * e <= x /\ x < MaxSpanDays * e + MaxSpanDays
  BY <1>1, <1>4, Quotient
<1>6. e \in Nat /\ e <= n /\ n \in Int
  <2>1. MaxSpanDays * e <= end - start /\ MaxSpanDays * 0 <= x /\ end - start \in Int /\ x \in Int
    <3>1. MaxSpanDays * e \in Int
      BY <1>1, <1>5
    <3> HIDE DEF start, end, e
    <3> QED
      BY <1>1, <1>3, <1>4, <1>5, <3>1, SMT
  <2>2. e <= n /\ 0 <= e /\ n \in Int
    BY <1>1, <1>5, <2>1, QuotientAtLeast, Quotient
  <2> QED
    BY <1>5, <2>2, SMT
<1> HIDE DEF n
<1>7. e + 1 \in DOMAIN chunks /\ e + 1 - 1 = e
  BY <1>2, <1>5, <1>6, SMT
<1>8. ASSUME NEW j \in DOMAIN chunks
      PROVE  Covers(chunks[j], d)
               <=> MaxSpanDays * (j - 1) <= x /\ x < MaxSpanDays * (j - 1) + MaxSpanDays
  BY ChunkCovers DEF x
<1>9. ASSUME NEW j \in DOMAIN chunks, Covers(chunks[j], d)
      PROVE  j = e + 1
  <2> DEFINE p == MaxSpanDays * (j - 1)
  <2>1. j \in Int /\ j - 1 \in Int
    BY <1>2, <1>6, SMT
  <2>2. p \in Int /\ p <= x /\ x < p + MaxSpanDays
    BY <1>1, <1>8, <1>9, <2>1
  <2>3. x - p \in Int /\ 0 <= x - p /\ x - p < MaxSpanDays /\ x = p + (x - p) /\ x \in Int
    <3> HIDE DEF p
    <3> QED
      BY <1>1, <1>4, <2>2, SMT
  <2>4. e = j - 1
    BY <1>1, <2>1, <2>3, Divides
  <2> HIDE DEF e
  <2> QED
    BY <2>1, <2>4, SMT
<1>10. Covers(chunks[e + 1], d)
  BY <1>5, <1>7, <1>8
<1> HIDE DEF chunks, e
<1>11. \A j \in DOMAIN chunks : Covers(chunks[j], d) <=> j = e + 1
  BY <1>9, <1>10, Zenon
<1> QED
  BY <1>7, <1>11, Zenon DEF chunks

\* No chunk is longer than the server accepts, by the calendar (mdds/shard.rs:224).
THEOREM ChunksAreShort ==
  ASSUME NEW q, IsQuery(q), q.days # Absent,
         NEW k \in DOMAIN Chunks(q.days[1], q.days[2])
  PROVE  Cardinality({d \in Days(q) : Covers(Chunks(q.days[1], q.days[2])[k], d)})
           <= MaxSpanDays
<1> DEFINE c == Chunks(q.days[1], q.days[2])[k]
           S == {d \in Days(q) : Covers(c, d)}
           p == MaxSpanDays * (k - 1)
           T == p..(p + MaxSpanDays - 1)
           f == [d \in S |-> ToOrd(d) - ToOrd(q.days[1])]
<1>1. MaxSpanDays \in Nat \ {0} /\ k \in Nat \ {0}
  BY PlanAssumption, ChunkEnds
<1>2. p \in Int
  BY <1>1
<1>3. IsFiniteSet(T) /\ Cardinality(T) = MaxSpanDays
  <2> HIDE DEF p
  <2> DEFINE b == p + MaxSpanDays - 1
  <2>1. b \in Int /\ ~(p > b) /\ b - p + 1 = MaxSpanDays
    BY <1>1, <1>2, SMT
  <2> HIDE DEF b
  <2>2. IsFiniteSet(p..b) /\ Cardinality(p..b) = IF p > b THEN 0 ELSE b - p + 1
    BY <1>2, <2>1, FS_Interval
  <2> QED
    BY <2>1, <2>2, Zenon DEF b
<1>4. ASSUME NEW d \in S PROVE f[d] \in T
  <2>1. d \in Days(q) /\ Covers(c, d)
    OBVIOUS
  <2>2. f[d] = ToOrd(d) - ToOrd(q.days[1]) /\ f[d] \in Nat /\ p <= f[d] /\ f[d] < p + MaxSpanDays
    BY <2>1, ChunkCovers
  <2> HIDE DEF p, f, S
  <2> QED
    BY <1>1, <1>2, <2>2, SMT
<1>5. ASSUME NEW d \in S, NEW e \in S, f[d] = f[e] PROVE d = e
  <2>1. d \in Date /\ e \in Date /\ q.days[1] \in Date
    BY DaysAreDates
  <2>2. ToOrd(d) \in Int /\ ToOrd(e) \in Int /\ ToOrd(q.days[1]) \in Int
    BY <2>1, OrdIsInt, Zenon
  <2>3. f[d] = ToOrd(d) - ToOrd(q.days[1]) /\ f[e] = ToOrd(e) - ToOrd(q.days[1])
    OBVIOUS
  <2>4. ToOrd(d) = ToOrd(e)
    BY <1>5, <2>2, <2>3, SMT
  <2> QED
    BY <2>1, <2>4, RoundTripOfDate, Zenon
<1>6. f \in Injection(S, T)
  <2>1. f \in [S -> T]
    BY <1>4
  <2> QED
    BY <1>5, <2>1, Zenon DEF Injection, IsInjective
<1> HIDE DEF S, T, f
<1>7. Cardinality(S) <= MaxSpanDays
  BY <1>3, <1>6, FS_Injection
<1> QED
  BY <1>7 DEF S

\* The plan of a query loses nothing of it and asks for nothing twice.
LEMMA PlannedIsSound ==
  ASSUME Planned
  PROVE  PlanIsSound
<1>1. IsQuery(query) /\ AskedOf[query] = Asked(query)
  BY QueryAssumption, Zenon DEF Planned, AskedOf
<1>2. ChunksAreSound
  <2> SUFFICES ASSUME NEW q \in Queries, q.days # Absent
               PROVE  LET chunks == Chunks(q.days[1], q.days[2])
                      IN /\ \A d \in Days(q) :
                              Cardinality({k \in DOMAIN chunks : Covers(chunks[k], d)}) = 1
                         /\ \A k \in DOMAIN chunks :
                              /\ {chunks[k].from, chunks[k].to} \subseteq Days(q)
                              /\ Cardinality({d \in Days(q) : Covers(chunks[k], d)}) <= MaxSpanDays
    BY Zenon DEF ChunksAreSound
  <2> DEFINE chunks == Chunks(q.days[1], q.days[2])
  <2>1. IsQuery(q)
    BY QueryAssumption, Zenon
  <2>2. ASSUME NEW d \in Days(q)
        PROVE  Cardinality({k \in DOMAIN chunks : Covers(chunks[k], d)}) = 1
    <3>1. PICK k \in DOMAIN chunks : \A j \in DOMAIN chunks : Covers(chunks[j], d) <=> j = k
      BY <2>1, ChunksPartition
    <3>2. {j \in DOMAIN chunks : Covers(chunks[j], d)} = {k}
      BY <3>1, Zenon
    <3> QED
      BY <3>2, FS_Singleton, Zenon
  <2>3. ASSUME NEW k \in DOMAIN chunks
        PROVE  {chunks[k].from, chunks[k].to} \subseteq Days(q)
    BY <2>1, ChunkEnds
  <2>4. ASSUME NEW k \in DOMAIN chunks
        PROVE  Cardinality({d \in Days(q) : Covers(chunks[k], d)}) <= MaxSpanDays
    BY <2>1, ChunksAreShort, Zenon
  <2> QED
    BY <2>2, <2>3, <2>4, Zenon
<1>3. BandsAreSound
  <2> SUFFICES ASSUME plan # <<>> PROVE BandsAreSound
    BY Zenon DEF BandsAreSound
  <2>1. PICK width \in Widths : plan = PlanQuery(query, width)
    BY Zenon DEF Planned
  <2>2. width \in Nat /\ width <= Pool /\ Pool \in Nat
    BY <2>1, QueryAssumption, SMT
  <2>3. SelectAxis(query) \in {"date", "time"} /\ \E n \in Nat : PlanIs(query, width, n)
    BY <1>1, <2>1, <2>2, PlansAreBands
  <2>4. PICK n \in Nat : PlanIs(query, width, n)
    BY <2>3
  <2>5. SelectAxis(query) # "none" /\ n \in Nat
    BY <2>3, <2>4, SMT
  <2>6. SingleDayTickChain(query) /\ SelectAxis(query) = "date" <=> DayByDay(query)
    BY Zenon DEF DayByDay
  <2>7. \A right : \A k \in 1..n :
          /\ BandOf(query, n, right, k).right = right
          /\ {BandOf(query, n, right, k).from, BandOf(query, n, right, k).to}
               \subseteq AskedOf[query]
          /\ DayByDay(query) =>
               BandOf(query, n, right, k).from = BandOf(query, n, right, k).to
    <3> TAKE right
    <3> TAKE k \in 1..n
    <3> QED
      BY <1>1, <2>4, <2>5, BandsOfAPlan
  <2>8. ASSUME NEW right, NEW at \in AskedOf[query]
        PROVE  InOneBandOf(query, n, right, at)
    BY <1>1, <2>4, <2>5, PlansCover
  <2>9. \/ /\ Shards = 1..n /\ Len(plan) = n
           /\ \A k \in 1..n : plan[k] = BandOf(query, n, Own, k)
           /\ n <= width \/ DayByDay(query)
        \/ /\ Shards = 1..(2 * n) /\ Len(plan) = 2 * n
           /\ \A k \in 1..n : /\ plan[k] = BandOf(query, n, Call, k)
                              /\ plan[n + k] = BandOf(query, n, Put, k)
           /\ query.right = "both" /\ 2 * n <= width
    BY <2>1, <2>4, <2>5, PlanIsASequence DEF Shards
  <2>10. CASE /\ Shards = 1..n /\ Len(plan) = n
              /\ \A k \in 1..n : plan[k] = BandOf(query, n, Own, k)
              /\ n <= width \/ DayByDay(query)
    <3>1. ASSUME NEW at \in AskedOf[query], NEW right \in RightsAsked(query)
          PROVE  Cardinality({k \in Shards :
                    InBand([key |-> <<0, right>>, at |-> at], plan[k])}) = 1
      <4>0. InOneBandOf(query, n, Own, at)
        BY <2>8
      <4>1. PICK k \in 1..n : \A j \in 1..n : Covers(BandOf(query, n, Own, j), at) <=> j = k
        BY <4>0, Zenon DEF InOneBandOf
      <4>2. ASSUME NEW j \in 1..n
            PROVE  InBand([key |-> <<0, right>>, at |-> at], plan[j])
                     <=> Covers(BandOf(query, n, Own, j), at)
        <5>1. plan[j] = BandOf(query, n, Own, j) /\ BandOf(query, n, Own, j).right = Own
          BY <2>7, <2>10, Zenon
        <5> QED
          BY <5>1, SMT DEF InBand
      <4>3. {j \in Shards : InBand([key |-> <<0, right>>, at |-> at], plan[j])} = {k}
        BY <2>10, <4>1, <4>2, Zenon
      <4> QED
        BY <4>3, FS_Singleton, Zenon
    <3>2. \A k \in Shards : {plan[k].from, plan[k].to} \subseteq AskedOf[query]
      BY <2>7, <2>10
    <3>3. DayByDay(query) => \A k \in Shards : plan[k].from = plan[k].to
      BY <2>7, <2>10
    <3>4. ~DayByDay(query) => Len(plan) <= Pool
      BY <2>2, <2>5, <2>10, SMT
    <3> QED
      BY <2>6, <3>1, <3>2, <3>3, <3>4, Zenon DEF BandsAreSound
  <2>11. CASE /\ Shards = 1..(2 * n) /\ Len(plan) = 2 * n
              /\ \A k \in 1..n : /\ plan[k] = BandOf(query, n, Call, k)
                                 /\ plan[n + k] = BandOf(query, n, Put, k)
              /\ query.right = "both" /\ 2 * n <= width
    <3>1. ASSUME NEW k \in Shards
          PROVE  \/ k \in 1..n /\ plan[k] = BandOf(query, n, Call, k)
                 \/ k - n \in 1..n /\ plan[k] = BandOf(query, n, Put, k - n)
      <4>1. k \in 1..n \/ (k - n \in 1..n /\ n + (k - n) = k)
        BY <2>5, <2>11, SMT
      <4> QED
        BY <2>11, <4>1
    <3>2. RightsAsked(query) = {Call, Put}
      BY <2>11, Zenon DEF RightsAsked
    <3>3. ASSUME NEW at, NEW right, NEW k \in Shards
          PROVE  InBand([key |-> <<0, right>>, at |-> at], plan[k])
                   <=> \/ /\ k \in 1..n /\ right = Call
                          /\ Covers(BandOf(query, n, Call, k), at)
                       \/ /\ k - n \in 1..n /\ right = Put
                          /\ Covers(BandOf(query, n, Put, k - n), at)
      <4>1. CASE k \in 1..n /\ plan[k] = BandOf(query, n, Call, k)
        <5>1. BandOf(query, n, Call, k).right = Call
          BY <2>7, <4>1, Zenon
        <5>2. ~(k - n \in 1..n)
          BY <2>5, <4>1, SMT
        <5> QED
          BY <4>1, <5>1, <5>2, SMT DEF InBand, Call, Put, Own
      <4>2. CASE k - n \in 1..n /\ plan[k] = BandOf(query, n, Put, k - n)
        <5>1. BandOf(query, n, Put, k - n).right = Put
          BY <2>7, <4>2, Zenon
        <5>2. ~(k \in 1..n)
          BY <2>5, <2>11, <4>2, SMT
        <5> QED
          BY <4>2, <5>1, <5>2, SMT DEF InBand, Call, Put, Own
      <4> QED
        BY <3>1, <4>1, <4>2
    <3>4. ASSUME NEW at \in AskedOf[query], NEW right \in RightsAsked(query)
          PROVE  Cardinality({k \in Shards :
                    InBand([key |-> <<0, right>>, at |-> at], plan[k])}) = 1
      <4>0. InOneBandOf(query, n, right, at)
        BY <2>8
      <4>1. PICK k \in 1..n : \A j \in 1..n : Covers(BandOf(query, n, right, j), at) <=> j = k
        BY <4>0, Zenon DEF InOneBandOf
      <4> DEFINE m == IF right = Call THEN k ELSE n + k
      <4>2. m \in Shards
        BY <2>5, <2>11, <4>1, SMT
      <4>3. ASSUME NEW j \in Shards
            PROVE  InBand([key |-> <<0, right>>, at |-> at], plan[j]) <=> j = m
        <5>1. CASE right = Call
          <6>1. InBand([key |-> <<0, right>>, at |-> at], plan[j])
                  <=> j \in 1..n /\ Covers(BandOf(query, n, right, j), at)
            BY <3>3, <5>1, SMT DEF Call, Put
          <6> QED
            BY <4>1, <5>1, <6>1, Zenon
        <5>2. CASE right = Put
          <6>1. InBand([key |-> <<0, right>>, at |-> at], plan[j])
                  <=> j - n \in 1..n /\ Covers(BandOf(query, n, right, j - n), at)
            BY <3>3, <5>2, SMT DEF Call, Put
          <6>2. m = n + k /\ (j - n = k <=> j = n + k)
            BY <2>5, <2>11, <4>1, <5>2, SMT DEF Call, Put
          <6> QED
            BY <4>1, <6>1, <6>2, Zenon
        <5> QED
          BY <3>2, <5>1, <5>2, Zenon
      <4> HIDE DEF m
      <4>4. {j \in Shards : InBand([key |-> <<0, right>>, at |-> at], plan[j])} = {m}
        BY <4>2, <4>3, Zenon
      <4> QED
        BY <4>4, FS_Singleton, Zenon
    <3>5. \A k \in Shards : {plan[k].from, plan[k].to} \subseteq AskedOf[query]
      BY <2>7, <3>1
    <3>6. DayByDay(query) => \A k \in Shards : plan[k].from = plan[k].to
      BY <2>7, <3>1
    <3>7. Len(plan) <= Pool
      BY <2>2, <2>5, <2>11, SMT
    <3> QED
      BY <2>6, <3>4, <3>5, <3>6, <3>7, Zenon DEF BandsAreSound
  <2> QED
    BY <2>9, <2>10, <2>11, Zenon
<1> QED
  BY <1>2, <1>3 DEF PlanIsSound

\* A call begins with the plan of its query.
LEMMA PlannedStarts == Init => Planned
  BY Zenon DEF Init, Planned

\* No step changes what is asked.
LEMMA FixedStays ==
  ASSUME [Next]_vars
  PROVE  UNCHANGED fixed
<1>1. CASE UNCHANGED vars
  BY <1>1, Zenon DEF vars
<1>2. ASSUME NEW k \in Shards, BandStep(k) PROVE UNCHANGED fixed
  BY <1>2, Zenon DEF BandStep, Acquire, Chunk, Completes, NothingFound, Fails, Ends, Replay, Aborts
<1>3. CASE HandlerAsks \/ HandlerStep
  BY <1>3, Zenon DEF HandlerAsks, HandlerStep, HandlerReturns, NestedAcquires, NestedEnds
<1>4. CASE JoinStep
  BY <1>4, Zenon DEF JoinStep, JoinsNext, JoinsAll, Joins
<1>5. CASE Timeout
  BY <1>5, Zenon DEF Timeout
<1> QED
  BY <1>1, <1>2, <1>3, <1>4, <1>5, Zenon DEF Next

\* Nor therefore its plan.
LEMMA PlannedStays ==
  ASSUME Planned, UNCHANGED fixed
  PROVE  Planned'
  BY SMT DEF Planned, fixed

\* However a query is cut, nothing of it is lost or asked for twice (mdds/shard.rs:224, 706,
\* 736, 980): for every calendar range, contract, right and width of the pool.
THEOREM PlansAreSound == Spec => []PlanIsSound
<1>1. Init => Planned
  BY PlannedStarts
<1>2. Planned /\ [Next]_vars => Planned'
  BY FixedStays, PlannedStays
<1>3. Planned => PlanIsSound
  BY PlannedIsSound
<1> QED
  BY <1>1, <1>2, <1>3, PTL DEF Spec, SafetySpec

------------------------------------------------------------------------------
(* The strengthening *)

\* A band that the join takes for done.
Ended(k) == pc[k] = "ok" \/ Folds(k)

\* What a band has gathered is what it was sent in this attempt, each row once; it is
\* complete when the band says so.
BandSound(k) ==
    /\ sent[k] \subseteq RowsOf(k)
    /\ ToSet(got[k]) = sent[k]
    /\ IsInjective(got[k])
    /\ ~some[k] => got[k] = <<>>
    /\ pc[k] = "ok" => sent[k] = RowsOf(k)
    /\ Folds(k) => RowsOf(k) = {}

\* The join reports what the bands came to.
JoinSound ==
    /\ \A k \in Shards : pc[k] = "aborted" => result # "running"
    /\ mode = "buffered" => \A k \in Shards : k < next => Ended(k)
    /\ result \in {"ok", "notfound"} => \A k \in Shards : Ended(k)
    /\ result = "notfound" => \A k \in Shards : RowsOf(k) = {}
    /\ result = "partial" =>
         /\ mode = "streamed" /\ Drained /\ Failed # {}
         /\ \A k \in Shards \ Failed : Ended(k)
    /\ mode = "streamed" /\ result = "failed" => \A k \in Shards : got[k] = <<>>

\* The strengthening: what TypeOK and BandsAreTruthful need of every step.
Sound ==
    /\ TypeOK
    /\ Planned
    /\ \A k \in Shards : BandSound(k)
    /\ JoinSound

\* Bands are numbered from 1.
LEMMA PlanLength ==
  ASSUME Planned
  PROVE  Len(plan) \in Nat /\ Shards = 1..Len(plan)
<1>1. CASE plan = <<>>
  BY <1>1, SMT DEF Shards
<1>2. CASE plan # <<>>
  <2>1. PICK width \in Widths : plan = PlanQuery(query, width)
    BY Zenon DEF Planned
  <2>2. width \in Nat /\ IsQuery(query)
    BY <2>1, QueryAssumption, SMT DEF Planned
  <2>3. \E n \in Nat : PlanIs(query, width, n)
    BY <1>2, <2>1, <2>2, PlansAreBands
  <2>4. PICK n \in Nat : PlanIs(query, width, n)
    BY <2>3
  <2>5. \/ Shards = 1..n /\ Len(plan) = n
        \/ Shards = 1..(2 * n) /\ Len(plan) = 2 * n
    BY <2>1, <2>4, PlanIsASequence DEF Shards
  <2>6. n \in Nat /\ 2 * n \in Nat
    BY <2>4, SMT
  <2> QED
    BY <2>5, <2>6
<1> QED
  BY <1>1, <1>2

\* A row is added to what a band has.
LEMMA Appended ==
  ASSUME NEW S, NEW s \in Seq(S), NEW e \in S
  PROVE  /\ Append(s, e) \in Seq(S)
         /\ ToSet(Append(s, e)) = ToSet(s) \cup {e}
         /\ IsInjective(s) /\ e \notin ToSet(s) => IsInjective(Append(s, e))
<1>1. /\ Append(s, e) \in Seq(S) /\ Len(Append(s, e)) = Len(s) + 1
      /\ Len(s) \in Nat /\ DOMAIN s = 1..Len(s)
      /\ DOMAIN Append(s, e) = 1..(Len(s) + 1)
      /\ \A i \in 1..Len(s) : Append(s, e)[i] = s[i]
      /\ Append(s, e)[Len(s) + 1] = e
  BY SMT
<1>2. \A i \in 1..(Len(s) + 1) : i \in 1..Len(s) \/ i = Len(s) + 1
  BY <1>1, SMT
<1>3. \A i \in 1..Len(s) : i \in 1..(Len(s) + 1)
  BY <1>1, SMT
<1>4. Len(s) + 1 \in 1..(Len(s) + 1)
  BY <1>1, SMT
<1> DEFINE t == Append(s, e)
           n == Len(s) + 1
<1>5. /\ DOMAIN t = 1..n /\ t[n] = e /\ n \in 1..n /\ DOMAIN s \subseteq 1..n
      /\ \A i \in DOMAIN s : t[i] = s[i]
      /\ \A i \in 1..n : i \in DOMAIN s \/ i = n
  BY <1>1, <1>2, <1>3, <1>4, Zenon
<1> HIDE DEF t, n
<1>6. ToSet(t) = ToSet(s) \cup {e}
  BY <1>5, Zenon DEF ToSet
<1>7. IsInjective(s) /\ e \notin ToSet(s) => IsInjective(t)
  BY <1>5, Zenon DEF ToSet, IsInjective
<1> QED
  BY <1>1, <1>6, <1>7 DEF t

------------------------------------------------------------------------------
(* Permits *)

\* The bands that hold a permit.
Busy == {k \in Shards : pc[k] = "attempt"}

\* There are finitely many.
LEMMA BusyIsFinite ==
  ASSUME Planned
  PROVE  IsFiniteSet(Shards) /\ IsFiniteSet(Busy) /\ Cardinality(Busy) \in Nat
<1>1. Len(plan) \in Nat /\ Shards = 1..Len(plan)
  BY PlanLength
<1>2. IsFiniteSet(Shards)
  BY <1>1, FS_Interval
<1>3. Busy \in SUBSET Shards
  BY Zenon DEF Busy
<1>4. IsFiniteSet(Busy)
  BY <1>2, <1>3, FS_Subset
<1> QED
  BY <1>2, <1>4, FS_CardinalityType

\* The permits that are taken are theirs and that of the handler's request.
LEMMA TakenIs ==
  ASSUME Planned
  PROVE  /\ Taken = Cardinality(Busy) + (IF nested = "running" THEN 1 ELSE 0)
         /\ Taken \in Nat
<1>1. Cardinality(Busy) \in Nat
  BY BusyIsFinite
<1>2. Taken = Cardinality(Busy) + (IF nested = "running" THEN 1 ELSE 0)
  BY Zenon DEF Taken, Busy
<1> QED
  BY <1>1, <1>2, SMT

\* A band takes one permit.
LEMMA BusyGrows ==
  ASSUME Planned, UNCHANGED <<fixed, nested>>, NEW k,
         \A j \in Shards : pc'[j] = "attempt" => pc[j] = "attempt" \/ j = k
  PROVE  Taken' \in Nat /\ Taken' <= Taken + 1
<1>1. Planned' /\ Shards' = Shards
  BY PlannedStays, Zenon DEF Shards, fixed
<1>2. Busy' \in SUBSET (Busy \cup {k})
  BY <1>1, Zenon DEF Busy
<1>3. IsFiniteSet(Busy) /\ Cardinality(Busy) \in Nat
  BY BusyIsFinite
<1>4. Cardinality(Busy') <= Cardinality(Busy) + 1 /\ Cardinality(Busy') \in Nat
  <2>1. /\ IsFiniteSet(Busy \cup {k})
        /\ Cardinality(Busy \cup {k}) =
             IF k \in Busy THEN Cardinality(Busy) ELSE Cardinality(Busy) + 1
    BY <1>3, FS_AddElement, Zenon
  <2>2. Cardinality(Busy \cup {k}) <= Cardinality(Busy) + 1 /\ Cardinality(Busy \cup {k}) \in Nat
    BY <1>3, <2>1, SMT
  <2>3. IsFiniteSet(Busy') /\ Cardinality(Busy') <= Cardinality(Busy \cup {k})
    BY <1>2, <2>1, FS_Subset
  <2>4. Cardinality(Busy') \in Nat
    BY <2>3, FS_CardinalityType
  <2> QED
    BY <1>3, <2>2, <2>3, <2>4, SMT
<1>5. Taken = Cardinality(Busy) + (IF nested = "running" THEN 1 ELSE 0)
  BY TakenIs
<1>6. Taken' = Cardinality(Busy') + (IF nested = "running" THEN 1 ELSE 0)
  BY Zenon DEF Taken, Busy
<1> QED
  BY <1>3, <1>4, <1>5, <1>6, SMT

\* A band that ends takes none.
LEMMA BusyShrinks ==
  ASSUME Planned, UNCHANGED fixed, nested' = nested \/ nested' # "running",
         \A k \in Shards : pc'[k] = "attempt" => pc[k] = "attempt"
  PROVE  Taken' \in Nat /\ Taken' <= Taken
<1>1. Planned' /\ Shards' = Shards
  BY PlannedStays, Zenon DEF Shards, fixed
<1>2. Busy' \in SUBSET Busy
  BY <1>1, Zenon DEF Busy
<1>3. IsFiniteSet(Busy) /\ Cardinality(Busy) \in Nat
  BY BusyIsFinite
<1>4. IsFiniteSet(Busy') /\ Cardinality(Busy') <= Cardinality(Busy)
  BY <1>2, <1>3, FS_Subset
<1>5. Cardinality(Busy') \in Nat
  BY <1>4, FS_CardinalityType
<1>6. Taken = Cardinality(Busy) + (IF nested = "running" THEN 1 ELSE 0)
  BY TakenIs
<1>7. Taken' = Cardinality(Busy') + (IF nested' = "running" THEN 1 ELSE 0)
  BY Zenon DEF Taken, Busy
<1> QED
  BY <1>3, <1>4, <1>5, <1>6, <1>7, SMT

------------------------------------------------------------------------------
(* The call *)

\* A call begins sound.
LEMMA SoundStarts == Init => Sound
<1> SUFFICES ASSUME Init PROVE Sound
  OBVIOUS
<1>1. Planned
  BY PlannedStarts
<1>2. Len(plan) \in Nat /\ Shards = 1..Len(plan)
  BY <1>1, PlanLength
<1>3. TypeOK
  <2>1. \A k \in Shards : pc[k] # "attempt"
    BY SMT DEF Init
  <2>2. Busy = {}
    BY <2>1, Zenon DEF Busy
  <2>3. Taken = 0
    <3>1. Cardinality(Busy) = 0 /\ nested # "running"
      BY <2>2, FS_EmptySet, SMT DEF Init
    <3> QED
      BY <1>1, <3>1, TakenIs, SMT
  <2>4. permits \in Left /\ permits \in Nat
    BY QueryAssumption, SMT DEF Init
  <2>5. Taken <= permits
    BY <2>3, <2>4, SMT
  <2>6. tries \in [Shards -> 0..Greater(1, MaxAttempts)]
    <3>1. 0 \in 0..Greater(1, MaxAttempts)
      BY QueryAssumption, SMT DEF Greater
    <3> QED
      BY <3>1, Zenon DEF Init
  <2>7. /\ query \in Queries /\ mode \in {"buffered", "streamed"}
        /\ data \subseteq Cells(query)
        /\ pc \in [Shards -> {"permit", "attempt"} \cup Endings]
        /\ sent \in [Shards -> SUBSET data]
        /\ some \in [Shards -> BOOLEAN]
    BY Zenon DEF Init, Endings
  <2>8. got \in [Shards -> Seq(data)]
    BY SMT DEF Init
  <2>9. /\ handling \in Shards \cup {0} /\ handling = 0 /\ nested = "none"
        /\ next \in 1..(Len(plan) + 1)
        /\ result \in {"running", "single", "ok", "notfound", "failed", "partial", "timeout",
                       "notrun"}
    BY <1>2, SMT DEF Init
  <2> QED
    BY <2>4, <2>5, <2>6, <2>7, <2>8, <2>9, SMT DEF TypeOK
<1>4. ASSUME NEW k \in Shards PROVE BandSound(k)
  <2>1. /\ sent[k] = {} /\ got[k] = <<>>
        /\ pc[k] \notin {"ok", "notfound"}
    BY SMT DEF Init
  <2> QED
    BY <2>1, SMT DEF BandSound, Folds, ToSet, IsInjective
<1>5. JoinSound
  <2>1. /\ result \notin {"ok", "notfound", "partial", "failed"}
        /\ next = 1
        /\ \A k \in Shards : pc[k] = "aborted" => result # "running"
    <3>1. plan = <<>> => Shards = {}
      BY SMT DEF Shards
    <3> QED
      BY <3>1, SMT DEF Init
  <2>2. \A k \in Shards : ~(k < 1)
    BY <1>2, SMT
  <2> QED
    BY <2>1, <2>2, SMT DEF JoinSound
<1> QED
  BY <1>1, <1>3, <1>4, <1>5, Zenon DEF Sound

\* A sound call tells the truth.
LEMMA SoundIsTruthful == Sound => BandsAreTruthful
<1> SUFFICES ASSUME Sound PROVE BandsAreTruthful
  OBVIOUS
<1>1. ASSUME NEW k \in Shards, Ended(k) PROVE Exact(k)
  <2>1. BandSound(k)
    BY Zenon DEF Sound
  <2>2. CASE pc[k] = "ok"
    BY <2>1, <2>2, Zenon DEF BandSound, Exact
  <2>3. CASE Folds(k)
    <3>1. RowsOf(k) = {} /\ sent[k] = {}
      BY <2>1, <2>3, SMT DEF BandSound
    <3> QED
      BY <2>1, <3>1, Zenon DEF BandSound, Exact
  <2> QED
    BY <1>1, <2>2, <2>3, Zenon DEF Ended
<1>2. ASSUME NEW k \in Shards PROVE Clean(k)
  BY Zenon DEF Sound, BandSound, Clean
<1>3. JoinSound
  BY Zenon DEF Sound
<1> QED
  BY <1>1, <1>2, <1>3, SMT DEF JoinSound, BandsAreTruthful

\* What a step leaves alone when it leaves the query alone.
LEMMA Frame ==
  ASSUME Planned, UNCHANGED fixed
  PROVE  /\ Planned' /\ Shards' = Shards /\ Len(plan') = Len(plan)
         /\ Len(plan) \in Nat /\ Shards = 1..Len(plan)
         /\ query' = query /\ mode' = mode /\ data' = data /\ permits' = permits
         /\ \A k \in Shards : RowsOf(k)' = RowsOf(k)
<1>1. Planned' /\ Shards' = Shards /\ Len(plan') = Len(plan)
  BY PlannedStays, Zenon DEF Shards, fixed
<1>2. query' = query /\ mode' = mode /\ data' = data /\ permits' = permits /\ plan' = plan
  BY Zenon DEF fixed
<1>3. \A k \in Shards : RowsOf(k)' = RowsOf(k)
  BY <1>2, Zenon DEF RowsOf
<1> QED
  BY <1>1, <1>2, <1>3, PlanLength

\* What no request of the handler changes.
LEMMA NothingJoins ==
  ASSUME Sound, UNCHANGED <<fixed, bands, next, result>>
  PROVE  (\A k \in Shards : BandSound(k))' /\ JoinSound'
<1>1. /\ Shards' = Shards /\ mode' = mode
      /\ \A k \in Shards : RowsOf(k)' = RowsOf(k)
  BY Frame, Zenon DEF Sound
<1>2. UNCHANGED <<pc, tries, sent, got, some, next, result>>
  BY Zenon DEF bands
<1>3. \A k \in Shards : BandSound(k) /\ Folds(k)' = Folds(k) /\ Ended(k)' = Ended(k)
  BY <1>2, Zenon DEF Sound, Folds, Ended
<1>4. (\A k \in Shards : BandSound(k))'
  BY <1>1, <1>2, <1>3, Zenon DEF BandSound
<1>5. Drained' = Drained /\ Failed' = Failed
  BY <1>1, <1>2, <1>3, Zenon DEF Drained, Failed, Working
<1>6. JoinSound
  BY Zenon DEF Sound
<1>7. JoinSound'
  BY <1>1, <1>2, <1>3, <1>5, <1>6, SMT DEF JoinSound
<1> QED
  BY <1>4, <1>7, Zenon

\* A band at work changes nothing of what the call reports.
LEMMA OneBandMoves ==
  ASSUME Sound, NEW k \in Shards, Working(k), Polled,
         UNCHANGED <<fixed, next, result>>,
         \A j \in Shards \ {k} : pc'[j] = pc[j] /\ some'[j] = some[j],
         pc'[k] # "aborted"
  PROVE  JoinSound'
<1>1. /\ Shards' = Shards /\ mode' = mode
      /\ \A j \in Shards : RowsOf(j)' = RowsOf(j)
  BY Frame, Zenon DEF Sound
<1>2. ~Ended(k)
  BY SMT DEF Working, Ended, Folds
<1>3. ASSUME NEW j \in Shards, Ended(j) PROVE Ended(j)'
  <2>1. pc'[j] = pc[j] /\ some'[j] = some[j]
    BY <1>2, <1>3, Zenon
  <2> QED
    BY <1>3, <2>1, Zenon DEF Ended, Folds
<1>4. JoinSound
  BY Zenon DEF Sound
<1>5. result \notin {"ok", "notfound"}
  BY <1>2, <1>4, Zenon DEF JoinSound
<1>6. mode = "streamed" => result = "running"
  BY SMT DEF Polled
<1>7. \A j \in Shards : pc'[j] = "aborted" => pc[j] = "aborted"
  BY Zenon
<1> QED
  BY <1>1, <1>3, <1>4, <1>5, <1>6, <1>7, SMT DEF JoinSound

\* A band gets its permit.
LEMMA AcquireSound ==
  ASSUME Sound, NEW k \in Shards, Acquire(k)
  PROVE  Sound'
<1>1. UNCHANGED fixed /\ UNCHANGED <<sent, got, some, handling, nested, next, result>>
      /\ pc' = [pc EXCEPT ![k] = "attempt"] /\ tries' = [tries EXCEPT ![k] = 1]
      /\ pc[k] = "permit" /\ Polled /\ Taken < permits
  BY Zenon DEF Acquire
<1>2. TypeOK /\ Planned
  BY Zenon DEF Sound
<1>3. /\ Planned' /\ Shards' = Shards /\ Len(plan') = Len(plan)
      /\ query' = query /\ mode' = mode /\ data' = data /\ permits' = permits
      /\ \A j \in Shards : RowsOf(j)' = RowsOf(j)
  BY <1>1, <1>2, Frame, Zenon
<1>4. Taken' <= permits'
  <2>1. \A j \in Shards : pc'[j] = "attempt" => pc[j] = "attempt" \/ j = k
    BY <1>1, <1>2, Zenon DEF TypeOK
  <2>2. Taken' <= Taken + 1 /\ Taken \in Nat /\ Taken' \in Nat
    BY <1>1, <1>2, <1>3, <2>1, BusyGrows, TakenIs
  <2>3. permits \in Nat
    BY <1>2, QueryAssumption, SMT DEF TypeOK
  <2> QED
    BY <1>1, <1>3, <2>2, <2>3, SMT
<1>5. TypeOK'
  <2>1. 1 \in 0..Greater(1, MaxAttempts)
    BY QueryAssumption, SMT DEF Greater
  <2>2. tries' \in [Shards -> 0..Greater(1, MaxAttempts)]
    BY <1>1, <1>2, <2>1, Zenon DEF TypeOK
  <2>3. pc' \in [Shards -> {"permit", "attempt"} \cup Endings]
        /\ (handling # 0 => mode = "streamed" /\ pc'[handling] = "attempt")
    BY <1>1, <1>2, SMT DEF TypeOK
  <2> QED
    BY <1>1, <1>2, <1>3, <1>4, <2>2, <2>3, SMT DEF TypeOK
<1>6. JoinSound'
  <2>1. \A j \in Shards \ {k} : pc'[j] = pc[j] /\ some'[j] = some[j]
    BY <1>1, <1>2, SMT DEF TypeOK
  <2>2. pc'[k] # "aborted"
    BY <1>1, <1>2, SMT DEF TypeOK
  <2> QED
    BY <1>1, <2>1, <2>2, OneBandMoves DEF Working
<1>7. ASSUME NEW j \in Shards PROVE BandSound(j)'
  <2>1. BandSound(j)
    BY Zenon DEF Sound
  <2>2. pc'[j] = pc[j] \/ pc'[j] \notin {"ok", "notfound"}
    BY <1>1, <1>2, SMT DEF TypeOK
  <2> QED
    BY <1>1, <1>3, <2>1, <2>2, SMT DEF BandSound, Folds
<1> QED
  BY <1>3, <1>5, <1>6, <1>7, Zenon DEF Sound

\* A band is sent a row.
LEMMA ChunkSound ==
  ASSUME Sound, NEW k \in Shards, Chunk(k)
  PROVE  Sound'
<1>1. PICK r \in Upcoming(k) :
        sent' = [sent EXCEPT ![k] = @ \cup {r}] /\ got' = [got EXCEPT ![k] = Append(@, r)]
  BY Zenon DEF Chunk
<1>2. /\ UNCHANGED fixed /\ UNCHANGED <<pc, tries, nested, next, result>>
      /\ some' = [some EXCEPT ![k] = TRUE]
      /\ handling' = IF mode = "streamed" THEN k ELSE 0
      /\ pc[k] = "attempt" /\ Polled /\ handling = 0
  BY Zenon DEF Chunk
<1>3. TypeOK /\ Planned
  BY Zenon DEF Sound
<1>4. /\ Planned' /\ Shards' = Shards /\ Len(plan') = Len(plan)
      /\ query' = query /\ mode' = mode /\ data' = data /\ permits' = permits
      /\ \A j \in Shards : RowsOf(j)' = RowsOf(j)
  BY <1>2, <1>3, Frame, Zenon
<1>5. r \in data /\ r \in RowsOf(k) /\ r \notin sent[k]
  BY <1>1, Zenon DEF Upcoming, RowsOf
<1>6. got[k] \in Seq(data) /\ got' \in [Shards -> Seq(data)]
      /\ ToSet(got'[k]) = ToSet(got[k]) \cup {r}
      /\ (IsInjective(got[k]) /\ r \notin ToSet(got[k]) => IsInjective(got'[k]))
  <2>1. got \in [Shards -> Seq(data)] /\ got[k] \in Seq(data)
    BY <1>3, Zenon DEF TypeOK
  <2>2. /\ Append(got[k], r) \in Seq(data)
        /\ ToSet(Append(got[k], r)) = ToSet(got[k]) \cup {r}
        /\ IsInjective(got[k]) /\ r \notin ToSet(got[k]) => IsInjective(Append(got[k], r))
    BY <1>5, <2>1, Appended
  <2>3. got'[k] = Append(got[k], r)
    BY <1>1, <2>1, Zenon
  <2> QED
    BY <1>1, <2>1, <2>2, <2>3, Zenon
<1>7. sent \in [Shards -> SUBSET data] /\ sent' \in [Shards -> SUBSET data]
      /\ sent'[k] = sent[k] \cup {r}
  BY <1>1, <1>3, <1>5, Zenon DEF TypeOK
<1>8. some \in [Shards -> BOOLEAN] /\ some' \in [Shards -> BOOLEAN] /\ some'[k] = TRUE
  BY <1>2, <1>3, Zenon DEF TypeOK
<1>9. \A j \in Shards \ {k} :
        sent'[j] = sent[j] /\ got'[j] = got[j] /\ some'[j] = some[j]
  BY <1>1, <1>2, <1>3, SMT DEF TypeOK
<1>10. TypeOK'
  <2>1. Taken' <= permits'
    <3>1. Taken' = Taken
      BY <1>2, <1>4, Zenon DEF Taken
    <3> QED
      BY <1>3, <1>4, <3>1, Zenon DEF TypeOK
  <2>2. handling' \in Shards \cup {0}
        /\ (handling' # 0 => mode = "streamed" /\ pc[handling'] = "attempt")
    BY <1>2, Zenon
  <2>3. nested = "none"
    BY <1>2, <1>3, Zenon DEF TypeOK
  <2> QED
    BY <1>2, <1>3, <1>4, <1>6, <1>7, <1>8, <2>1, <2>2, <2>3, SMT DEF TypeOK
<1>11. JoinSound'
  <2>1. pc'[k] # "aborted" /\ \A j \in Shards \ {k} : pc'[j] = pc[j] /\ some'[j] = some[j]
    BY <1>2, <1>9, SMT
  <2> QED
    BY <1>2, <2>1, OneBandMoves DEF Working
<1>12. ASSUME NEW j \in Shards PROVE BandSound(j)'
  <2>1. BandSound(j)
    BY Zenon DEF Sound
  <2>2. CASE j = k
    <3>1. /\ sent'[k] \subseteq RowsOf(k) /\ ToSet(got'[k]) = sent'[k]
          /\ IsInjective(got'[k]) /\ some'[k]
      BY <1>5, <1>6, <1>7, <1>8, <2>1, <2>2, Zenon DEF BandSound
    <3>2. pc'[k] \notin {"ok", "notfound"}
      BY <1>2, SMT
    <3> QED
      BY <1>4, <2>2, <3>1, <3>2, SMT DEF BandSound, Folds
  <2>3. CASE j # k
    BY <1>2, <1>4, <1>9, <2>1, <2>3, SMT DEF BandSound, Folds
  <2> QED
    BY <2>2, <2>3
<1> QED
  BY <1>4, <1>10, <1>11, <1>12, Zenon DEF Sound

\* A band ends by itself.
LEMMA EndsSound ==
  ASSUME Sound, NEW k \in Shards, NEW ending \in {"ok", "notfound", "error"},
         Ends(k, ending),
         ending = "ok" => sent[k] = RowsOf(k),
         ending = "notfound" => RowsOf(k) = {} \/ sent[k] # {}
  PROVE  Sound'
<1>1. /\ UNCHANGED fixed
      /\ UNCHANGED <<tries, sent, got, some, handling, nested, next, result>>
      /\ pc' = [pc EXCEPT ![k] = ending]
      /\ pc[k] = "attempt" /\ Polled /\ handling # k
  BY Zenon DEF Ends
<1>2. TypeOK /\ Planned
  BY Zenon DEF Sound
<1>3. /\ Planned' /\ Shards' = Shards /\ Len(plan') = Len(plan)
      /\ query' = query /\ mode' = mode /\ data' = data /\ permits' = permits
      /\ \A j \in Shards : RowsOf(j)' = RowsOf(j)
  BY <1>1, <1>2, Frame, Zenon
<1>4. pc \in [Shards -> {"permit", "attempt"} \cup Endings]
      /\ pc' \in [Shards -> {"permit", "attempt"} \cup Endings]
      /\ pc'[k] = ending /\ \A j \in Shards \ {k} : pc'[j] = pc[j]
  BY <1>1, <1>2, SMT DEF TypeOK, Endings
<1>5. Taken' <= permits'
  <2>1. \A j \in Shards : pc'[j] = "attempt" => pc[j] = "attempt"
    BY <1>1, <1>4, Zenon
  <2>2. Taken' <= Taken /\ Taken \in Nat /\ Taken' \in Nat
    BY <1>1, <1>2, <2>1, BusyShrinks, TakenIs
  <2>3. permits \in Nat /\ Taken <= permits
    BY <1>2, QueryAssumption, SMT DEF TypeOK
  <2> QED
    BY <1>3, <2>2, <2>3, SMT
<1>6. TypeOK'
  <2>1. handling # 0 => mode = "streamed" /\ pc'[handling] = "attempt"
    BY <1>1, <1>2, <1>4, Zenon DEF TypeOK
  <2> QED
    BY <1>1, <1>2, <1>3, <1>4, <1>5, <2>1, SMT DEF TypeOK
<1>7. JoinSound'
  <2>1. pc'[k] # "aborted"
    BY <1>4, SMT
  <2> QED
    BY <1>1, <1>4, <2>1, OneBandMoves, SMT DEF Working
<1>8. ASSUME NEW j \in Shards PROVE BandSound(j)'
  <2>1. BandSound(j)
    BY Zenon DEF Sound
  <2>2. CASE j = k
    <3>1. sent[k] # {} => some[k]
      <4>1. ToSet(<<>>) = {}
        BY SMT DEF ToSet
      <4> QED
        BY <2>1, <2>2, <4>1, Zenon DEF BandSound
    <3> QED
      BY <1>1, <1>3, <1>4, <2>1, <2>2, <3>1, SMT DEF BandSound, Folds
  <2>3. CASE j # k
    BY <1>1, <1>3, <1>4, <2>1, <2>3, SMT DEF BandSound, Folds
  <2> QED
    BY <2>2, <2>3
<1> QED
  BY <1>3, <1>6, <1>7, <1>8, Zenon DEF Sound

\* A band tries again: a streamed one only if its handler saw nothing.
LEMMA ReplaySound ==
  ASSUME Sound, NEW k \in Shards, Replay(k)
  PROVE  Sound'
<1>1. /\ UNCHANGED fixed
      /\ UNCHANGED <<pc, some, handling, nested, next, result>>
      /\ tries' = [tries EXCEPT ![k] = @ + 1]
      /\ sent' = [sent EXCEPT ![k] = {}]
      /\ got' = IF mode = "buffered" THEN [got EXCEPT ![k] = <<>>] ELSE got
      /\ pc[k] = "attempt" /\ Polled
      /\ tries[k] < MaxAttempts /\ (mode = "streamed" => ~some[k])
  BY Zenon DEF Replay, MayReplay
<1>2. TypeOK /\ Planned
  BY Zenon DEF Sound
<1>3. /\ Planned' /\ Shards' = Shards /\ Len(plan') = Len(plan)
      /\ query' = query /\ mode' = mode /\ data' = data /\ permits' = permits
      /\ \A j \in Shards : RowsOf(j)' = RowsOf(j)
  BY <1>1, <1>2, Frame, Zenon
<1>4. tries' \in [Shards -> 0..Greater(1, MaxAttempts)]
  <2>1. tries[k] \in 0..Greater(1, MaxAttempts)
    BY <1>2, Zenon DEF TypeOK
  <2>2. tries[k] + 1 \in 0..Greater(1, MaxAttempts)
    BY <1>1, <2>1, QueryAssumption, SMT DEF Greater
  <2> QED
    BY <1>1, <1>2, <2>2, Zenon DEF TypeOK
<1>5. /\ sent' \in [Shards -> SUBSET data] /\ sent'[k] = {}
      /\ \A j \in Shards \ {k} : sent'[j] = sent[j]
  BY <1>1, <1>2, SMT DEF TypeOK
<1>6. /\ got' \in [Shards -> Seq(data)] /\ got'[k] = <<>>
      /\ \A j \in Shards \ {k} : got'[j] = got[j]
  <2>1. mode = "streamed" => got[k] = <<>>
    BY <1>1, Zenon DEF Sound, BandSound
  <2>2. mode \in {"buffered", "streamed"} /\ got \in [Shards -> Seq(data)]
    BY <1>2, Zenon DEF TypeOK
  <2>3. <<>> \in Seq(data)
    BY SMT
  <2>4. CASE mode = "buffered"
    BY <1>1, <2>2, <2>3, <2>4, Zenon
  <2>5. CASE mode = "streamed"
    <3>1. got' = got
      BY <1>1, <2>5, SMT
    <3>2. got[k] = <<>>
      BY <2>1, <2>5, Zenon
    <3>3. got' \in [Shards -> Seq(data)] /\ got'[k] = <<>>
      BY <2>2, <3>1, <3>2
    <3>4. \A j \in Shards \ {k} : got'[j] = got[j]
      BY <3>1
    <3> QED
      BY <3>3, <3>4, Zenon
  <2> QED
    BY <2>2, <2>4, <2>5, Zenon
<1>7. TypeOK'
  <2>1. Taken' = Taken
    BY <1>1, <1>3, Zenon DEF Taken
  <2> QED
    BY <1>1, <1>2, <1>3, <1>4, <1>5, <1>6, <2>1, SMT DEF TypeOK
<1>8. JoinSound'
  <2>1. pc'[k] # "aborted"
    BY <1>1, SMT
  <2> QED
    BY <1>1, <2>1, OneBandMoves, Zenon DEF Working
<1>9. ASSUME NEW j \in Shards PROVE BandSound(j)'
  <2>1. BandSound(j)
    BY Zenon DEF Sound
  <2>2. CASE j = k
    <3>1. ToSet(<<>>) = {} /\ IsInjective(<<>>)
      BY SMT DEF ToSet, IsInjective
    <3>2. pc'[k] \notin {"ok", "notfound"}
      BY <1>1, SMT
    <3>3. ToSet(got'[k]) = {} /\ IsInjective(got'[k]) /\ got'[k] = <<>>
      BY <1>6, <3>1, Zenon
    <3>4. sent'[k] = {} /\ ~Folds(k)'
      BY <1>5, <3>2, SMT DEF Folds
    <3> QED
      BY <2>2, <3>2, <3>3, <3>4, Zenon DEF BandSound
  <2>3. CASE j # k
    BY <1>1, <1>3, <1>5, <1>6, <2>1, <2>3, SMT DEF BandSound, Folds
  <2> QED
    BY <2>2, <2>3
<1> QED
  BY <1>3, <1>7, <1>8, <1>9, Zenon DEF Sound

\* A band of a call that is over is aborted.
LEMMA AbortsSound ==
  ASSUME Sound, NEW k \in Shards, Aborts(k)
  PROVE  Sound'
<1>1. /\ UNCHANGED fixed
      /\ UNCHANGED <<tries, sent, got, some, handling, nested, next, result>>
      /\ pc' = [pc EXCEPT ![k] = "aborted"]
      /\ Working(k) /\ mode = "buffered" /\ result # "running"
  BY Zenon DEF Aborts
<1>2. TypeOK /\ Planned /\ JoinSound
  BY Zenon DEF Sound
<1>3. /\ Planned' /\ Shards' = Shards /\ Len(plan') = Len(plan)
      /\ query' = query /\ mode' = mode /\ data' = data /\ permits' = permits
      /\ \A j \in Shards : RowsOf(j)' = RowsOf(j)
  BY <1>1, <1>2, Frame, Zenon
<1>4. pc \in [Shards -> {"permit", "attempt"} \cup Endings]
      /\ pc' \in [Shards -> {"permit", "attempt"} \cup Endings]
      /\ pc'[k] = "aborted" /\ \A j \in Shards \ {k} : pc'[j] = pc[j]
  BY <1>1, <1>2, SMT DEF TypeOK, Endings
<1>5. Taken' <= permits'
  <2>1. \A j \in Shards : pc'[j] = "attempt" => pc[j] = "attempt"
    BY <1>1, <1>4, SMT
  <2>2. Taken' <= Taken /\ Taken \in Nat /\ Taken' \in Nat
    BY <1>1, <1>2, <2>1, BusyShrinks, TakenIs
  <2>3. permits \in Nat /\ Taken <= permits
    BY <1>2, QueryAssumption, SMT DEF TypeOK
  <2> QED
    BY <1>3, <2>2, <2>3, SMT
<1>6. TypeOK'
  <2>1. handling = 0
    BY <1>1, <1>2, SMT DEF TypeOK
  <2> QED
    BY <1>1, <1>2, <1>3, <1>4, <1>5, <2>1, SMT DEF TypeOK
<1>7. ~Ended(k) /\ \A j \in Shards : Ended(j) => Ended(j)'
  <2>1. ~Ended(k)
    BY <1>1, SMT DEF Working, Ended, Folds
  <2> QED
    BY <1>1, <1>4, <2>1, Zenon DEF Ended, Folds
<1>8. JoinSound'
  <2>1. result \notin {"ok", "notfound"} /\ mode # "streamed"
    BY <1>1, <1>2, <1>7, SMT DEF JoinSound
  <2> QED
    BY <1>1, <1>2, <1>3, <1>7, <2>1, SMT DEF JoinSound
<1>9. ASSUME NEW j \in Shards PROVE BandSound(j)'
  <2>1. BandSound(j)
    BY Zenon DEF Sound
  <2>2. pc'[j] = pc[j] \/ pc'[j] \notin {"ok", "notfound"}
    BY <1>4, SMT
  <2> QED
    BY <1>1, <1>3, <2>1, <2>2, SMT DEF BandSound, Folds
<1> QED
  BY <1>3, <1>6, <1>8, <1>9, Zenon DEF Sound

\* No step of a band disturbs the invariant.
LEMMA BandStepSound ==
  ASSUME Sound, NEW k \in Shards, BandStep(k)
  PROVE  Sound'
<1>1. CASE Acquire(k)
  BY <1>1, AcquireSound
<1>2. CASE Chunk(k)
  BY <1>2, ChunkSound
<1>3. CASE Completes(k)
  <2>1. sent[k] = RowsOf(k) /\ Ends(k, "ok")
    BY <1>3, Zenon DEF Completes
  <2>2. "ok" \in {"ok", "notfound", "error"} /\ "ok" # "notfound"
    BY SMT
  <2> QED
    BY <2>1, <2>2, EndsSound
<1>4. CASE NothingFound(k)
  <2>1. (RowsOf(k) = {} \/ sent[k] # {}) /\ Ends(k, "notfound")
    BY <1>4, Zenon DEF NothingFound
  <2>2. "notfound" \in {"ok", "notfound", "error"} /\ "notfound" # "ok"
    BY SMT
  <2> QED
    BY <2>1, <2>2, EndsSound
<1>5. CASE Fails(k)
  <2>1. Ends(k, "error")
    BY <1>5, Zenon DEF Fails
  <2>2. "error" \in {"ok", "notfound", "error"} /\ "error" # "notfound" /\ "error" # "ok"
    BY SMT
  <2> QED
    BY <2>1, <2>2, EndsSound
<1>6. CASE Replay(k)
  BY <1>6, ReplaySound
<1>7. CASE Aborts(k)
  BY <1>7, AbortsSound
<1> QED
  BY <1>1, <1>2, <1>3, <1>4, <1>5, <1>6, <1>7, Zenon DEF BandStep

\* Nor does a step of the handler, or one that changes nothing.
LEMMA HandlerSound ==
  ASSUME Sound, HandlerAsks \/ HandlerStep \/ UNCHANGED vars
  PROVE  Sound'
<1>1. UNCHANGED <<fixed, bands, next, result>>
  BY Zenon DEF HandlerAsks, HandlerStep, HandlerReturns, NestedAcquires, NestedEnds, vars
<1>2. TypeOK /\ Planned /\ UNCHANGED fixed
  BY <1>1, Zenon DEF Sound
<1>3. /\ Planned' /\ Shards' = Shards /\ Len(plan') = Len(plan)
      /\ query' = query /\ mode' = mode /\ data' = data /\ permits' = permits
  BY <1>2, Frame
<1>4. UNCHANGED <<pc, tries, sent, got, some, next, result>>
  BY <1>1, Zenon DEF bands
<1>5. permits \in Nat /\ Taken <= permits /\ Taken \in Nat
  BY <1>2, QueryAssumption, TakenIs, SMT DEF TypeOK
<1>6. \/ nested' = nested \/ nested' # "running"
      \/ nested' = "running" /\ nested # "running" /\ Taken < permits
  BY SMT DEF HandlerAsks, HandlerStep, HandlerReturns, NestedAcquires, NestedEnds, vars
<1>7. Taken' <= permits'
  <2>1. CASE nested' = nested \/ nested' # "running"
    <3>1. Taken' \in Nat /\ Taken' <= Taken
      BY <1>2, <1>4, <2>1, BusyShrinks
    <3> QED
      BY <1>3, <1>5, <3>1, SMT
  <2>2. CASE nested' = "running" /\ nested # "running" /\ Taken < permits
    <3>1. Busy' = Busy
      BY <1>3, <1>4, Zenon DEF Busy
    <3>2. Taken = Cardinality(Busy) /\ Cardinality(Busy) \in Nat
      BY <1>2, <2>2, TakenIs, BusyIsFinite, SMT
    <3>3. Taken' = Cardinality(Busy') + (IF nested' = "running" THEN 1 ELSE 0)
      BY Zenon DEF Taken, Busy
    <3>4. Taken' = Cardinality(Busy) + 1
      BY <2>2, <3>1, <3>3, Zenon
    <3> QED
      BY <1>3, <1>5, <2>2, <3>2, <3>4, SMT
  <2> QED
    BY <1>6, <2>1, <2>2
<1>8. /\ handling' \in Shards \cup {0}
      /\ handling' # 0 => mode = "streamed" /\ pc[handling'] = "attempt"
      /\ nested' \in {"none", "asks", "running", "over"}
      /\ nested' # "none" => handling' # 0
  BY <1>2, SMT DEF TypeOK, HandlerAsks, HandlerStep, HandlerReturns, NestedAcquires,
     NestedEnds, vars
<1>9. TypeOK'
  BY <1>2, <1>3, <1>4, <1>7, <1>8, SMT DEF TypeOK
<1>10. (\A k \in Shards : BandSound(k))' /\ JoinSound'
  BY <1>1, NothingJoins
<1> QED
  BY <1>3, <1>9, <1>10, Zenon DEF Sound

\* Nor does the join.
LEMMA JoinStepSound ==
  ASSUME Sound, JoinStep
  PROVE  Sound'
<1>1. UNCHANGED <<fixed, bands, handling, nested>> /\ result = "running"
  BY Zenon DEF JoinStep, JoinsNext, JoinsAll, Joins
<1>2. TypeOK /\ Planned /\ JoinSound /\ UNCHANGED fixed
  BY <1>1, Zenon DEF Sound
<1>3. /\ Planned' /\ Shards' = Shards /\ Len(plan') = Len(plan)
      /\ Len(plan) \in Nat /\ Shards = 1..Len(plan)
      /\ query' = query /\ mode' = mode /\ data' = data /\ permits' = permits
      /\ \A k \in Shards : RowsOf(k)' = RowsOf(k)
  BY <1>2, Frame
<1>4. UNCHANGED <<pc, tries, sent, got, some, handling, nested>>
  BY <1>1, Zenon DEF bands
<1>5. /\ next' \in 1..(Len(plan) + 1)
      /\ result' \in {"running", "single", "ok", "notfound", "failed", "partial", "timeout",
                      "notrun"}
  <2>1. next \in 1..(Len(plan) + 1)
    BY <1>2, Zenon DEF TypeOK
  <2>2. CASE JoinsNext
    BY <1>2, <1>3, <2>1, <2>2, SMT DEF JoinsNext, TypeOK
  <2>3. CASE JoinsAll
    BY <2>1, <2>3, SMT DEF JoinsAll
  <2>4. CASE Joins
    BY <2>1, <2>4, SMT DEF Joins
  <2> QED
    BY <2>2, <2>3, <2>4, Zenon DEF JoinStep
<1>6. TypeOK'
  <2>1. Taken' = Taken
    BY <1>3, <1>4, Zenon DEF Taken
  <2> QED
    BY <1>2, <1>3, <1>4, <1>5, <2>1, SMT DEF TypeOK
<1>7. \A k \in Shards : BandSound(k)
  BY Zenon DEF Sound
<1>8. (\A k \in Shards : BandSound(k))'
  BY <1>3, <1>4, <1>7, Zenon DEF BandSound, Folds
<1>9. /\ \A k \in Shards : Ended(k)' = Ended(k)
      /\ Drained' = Drained /\ Failed' = Failed
      /\ \A k \in Shards : pc[k] # "aborted"
  BY <1>1, <1>2, <1>3, <1>4, Zenon DEF Ended, Folds, Drained, Failed, Working, JoinSound
<1>10. ASSUME NEW k \in Shards, Ended(k), got[k] = <<>> PROVE RowsOf(k) = {}
  <2>1. ToSet(<<>>) = {}
    BY SMT DEF ToSet
  <2> QED
    BY <1>7, <1>10, <2>1, Zenon DEF BandSound, Ended
<1>11. JoinSound'
  <2>1. CASE JoinsNext
    <3>1. /\ mode = "buffered" /\ next \in Shards
          /\ \/ Ended(next) /\ next' = next + 1 /\ result' = "running"
             \/ result' = "failed" /\ next' = next
      BY <1>1, <2>1, Zenon DEF JoinsNext, Ended
    <3>2. \A k \in Shards : k < next => Ended(k)
      BY <1>2, <3>1, Zenon DEF JoinSound
    <3>3. \A k \in Shards : k < next' => Ended(k)
      BY <1>3, <3>1, <3>2, SMT
    <3> QED
      BY <1>3, <1>4, <1>9, <3>1, <3>3, SMT DEF JoinSound
  <2>2. CASE JoinsAll
    <3>1. /\ mode = "buffered" /\ next = Len(plan) + 1 /\ next' = next
          /\ \/ /\ result' = "notfound"
                /\ \A k \in Shards : pc[k] = "ok" => got[k] = <<>>
             \/ result' = "ok"
      BY <2>2, Zenon DEF JoinsAll
    <3>2. \A k \in Shards : Ended(k)
      <4>1. \A k \in Shards : k < next
        BY <1>3, <3>1, SMT
      <4> QED
        BY <1>2, <3>1, <4>1, Zenon DEF JoinSound
    <3>3. result' = "notfound" => \A k \in Shards : RowsOf(k) = {}
      <4> SUFFICES ASSUME result' = "notfound", NEW k \in Shards PROVE RowsOf(k) = {}
        OBVIOUS
      <4>1. CASE pc[k] = "ok"
        <5>1. result' # "ok"
          BY SMT
        <5> QED
          BY <1>10, <3>1, <3>2, <4>1, <5>1, Zenon
      <4>2. CASE Folds(k)
        BY <1>7, <4>2, Zenon DEF BandSound
      <4> QED
        BY <3>2, <4>1, <4>2, Zenon DEF Ended
    <3> QED
      BY <1>3, <1>4, <1>9, <3>1, <3>2, <3>3, SMT DEF JoinSound
  <2>3. CASE Joins
    <3>1. /\ mode = "streamed" /\ Drained /\ next' = next
          /\ \/ Failed # {} /\ result' = "partial"
             \/ Failed # {} /\ result' = "failed" /\ \A k \in Shards : ~some[k]
             \/ Failed = {} /\ result' = "notfound" /\ \A k \in Shards : ~some[k]
             \/ Failed = {} /\ result' = "ok"
      BY <2>3, Zenon DEF Joins
    <3>2. ASSUME NEW k \in Shards \ Failed PROVE Ended(k)
      <4>1. pc[k] \in {"permit", "attempt"} \cup Endings /\ pc[k] # "aborted"
        BY <1>2, <1>9, Zenon DEF TypeOK
      <4>2. pc[k] # "error" /\ (pc[k] = "notfound" => Folds(k))
        BY Zenon DEF Failed
      <4>3. ~Working(k)
        BY <3>1, Zenon DEF Drained
      <4> QED
        BY <4>1, <4>2, <4>3, SMT DEF Endings, Working, Ended
    <3>3. (\A k \in Shards : ~some[k]) => \A k \in Shards : got[k] = <<>>
      BY <1>7, Zenon DEF BandSound
    <3>4. Failed = {} => \A k \in Shards : Ended(k)
      BY <3>2, Zenon
    <3>5. result' = "notfound" => \A k \in Shards : RowsOf(k) = {}
      <4>1. result' = "notfound" => Failed = {} /\ \A k \in Shards : ~some[k]
        BY <3>1, SMT
      <4> QED
        BY <1>10, <3>3, <3>4, <4>1, Zenon
    <3> QED
      BY <1>3, <1>4, <1>9, <3>1, <3>2, <3>3, <3>4, <3>5, SMT DEF JoinSound
  <2> QED
    BY <2>1, <2>2, <2>3, Zenon DEF JoinStep
<1> QED
  BY <1>3, <1>6, <1>8, <1>11, Zenon DEF Sound

\* Nor does the deadline.
LEMMA TimeoutSound ==
  ASSUME Sound, Timeout
  PROVE  Sound'
<1>1. /\ UNCHANGED fixed /\ UNCHANGED <<tries, sent, got, some, next>>
      /\ result = "running" /\ result' = "timeout"
      /\ \/ mode = "buffered" /\ UNCHANGED <<pc, handling, nested>>
         \/ /\ mode = "streamed"
            /\ pc' = [k \in Shards |-> IF Working(k) THEN "aborted" ELSE pc[k]]
            /\ handling' = 0 /\ nested' = "none"
  BY Zenon DEF Timeout, Sound, TypeOK
<1>2. TypeOK /\ Planned /\ JoinSound
  BY Zenon DEF Sound
<1>3. /\ Planned' /\ Shards' = Shards /\ Len(plan') = Len(plan)
      /\ query' = query /\ mode' = mode /\ data' = data /\ permits' = permits
      /\ \A j \in Shards : RowsOf(j)' = RowsOf(j)
  BY <1>1, <1>2, Frame, Zenon
<1>4. /\ pc' \in [Shards -> {"permit", "attempt"} \cup Endings]
      /\ \A k \in Shards : pc'[k] = pc[k] \/ (pc'[k] = "aborted" /\ Working(k))
  <2>1. pc \in [Shards -> {"permit", "attempt"} \cup Endings] /\ "aborted" \in Endings
    BY <1>2, Zenon DEF TypeOK, Endings
  <2>2. CASE pc' = pc
    BY <2>1, <2>2, Zenon
  <2>3. CASE pc' = [k \in Shards |-> IF Working(k) THEN "aborted" ELSE pc[k]]
    BY <2>1, <2>3, Zenon
  <2> QED
    BY <1>1, <2>2, <2>3, Zenon
<1>5. Taken' <= permits'
  <2>1. \A j \in Shards : pc'[j] = "attempt" => pc[j] = "attempt"
    BY <1>4, SMT
  <2>2. nested' = nested \/ nested' # "running"
    BY <1>1, SMT
  <2>3. Taken' <= Taken /\ Taken \in Nat /\ Taken' \in Nat
    BY <1>1, <1>2, <2>1, <2>2, BusyShrinks, TakenIs
  <2>4. permits \in Nat /\ Taken <= permits
    BY <1>2, QueryAssumption, SMT DEF TypeOK
  <2> QED
    BY <1>3, <2>3, <2>4, SMT
<1>6. TypeOK'
  <2>1. /\ handling' \in Shards \cup {0}
        /\ handling' # 0 => mode = "streamed" /\ pc'[handling'] = "attempt"
        /\ nested' \in {"none", "asks", "running", "over"}
        /\ nested' # "none" => handling' # 0
    BY <1>1, <1>2, SMT DEF TypeOK
  <2> QED
    BY <1>1, <1>2, <1>3, <1>4, <1>5, <2>1, SMT DEF TypeOK
<1>7. \A k \in Shards : Ended(k) => Ended(k)'
  BY <1>1, <1>4, SMT DEF Ended, Folds, Working
<1>8. JoinSound'
  BY <1>1, <1>2, <1>3, <1>7, SMT DEF JoinSound
<1>9. ASSUME NEW j \in Shards PROVE BandSound(j)'
  <2>1. BandSound(j)
    BY Zenon DEF Sound
  <2>2. pc'[j] = pc[j] \/ pc'[j] \notin {"ok", "notfound"}
    BY <1>4, SMT
  <2> QED
    BY <1>1, <1>3, <2>1, <2>2, SMT DEF BandSound, Folds
<1> QED
  BY <1>3, <1>6, <1>8, <1>9, Zenon DEF Sound

\* No step does.
LEMMA SoundStays == Sound /\ [Next]_vars => Sound'
<1> SUFFICES ASSUME Sound, [Next]_vars PROVE Sound'
  OBVIOUS
<1>1. ASSUME NEW k \in Shards, BandStep(k) PROVE Sound'
  BY <1>1, BandStepSound
<1>2. CASE HandlerAsks \/ HandlerStep \/ UNCHANGED vars
  BY <1>2, HandlerSound
<1>3. CASE JoinStep
  BY <1>3, JoinStepSound
<1>4. CASE Timeout
  BY <1>4, TimeoutSound
<1> QED
  BY <1>1, <1>2, <1>3, <1>4, Zenon DEF Next

\* The variables keep their types; whatever the other calls leave it, a call never has more
\* requests under way than permits, and its handler is at work on one row at a time
\* (mdds/shard.rs:1206, mdds/client.rs:340).
THEOREM TypeCorrect == Spec => []TypeOK
<1>1. Sound => TypeOK
  BY Zenon DEF Sound
<1> QED
  BY <1>1, SoundStarts, SoundStays, PTL DEF Spec, SafetySpec

------------------------------------------------------------------------------
(* Rows and bands *)

\* The rows of one contract come from band after band.
LEMMA RowsAscend ==
  ASSUME Planned, plan # <<>>, data \subseteq Cells(query),
         NEW k \in Shards, NEW l \in Shards, k < l,
         NEW r \in RowsOf(k), NEW s \in RowsOf(l), r.key = s.key
  PROVE  RowBefore(r, s)
<1>1. IsQuery(query) /\ AskedOf[query] = Asked(query)
  BY QueryAssumption, Zenon DEF Planned, AskedOf
<1>2. PICK width \in Widths : plan = PlanQuery(query, width)
  BY Zenon DEF Planned
<1>3. width \in Nat
  BY <1>2, QueryAssumption, SMT
<1>4. SelectAxis(query) \in {"date", "time"} /\ \E n \in Nat : PlanIs(query, width, n)
  BY <1>1, <1>2, <1>3, PlansAreBands
<1>5. PICK n \in Nat : PlanIs(query, width, n)
  BY <1>4
<1>6. SelectAxis(query) # "none" /\ n \in Nat
  BY <1>4, SMT
<1>7. /\ r.at \in Asked(query) /\ s.at \in Asked(query)
      /\ Covers(plan[k], r.at) /\ Covers(plan[l], s.at)
      /\ plan[k].right = Own \/ plan[k].right = r.key[2]
      /\ plan[l].right = Own \/ plan[l].right = s.key[2]
  <2>1. r \in Cells(query) /\ s \in Cells(query) /\ InBand(r, plan[k]) /\ InBand(s, plan[l])
    BY Zenon DEF RowsOf
  <2>2. r.at \in Asked(query) /\ s.at \in Asked(query)
    BY <1>1, <2>1, SMT DEF Cells
  <2> QED
    BY <2>1, <2>2, Zenon DEF InBand
<1>8. \A right : \A i \in 1..n : BandOf(query, n, right, i).right = right
  <2> TAKE right
  <2> TAKE i \in 1..n
  <2> QED
    BY <1>1, <1>5, <1>6, BandsOfAPlan
<1>9. SUFFICES r.at # s.at /\ AtMost(r.at, s.at)
  BY Zenon DEF RowBefore
<1>10. \/ /\ Shards = 1..n
          /\ \A i \in 1..n : plan[i] = BandOf(query, n, Own, i)
       \/ /\ Shards = 1..(2 * n)
          /\ \A i \in 1..n : /\ plan[i] = BandOf(query, n, Call, i)
                             /\ plan[n + i] = BandOf(query, n, Put, i)
  BY <1>2, <1>5, <1>6, PlanIsASequence, SMTT(30) DEF Shards
<1>11. CASE /\ Shards = 1..n
            /\ \A i \in 1..n : plan[i] = BandOf(query, n, Own, i)
  <2>1. /\ k \in 1..n /\ plan[k] = BandOf(query, n, Own, k)
        /\ l \in 1..n /\ plan[l] = BandOf(query, n, Own, l)
    BY <1>11, Zenon
  <2> QED
    BY <1>1, <1>5, <1>6, <1>7, <2>1, BandsAscend, SMTT(30)
<1>12. CASE /\ Shards = 1..(2 * n)
            /\ \A i \in 1..n : /\ plan[i] = BandOf(query, n, Call, i)
                               /\ plan[n + i] = BandOf(query, n, Put, i)
  <2>1. ASSUME NEW m \in Shards
        PROVE  \/ m \in 1..n /\ plan[m] = BandOf(query, n, Call, m) /\ plan[m].right = Call
               \/ m - n \in 1..n /\ plan[m] = BandOf(query, n, Put, m - n) /\ plan[m].right = Put
    <3>1. m \in 1..n \/ (m - n \in 1..n /\ n + (m - n) = m)
      BY <1>6, <1>12, SMT
    <3> QED
      BY <1>8, <1>12, <3>1
  <2>2. plan[k].right = plan[l].right
    <3>1. Call # Own /\ Put # Own
      BY SMT DEF Call, Put, Own
    <3> QED
      BY <1>7, <2>1, <3>1, Zenon
  <2>3. Call # Put
    BY SMT DEF Call, Put
  <2>4. CASE plan[k].right = Call
    <3>1. /\ k \in 1..n /\ plan[k] = BandOf(query, n, Call, k)
          /\ l \in 1..n /\ plan[l] = BandOf(query, n, Call, l)
      BY <2>1, <2>2, <2>3, <2>4, Zenon
    <3> QED
      BY <1>1, <1>5, <1>6, <1>7, <3>1, BandsAscend, SMTT(30)
  <2>5. CASE plan[k].right = Put
    <3>1. /\ k - n \in 1..n /\ plan[k] = BandOf(query, n, Put, k - n)
          /\ l - n \in 1..n /\ plan[l] = BandOf(query, n, Put, l - n)
      BY <2>1, <2>2, <2>3, <2>5, Zenon
    <3>2. k - n < l - n
      BY <1>6, <1>12, SMT
    <3> QED
      BY <1>1, <1>5, <1>6, <1>7, <3>1, <3>2, BandsAscend, SMTT(30)
  <2> QED
    BY <2>1, <2>4, <2>5, Zenon
<1> QED
  BY <1>10, <1>11, <1>12

\* Every row is in a band.
LEMMA RowsAreCovered ==
  ASSUME Planned, plan # <<>>, data \subseteq Cells(query), NEW r \in data
  PROVE  \E k \in Shards : r \in RowsOf(k)
<1>1. BandsAreSound
  BY PlannedIsSound, Zenon DEF PlanIsSound
<1>2. r.key \in Keys(query) /\ r.at \in AskedOf[query]
  BY SMT DEF Cells
<1>3. r.key[2] \in RightsAsked(query)
  <2>1. CASE query.contract = "chain"
    <3>1. r.key \in (1..Contracts) \X RightsAsked(query)
      BY <1>2, <2>1, Zenon DEF Keys
    <3> QED
      BY <3>1
  <2>2. CASE query.contract # "chain"
    <3>1. r.key = <<0, Call>>
      BY <1>2, <2>2, Zenon DEF Keys
    <3> QED
      BY <3>1, SMT DEF RightsAsked
  <2> QED
    BY <2>1, <2>2
<1> DEFINE row == [key |-> <<0, r.key[2]>>, at |-> r.at]
           S == {k \in Shards : InBand(row, plan[k])}
<1>4. Cardinality(S) = 1
  BY <1>1, <1>2, <1>3, Zenon DEF BandsAreSound
<1>5. S # {}
  <2> HIDE DEF S
  <2>1. Cardinality({}) = 0 /\ 0 # 1
    BY FS_EmptySet
  <2> QED
    BY <1>4, <2>1, Zenon
<1>6. PICK k \in Shards : InBand(row, plan[k])
  BY <1>5, Zenon
<1>7. row.key[2] = r.key[2] /\ row.at = r.at
  BY SMT
<1> HIDE DEF row
<1> QED
  BY <1>6, <1>7, Zenon DEF InBand, RowsOf

------------------------------------------------------------------------------
(* A stable sort *)

\* The place of each member of a finite set in a total order of it: one more than those
\* before it.
LEMMA Ranking ==
  ASSUME NEW S, IsFiniteSet(S), NEW R,
         \A a \in S : <<a, a>> \notin R,
         \A a, b \in S : a # b => <<a, b>> \in R \/ <<b, a>> \in R,
         \A a, b, c \in S : <<a, b>> \in R /\ <<b, c>> \in R => <<a, c>> \in R,
         NEW f, f = [a \in S |-> Cardinality({b \in S : <<b, a>> \in R}) + 1]
  PROVE  /\ Cardinality(S) \in Nat
         /\ \A a \in S : f[a] \in 1..Cardinality(S)
         /\ \A i \in 1..Cardinality(S) : \E a \in S : f[a] = i
         /\ \A a, b \in S : f[a] < f[b] <=> <<a, b>> \in R
         /\ \A a, b \in S : f[a] = f[b] => a = b
<1> DEFINE n == Cardinality(S)
           Below(a) == {b \in S : <<b, a>> \in R}
<1>1. n \in Nat
  BY FS_CardinalityType
<1>2. ASSUME NEW a \in S
      PROVE  /\ IsFiniteSet(Below(a)) /\ Cardinality(Below(a)) \in Nat
             /\ f[a] = Cardinality(Below(a)) + 1
  <2>1. Below(a) \in SUBSET S
    BY Zenon
  <2>2. IsFiniteSet(Below(a))
    BY <2>1, FS_Subset
  <2> QED
    BY <2>2, FS_CardinalityType, Zenon
<1>3. ASSUME NEW a \in S PROVE f[a] \in 1..n
  <2>1. IsFiniteSet(S \ {a}) /\ Cardinality(S \ {a}) = n - 1
    BY FS_RemoveElement
  <2>2. Below(a) \in SUBSET (S \ {a})
    BY Zenon
  <2>3. Cardinality(Below(a)) <= Cardinality(S \ {a})
    <3> HIDE DEF Below
    <3> QED
      BY <2>1, <2>2, FS_Subset
  <2> HIDE DEF n, Below
  <2> QED
    BY <1>1, <1>2, <2>1, <2>3, SMT
<1>4. ASSUME NEW a \in S, NEW b \in S, <<a, b>> \in R PROVE f[a] < f[b]
  <2>1. Below(a) \in SUBSET Below(b)
    BY <1>4, Zenon
  <2>2. a \in Below(b) /\ a \notin Below(a)
    BY <1>4, Zenon
  <2>3. /\ Cardinality(Below(a)) <= Cardinality(Below(b))
        /\ Cardinality(Below(a)) # Cardinality(Below(b))
    <3>1. IsFiniteSet(Below(b))
      BY <1>2
    <3> HIDE DEF Below
    <3> QED
      BY <2>1, <2>2, <3>1, FS_Subset, Zenon
  <2> HIDE DEF Below
  <2> QED
    BY <1>2, <2>3, SMT
<1>5. ASSUME NEW a \in S, NEW b \in S, f[a] < f[b] PROVE <<a, b>> \in R
  <2>1. f[a] \in Int /\ f[b] \in Int
    BY <1>1, <1>3, SMT
  <2>2. a # b
    BY <1>5, <2>1, SMT
  <2>3. <<b, a>> \notin R
    <3>1. ~(f[b] < f[a])
      BY <1>5, <2>1, SMT
    <3> QED
      BY <1>4, <3>1, Zenon
  <2> QED
    BY <2>2, <2>3, Zenon
<1>6. ASSUME NEW a \in S, NEW b \in S, f[a] = f[b] PROVE a = b
  <2>1. f[a] \in Int /\ f[b] \in Int
    BY <1>1, <1>3, SMT
  <2>2. ~(f[a] < f[b]) /\ ~(f[b] < f[a])
    BY <1>6, <2>1, SMT
  <2> QED
    BY <1>4, <2>2, Zenon
<1>7. f \in Surjection(S, 1..n)
  <2>1. DOMAIN f = S /\ f = [a \in S |-> f[a]]
    BY Zenon
  <2>2. f \in [S -> 1..n]
    BY <1>3, <2>1, Zenon
  <2>3. f \in Injection(S, 1..n)
    BY <1>6, <2>1, <2>2, Zenon DEF Injection, IsInjective
  <2>4. IsFiniteSet(1..n) /\ Cardinality(1..n) = n
    <3>1. IsFiniteSet(1..n) /\ Cardinality(1..n) = IF 1 > n THEN 0 ELSE n - 1 + 1
      <4>1. 1 \in Int /\ n \in Int
        BY <1>1, SMT
      <4> HIDE DEF n
      <4> QED
        BY <4>1, FS_Interval
    <3> HIDE DEF n
    <3> QED
      BY <1>1, <3>1, SMT
  <2> QED
    BY <2>3, <2>4, FS_Injection
<1> HIDE DEF n
<1>8. \A i \in 1..n : \E a \in S : f[a] = i
  BY <1>7, Zenon DEF Surjection
<1> QED
  BY <1>1, <1>3, <1>4, <1>5, <1>6, <1>8, Zenon DEF n

\* How pairs of numbers are compared.
LEMMA PairsAreOrdered ==
  ASSUME NEW a \in Int \X Int, NEW b \in Int \X Int, NEW c \in Int \X Int
  PROVE  /\ ~Before(a, a)
         /\ a # b => Before(a, b) \/ Before(b, a)
         /\ Before(a, b) /\ Before(b, c) => Before(a, c)
<1>1. /\ a = <<a[1], a[2]>> /\ b = <<b[1], b[2]>>
      /\ a[1] \in Int /\ a[2] \in Int /\ b[1] \in Int /\ b[2] \in Int
      /\ c[1] \in Int /\ c[2] \in Int
  BY SMT
<1>2. a # b => a[1] # b[1] \/ a[2] # b[2]
  BY <1>1, Zenon
<1> QED
  BY <1>1, <1>2, SMT DEF Before

\* What bands have gathered: for each a sequence of rows.
AreRows(rows) ==
    /\ IsFiniteSet(DOMAIN rows) /\ DOMAIN rows \subseteq Int
    /\ \A k \in DOMAIN rows :
         /\ \E n \in Nat : DOMAIN rows[k] = 1..n
         /\ \A i \in DOMAIN rows[k] : rows[k][i].key \in Int \X Int

\* The places of rows.
LEMMA PlacesAre ==
  ASSUME NEW rows, AreRows(rows)
  PROVE  /\ IsFiniteSet(Places(rows))
         /\ \A p \in Places(rows) :
              /\ p \in Int \X Int /\ p = <<p[1], p[2]>>
              /\ p[1] \in DOMAIN rows /\ p[2] \in DOMAIN rows[p[1]]
              /\ RowAt(rows, p).key \in Int \X Int
         /\ \A k \in DOMAIN rows : \A i \in DOMAIN rows[k] : <<k, i>> \in Places(rows)
<1> DEFINE D == DOMAIN rows
           T == {{k} \X DOMAIN rows[k] : k \in D}
           f == [k \in D |-> {k} \X DOMAIN rows[k]]
<1>1. f \in Surjection(D, T)
  BY Zenon DEF Surjection
<1>2. IsFiniteSet(T)
  <2>1. IsFiniteSet(D)
    BY Zenon DEF AreRows
  <2> HIDE DEF D, T, f
  <2> QED
    BY <1>1, <2>1, FS_Surjection
<1>3. ASSUME NEW t \in T PROVE IsFiniteSet(t)
  <2>1. PICK k \in D : t = {k} \X DOMAIN rows[k]
    OBVIOUS
  <2>2. PICK n \in Nat : DOMAIN rows[k] = 1..n
    BY Zenon DEF AreRows
  <2>3. IsFiniteSet({k})
    BY FS_Singleton
  <2>4. IsFiniteSet(DOMAIN rows[k])
    <3>1. 1 \in Int /\ n \in Int
      BY SMT
    <3> QED
      BY <2>2, <3>1, FS_Interval, Zenon
  <2> QED
    BY <2>1, <2>3, <2>4, FS_Product, Zenon
<1>4. IsFiniteSet(Places(rows))
  <2>1. Places(rows) = UNION T
    BY Zenon DEF Places
  <2> HIDE DEF T
  <2> QED
    BY <1>2, <1>3, <2>1, FS_UNION, Zenon
<1>5. ASSUME NEW p \in Places(rows)
      PROVE  /\ p \in Int \X Int /\ p = <<p[1], p[2]>>
             /\ p[1] \in D /\ p[2] \in DOMAIN rows[p[1]]
             /\ RowAt(rows, p).key \in Int \X Int
  <2>1. PICK k \in D : p \in {k} \X DOMAIN rows[k]
    BY Zenon DEF Places
  <2>2. p = <<p[1], p[2]>> /\ p[1] = k /\ p[2] \in DOMAIN rows[k]
    BY <2>1, SMT
  <2>3. k \in Int
    BY Zenon DEF AreRows
  <2>4. PICK n \in Nat : DOMAIN rows[k] = 1..n
    BY Zenon DEF AreRows
  <2>5. p[2] \in Int
    BY <2>2, <2>4, SMT
  <2>6. p \in Int \X Int
    BY <2>2, <2>3, <2>5, SMT
  <2>7. RowAt(rows, p).key \in Int \X Int
    BY <2>2, Zenon DEF RowAt, AreRows
  <2> QED
    BY <2>2, <2>6, <2>7, Zenon
<1>6. ASSUME NEW k \in D, NEW i \in DOMAIN rows[k] PROVE <<k, i>> \in Places(rows)
  <2>1. <<k, i>> \in {k} \X DOMAIN rows[k]
    BY SMT
  <2> QED
    BY <2>1, Zenon DEF Places
<1> QED
  BY <1>4, <1>5, <1>6, Zenon

\* Each place holds one row, and the rows are in order (mdds/shard.rs:1562).
LEMMA MergedIsSorted ==
  ASSUME NEW rows, AreRows(rows)
  PROVE  /\ DOMAIN Merged(rows) \subseteq Int
         /\ \A i \in DOMAIN Merged(rows) :
              \E p \in Places(rows) : PlaceOf(rows, p) = i /\ Merged(rows)[i] = RowAt(rows, p)
         /\ \A p \in Places(rows) : \E i \in DOMAIN Merged(rows) :
              Merged(rows)[i] = RowAt(rows, p)
         /\ \A p, q \in Places(rows) :
              PlaceOf(rows, p) < PlaceOf(rows, q) => Precedes(rows, p, q)
<1> DEFINE S == Places(rows)
           R == {pq \in S \X S : Precedes(rows, pq[1], pq[2])}
           f == [p \in S |-> Cardinality({q \in S : <<q, p>> \in R}) + 1]
           n == Cardinality(S)
<1>1. IsFiniteSet(S)
  BY PlacesAre
<1>2. \A p, q \in S : <<p, q>> \in R <=> Precedes(rows, p, q)
  BY SMT
<1>3. ASSUME NEW p \in S PROVE f[p] = PlaceOf(rows, p)
  <2>1. {q \in S : <<q, p>> \in R} = {q \in S : Precedes(rows, q, p)}
    BY <1>2, Zenon
  <2> HIDE DEF R
  <2> QED
    BY <2>1, Zenon DEF PlaceOf
<1> DEFINE key(p) == RowAt(rows, p).key
<1>4. \A p \in S : p \in Int \X Int /\ key(p) \in Int \X Int
  BY PlacesAre, Zenon
<1> HIDE DEF S, key
<1>5. \A p, q \in S : Precedes(rows, p, q)
                        <=> Before(key(p), key(q)) \/ (key(p) = key(q) /\ Before(p, q))
  BY Zenon DEF Precedes, key
<1> HIDE DEF R
<1>6. ASSUME NEW p \in S PROVE <<p, p>> \notin R
  BY <1>2, <1>4, <1>5, PairsAreOrdered, Zenon
<1>7. ASSUME NEW p \in S, NEW q \in S, p # q PROVE <<p, q>> \in R \/ <<q, p>> \in R
  BY <1>2, <1>4, <1>5, <1>7, PairsAreOrdered, Zenon
<1>8. ASSUME NEW p \in S, NEW q \in S, NEW r \in S, <<p, q>> \in R, <<q, r>> \in R
      PROVE  <<p, r>> \in R
  <2>1. /\ Before(key(p), key(q)) \/ (key(p) = key(q) /\ Before(p, q))
        /\ Before(key(q), key(r)) \/ (key(q) = key(r) /\ Before(q, r))
    BY <1>2, <1>5, <1>8, Zenon
  <2>2. Before(key(p), key(q)) /\ Before(key(q), key(r)) => Before(key(p), key(r))
    BY <1>4, PairsAreOrdered, Zenon
  <2>3. Before(p, q) /\ Before(q, r) => Before(p, r)
    BY <1>4, PairsAreOrdered, Zenon
  <2>4. Before(key(p), key(r)) \/ (key(p) = key(r) /\ Before(p, r))
    BY <2>1, <2>2, <2>3
  <2> QED
    BY <1>2, <1>5, <2>4, Zenon
<1> DEFINE Places1 == 1..n
<1>9. /\ n \in Nat
      /\ \A p \in S : f[p] \in 1..n
      /\ \A i \in 1..n : \E p \in S : f[p] = i
      /\ \A p, q \in S : f[p] < f[q] <=> <<p, q>> \in R
      /\ \A p, q \in S : f[p] = f[q] => p = q
  BY <1>1, <1>6, <1>7, <1>8, Ranking
<1> HIDE DEF f, n
<1>10. DOMAIN Merged(rows) = 1..n
       /\ \A i \in 1..n : Merged(rows)[i] = RowAt(rows, CHOOSE p \in S : PlaceOf(rows, p) = i)
  BY Zenon DEF Merged, n, S
<1>11. ASSUME NEW i \in 1..n
       PROVE  \E p \in S : PlaceOf(rows, p) = i /\ Merged(rows)[i] = RowAt(rows, p)
  <2> DEFINE p == CHOOSE p \in S : PlaceOf(rows, p) = i
  <2>1. \E q \in S : PlaceOf(rows, q) = i
    BY <1>3, <1>9, Zenon
  <2>2. p \in S /\ PlaceOf(rows, p) = i
    BY <2>1, Zenon
  <2> QED
    BY <1>10, <2>2, Zenon
<1>12. ASSUME NEW p \in S PROVE \E i \in 1..n : Merged(rows)[i] = RowAt(rows, p)
  <2>1. f[p] \in 1..n
    BY <1>9
  <2>2. PICK q \in S : PlaceOf(rows, q) = f[p] /\ Merged(rows)[f[p]] = RowAt(rows, q)
    BY <1>11, <2>1, Zenon
  <2>3. q = p
    BY <1>3, <1>9, <2>2, Zenon
  <2> QED
    BY <2>1, <2>2, <2>3
<1>13. \A p, q \in S : PlaceOf(rows, p) < PlaceOf(rows, q) => Precedes(rows, p, q)
  BY <1>2, <1>3, <1>9, Zenon
<1>14. DOMAIN Merged(rows) \subseteq Int
  BY <1>9, <1>10, SMT
<1> QED
  BY <1>10, <1>11, <1>12, <1>13, <1>14, Zenon DEF S

------------------------------------------------------------------------------
(* The answer *)

\* What a band has gathered is in the order of time for each contract, and what it is sent
\* next is no earlier than what it has.
BandInOrder(k) ==
    /\ \A i, j \in DOMAIN got[k] :
         i < j /\ got[k][i].key = got[k][j].key => AtMost(got[k][i].at, got[k][j].at)
    /\ \A r \in sent[k] : \A s \in RowsOf(k) \ sent[k] :
         r.key = s.key => AtMost(r.at, s.at)

\* The strengthening: what AnswersAreTruthful needs besides Sound.
Ordered ==
    /\ Sound
    /\ plan = <<>> => result = "single"
    /\ \A k \in Shards : BandInOrder(k)

\* A call begins so.
LEMMA OrderedStarts == Init => Ordered
<1> SUFFICES ASSUME Init PROVE Ordered
  OBVIOUS
<1>1. Sound
  BY SoundStarts
<1>2. plan = <<>> => result = "single"
  BY Zenon DEF Init
<1>3. ASSUME NEW k \in Shards PROVE BandInOrder(k)
  <2>1. sent[k] = {} /\ got[k] = <<>>
    BY Zenon DEF Init
  <2> QED
    BY <2>1, SMT DEF BandInOrder
<1> QED
  BY <1>1, <1>2, <1>3, Zenon DEF Ordered

\* A band that is sent nothing stays in order.
LEMMA OrderedFrame ==
  ASSUME Ordered, UNCHANGED fixed, NEW k \in Shards,
         \/ sent'[k] = sent[k] /\ got'[k] = got[k]
         \/ sent'[k] = {} /\ got'[k] = <<>>
  PROVE  BandInOrder(k)'
<1>1. BandInOrder(k) /\ Planned
  BY Zenon DEF Ordered, Sound
<1>2. RowsOf(k)' = RowsOf(k)
  BY <1>1, Frame, Zenon
<1>3. CASE sent'[k] = sent[k] /\ got'[k] = got[k]
  BY <1>1, <1>2, <1>3, Zenon DEF BandInOrder
<1>4. CASE sent'[k] = {} /\ got'[k] = <<>>
  BY <1>4, SMT DEF BandInOrder
<1> QED
  BY <1>3, <1>4

\* A band is sent the earliest row of a contract.
LEMMA ChunkInOrder ==
  ASSUME Ordered, NEW k \in Shards, Chunk(k)
  PROVE  \A j \in Shards : BandInOrder(j)'
<1>1. PICK r \in Upcoming(k) :
        sent' = [sent EXCEPT ![k] = @ \cup {r}] /\ got' = [got EXCEPT ![k] = Append(@, r)]
  BY Zenon DEF Chunk
<1>2. UNCHANGED fixed
  BY Zenon DEF Chunk
<1>3. TypeOK /\ Planned /\ BandSound(k) /\ BandInOrder(k)
  BY Zenon DEF Ordered, Sound
<1>4. RowsOf(k)' = RowsOf(k)
  BY <1>2, <1>3, Frame, Zenon
<1>5. /\ r \in data /\ r \in RowsOf(k) \ sent[k]
      /\ \A s \in RowsOf(k) \ sent[k] : s.key = r.key => AtMost(r.at, s.at)
  BY <1>1, Zenon DEF Upcoming, RowsOf
<1>6. /\ got \in [Shards -> Seq(data)] /\ sent \in [Shards -> SUBSET data]
      /\ got[k] \in Seq(data)
  BY <1>3, Zenon DEF TypeOK
<1>7. sent'[k] = sent[k] \cup {r} /\ got'[k] = Append(got[k], r)
  BY <1>1, <1>6, Zenon
<1>8. ASSUME NEW j \in Shards, j # k PROVE BandInOrder(j)'
  <2>1. sent'[j] = sent[j] /\ got'[j] = got[j]
    BY <1>1, <1>6, <1>8, SMT
  <2> QED
    BY <1>2, <2>1, OrderedFrame
<1>9. ASSUME NEW e \in sent[k]', NEW s \in RowsOf(k)' \ sent[k]', e.key = s.key
      PROVE  AtMost(e.at, s.at)
  <2>1. s \in RowsOf(k) \ sent[k] /\ (e \in sent[k] \/ e = r)
    BY <1>4, <1>7, Zenon
  <2>2. CASE e \in sent[k]
    BY <1>3, <1>9, <2>1, <2>2, Zenon DEF BandInOrder
  <2>3. CASE e = r
    BY <1>5, <1>9, <2>1, <2>3, Zenon
  <2> QED
    BY <2>1, <2>2, <2>3
<1>10. ASSUME NEW i \in DOMAIN got[k]', NEW j \in DOMAIN got[k]', i < j,
              got[k]'[i].key = got[k]'[j].key
       PROVE  AtMost(got[k]'[i].at, got[k]'[j].at)
  <2> DEFINE n == Len(got[k])
  <2>1. /\ n \in Nat /\ DOMAIN got[k] = 1..n /\ DOMAIN got[k]' = 1..(n + 1)
        /\ \A m \in 1..n : got[k]'[m] = got[k][m]
        /\ got[k]'[n + 1] = r
    BY <1>5, <1>6, <1>7, SMT
  <2> HIDE DEF n
  <2>2. i \in 1..n /\ (j \in 1..n \/ j = n + 1)
    BY <1>10, <2>1, SMT
  <2>3. CASE j \in 1..n
    BY <1>3, <1>10, <2>1, <2>2, <2>3, Zenon DEF BandInOrder
  <2>4. CASE j = n + 1
    <3>1. got[k][i] \in sent[k]
      BY <1>3, <2>1, <2>2, Zenon DEF BandSound, ToSet
    <3>2. got[k][i].key = r.key
      BY <1>10, <2>1, <2>2, <2>4, Zenon
    <3>3. AtMost(got[k][i].at, r.at)
      BY <1>3, <1>5, <3>1, <3>2, Zenon DEF BandInOrder
    <3> QED
      BY <2>1, <2>2, <2>4, <3>3, Zenon
  <2> QED
    BY <2>2, <2>3, <2>4
<1>11. BandInOrder(k)'
  BY <1>9, <1>10, Zenon DEF BandInOrder
<1> QED
  BY <1>8, <1>11, Zenon

\* No step disturbs the order.
LEMMA OrderedStays == Ordered /\ [Next]_vars => Ordered'
<1> SUFFICES ASSUME Ordered, [Next]_vars PROVE Ordered'
  OBVIOUS
<1>1. Sound /\ Sound'
  BY SoundStays, Zenon DEF Ordered
<1>2. UNCHANGED fixed /\ Planned
  BY <1>1, FixedStays, Zenon DEF Sound
<1>3. Shards' = Shards /\ plan' = plan
  BY <1>2, Zenon DEF Shards, fixed
<1>4. plan' = <<>> => result' = "single"
  <2> SUFFICES ASSUME plan = <<>> PROVE result' = "single"
    BY <1>3, Zenon
  <2>1. result = "single" /\ Shards = {}
    BY SMT DEF Ordered, Shards
  <2>2. result # "running" /\ \A k \in Shards : ~BandStep(k)
    BY <2>1, SMT
  <2>3. CASE UNCHANGED vars
    BY <2>1, <2>3, Zenon DEF vars
  <2>4. CASE HandlerAsks \/ HandlerStep
    BY <2>1, <2>4, Zenon DEF HandlerAsks, HandlerStep, HandlerReturns, NestedAcquires, NestedEnds
  <2>5. CASE JoinStep \/ Timeout
    BY <2>2, <2>5, Zenon DEF JoinStep, JoinsNext, JoinsAll, Joins, Timeout
  <2> QED
    BY <2>2, <2>3, <2>4, <2>5, Zenon DEF Next
<1>5. \A k \in Shards : BandInOrder(k)'
  <2>1. ASSUME UNCHANGED <<sent, got>> PROVE \A k \in Shards : BandInOrder(k)'
    BY <1>2, <2>1, OrderedFrame, Zenon
  <2>2. CASE UNCHANGED vars
    BY <2>1, <2>2, Zenon DEF vars, bands
  <2>3. CASE HandlerAsks \/ HandlerStep
    BY <2>1, <2>3, Zenon
       DEF HandlerAsks, HandlerStep, HandlerReturns, NestedAcquires, NestedEnds, bands
  <2>4. CASE JoinStep
    BY <2>1, <2>4, Zenon DEF JoinStep, JoinsNext, JoinsAll, Joins, bands
  <2>5. CASE Timeout
    BY <2>1, <2>5, Zenon DEF Timeout
  <2>6. ASSUME NEW k \in Shards, BandStep(k) PROVE \A j \in Shards : BandInOrder(j)'
    <3>1. CASE Chunk(k)
      BY <3>1, ChunkInOrder
    <3>2. CASE Replay(k)
      <4>1. /\ sent' = [sent EXCEPT ![k] = {}]
            /\ got' = IF mode = "buffered" THEN [got EXCEPT ![k] = <<>>] ELSE got
            /\ mode = "streamed" => ~some[k]
        BY <3>2, Zenon DEF Replay, MayReplay
      <4>2. /\ got \in [Shards -> Seq(data)] /\ sent \in [Shards -> SUBSET data]
            /\ mode \in {"buffered", "streamed"}
        BY <1>1, Zenon DEF Sound, TypeOK
      <4>3. ~some[k] => got[k] = <<>>
        BY <1>1, Zenon DEF Sound, BandSound
      <4>4. got'[k] = <<>> /\ \A j \in Shards \ {k} : got'[j] = got[j]
        BY <4>1, <4>2, <4>3, SMT
      <4>5. sent'[k] = {} /\ \A j \in Shards \ {k} : sent'[j] = sent[j]
        BY <4>1, <4>2, SMT
      <4> QED
        BY <1>2, <4>4, <4>5, OrderedFrame, Zenon
    <3>3. CASE Acquire(k) \/ Completes(k) \/ NothingFound(k) \/ Fails(k) \/ Aborts(k)
      BY <2>1, <3>3, Zenon DEF Acquire, Completes, NothingFound, Fails, Ends, Aborts
    <3> QED
      BY <2>6, <3>1, <3>2, <3>3, Zenon DEF BandStep
  <2> QED
    BY <2>2, <2>3, <2>4, <2>5, <2>6, Zenon DEF Next
<1> QED
  BY <1>1, <1>3, <1>4, <1>5, Zenon DEF Ordered

\* The members of a set of rows.
LEMMA RowsAreRecords ==
  ASSUME data \subseteq Cells(query), NEW r \in data, NEW s \in data
  PROVE  r.key \in Int \X Int /\ (r.key = s.key /\ r.at = s.at => r = s)
<1>1. r \in Cells(query) /\ s \in Cells(query)
  OBVIOUS
<1>2. r = [key |-> r.key, at |-> r.at] /\ s = [key |-> s.key, at |-> s.at]
  BY <1>1, SMT DEF Cells
<1>3. r.key \in Keys(query)
  BY <1>1, SMT DEF Cells
<1>4. Call \in Int /\ Put \in Int /\ 0 \in Int /\ (1..Contracts) \subseteq Int
  BY QueryAssumption, SMT DEF Call, Put
<1>5. RightsAsked(query) \subseteq Int
  BY <1>4, Zenon DEF RightsAsked
<1>6. r.key \in Int \X Int
  BY <1>3, <1>4, <1>5, SMT DEF Keys
<1> QED
  BY <1>2, <1>6, Zenon

\* The bands of a plan together give the rows of the query, each in its place.
LEMMA OrderedIsTruthful == Ordered => AnswersAreTruthful
<1> SUFFICES ASSUME Ordered PROVE AnswersAreTruthful
  OBVIOUS
<1>1. BandsAreTruthful /\ Sound /\ TypeOK /\ Planned
  BY SoundIsTruthful, Zenon DEF Ordered, Sound
<1> SUFFICES ASSUME mode = "buffered", result = "ok"
             PROVE  /\ ToSet(Merged(got)) = data
                    /\ \A i, j \in DOMAIN Merged(got) :
                         i < j => RowBefore(Merged(got)[i], Merged(got)[j])
  BY <1>1, Zenon DEF AnswersAreTruthful
<1>2. plan # <<>>
  BY SMT DEF Ordered
<1>3. data \subseteq Cells(query) /\ got \in [Shards -> Seq(data)]
  BY <1>1, Zenon DEF TypeOK
<1>4. \A k \in Shards : Exact(k) /\ BandInOrder(k)
  BY <1>1, Zenon DEF BandsAreTruthful, Ordered
<1>5. DOMAIN got = Shards /\ IsFiniteSet(Shards) /\ Shards \subseteq Int
  <2>1. Len(plan) \in Nat /\ Shards = 1..Len(plan)
    BY <1>1, PlanLength
  <2>2. IsFiniteSet(Shards)
    BY <1>1, BusyIsFinite
  <2>3. Shards \subseteq Int
    BY <2>1, SMT
  <2> QED
    BY <1>3, <2>2, <2>3, Zenon
<1>6. ASSUME NEW k \in Shards
      PROVE  /\ \E n \in Nat : DOMAIN got[k] = 1..n
             /\ DOMAIN got[k] \subseteq Int
             /\ \A i \in DOMAIN got[k] : got[k][i] \in data
  <2>1. got[k] \in Seq(data)
    BY <1>3, Zenon
  <2>2. Len(got[k]) \in Nat /\ DOMAIN got[k] = 1..Len(got[k])
        /\ \A i \in 1..Len(got[k]) : got[k][i] \in data
    BY <2>1, SMT
  <2>3. DOMAIN got[k] \subseteq Int
    BY <2>2, SMT
  <2> QED
    BY <2>2, <2>3, Zenon
<1>7. AreRows(got)
  <2>1. \A k \in Shards : \A i \in DOMAIN got[k] : got[k][i].key \in Int \X Int
    BY <1>3, <1>6, RowsAreRecords, Zenon
  <2> QED
    BY <1>5, <1>6, <2>1, Zenon DEF AreRows
<1>8. \A k \in Shards : \A i \in DOMAIN got[k] : got[k][i] \in RowsOf(k)
  BY <1>4, Zenon DEF Exact, ToSet
<1>9. /\ DOMAIN Merged(got) \subseteq Int
      /\ \A i \in DOMAIN Merged(got) :
           \E p \in Places(got) : PlaceOf(got, p) = i /\ Merged(got)[i] = RowAt(got, p)
      /\ \A p \in Places(got) : \E i \in DOMAIN Merged(got) : Merged(got)[i] = RowAt(got, p)
      /\ \A p, q \in Places(got) :
           PlaceOf(got, p) < PlaceOf(got, q) => Precedes(got, p, q)
  BY <1>7, MergedIsSorted
<1>10. /\ \A p \in Places(got) :
            p = <<p[1], p[2]>> /\ p[1] \in Shards /\ p[2] \in DOMAIN got[p[1]]
       /\ \A k \in Shards : \A i \in DOMAIN got[k] : <<k, i>> \in Places(got)
  BY <1>5, <1>7, PlacesAre, Zenon
<1>11. ToSet(Merged(got)) = data
  <2>1. ASSUME NEW i \in DOMAIN Merged(got) PROVE Merged(got)[i] \in data
    <3>1. PICK p \in Places(got) : Merged(got)[i] = RowAt(got, p)
      BY <1>9, Zenon
    <3> QED
      BY <1>6, <1>10, <3>1, Zenon DEF RowAt
  <2>2. ASSUME NEW r \in data PROVE \E i \in DOMAIN Merged(got) : Merged(got)[i] = r
    <3>1. PICK k \in Shards : r \in RowsOf(k)
      BY <1>1, <1>2, <1>3, RowsAreCovered
    <3>2. PICK i \in DOMAIN got[k] : got[k][i] = r
      BY <1>4, <3>1, Zenon DEF Exact, ToSet
    <3>3. <<k, i>> \in Places(got) /\ RowAt(got, <<k, i>>) = r
      <4>1. <<k, i>>[1] = k /\ <<k, i>>[2] = i
        BY SMT
      <4> QED
        BY <1>10, <3>2, <4>1, Zenon DEF RowAt
    <3> QED
      BY <1>9, <3>3, Zenon
  <2> QED
    BY <2>1, <2>2, Zenon DEF ToSet
<1>12. ASSUME NEW i \in DOMAIN Merged(got), NEW j \in DOMAIN Merged(got), i < j
       PROVE  RowBefore(Merged(got)[i], Merged(got)[j])
  <2>1. PICK p \in Places(got) : PlaceOf(got, p) = i /\ Merged(got)[i] = RowAt(got, p)
    BY <1>9, Zenon
  <2>2. PICK q \in Places(got) : PlaceOf(got, q) = j /\ Merged(got)[j] = RowAt(got, q)
    BY <1>9, Zenon
  <2>3. Precedes(got, p, q)
    BY <1>9, <1>12, <2>1, <2>2, Zenon
  <2> DEFINE k == p[1]
             l == q[1]
             m == p[2]
             n == q[2]
             r == got[k][m]
             s == got[l][n]
  <2>4. /\ k \in Shards /\ l \in Shards /\ m \in DOMAIN got[k] /\ n \in DOMAIN got[l]
        /\ RowAt(got, p) = r /\ RowAt(got, q) = s
    BY <1>10, Zenon DEF RowAt
  <2> SUFFICES RowBefore(r, s)
    BY <2>1, <2>2, <2>4, Zenon
  <2>5. Before(r.key, s.key) \/ (r.key = s.key /\ Before(p, q))
    BY <2>3, <2>4, Zenon DEF Precedes
  <2>6. CASE Before(r.key, s.key)
    BY <2>6, Zenon DEF RowBefore
  <2>7. CASE r.key = s.key /\ Before(p, q)
    <3>1. k < l \/ (k = l /\ m < n)
      BY <2>7, Zenon DEF Before
    <3>2. CASE k < l
      <4>1. r \in RowsOf(k) /\ s \in RowsOf(l)
        BY <1>8, <2>4, Zenon
      <4> HIDE DEF k, l, r, s
      <4> QED
        BY <1>1, <1>2, <1>3, <2>4, <2>7, <3>2, <4>1, RowsAscend
    <3>3. CASE k = l /\ m < n
      <4>0. m \in Int /\ n \in Int /\ m # n
        <5>1. m \in Int /\ n \in Int
          BY <1>6, <2>4, Zenon
        <5> HIDE DEF m, n
        <5> QED
          BY <3>3, <5>1, SMT
      <4>1. AtMost(r.at, s.at)
        BY <1>4, <2>4, <2>7, <3>3, Zenon DEF BandInOrder
      <4>2. r # s
        BY <1>4, <2>4, <3>3, <4>0, Zenon DEF Exact, IsInjective
      <4>3. r \in data /\ s \in data
        BY <1>6, <2>4, Zenon
      <4>4. r.at # s.at
        <5> HIDE DEF r, s
        <5> QED
          BY <1>3, <2>7, <4>2, <4>3, RowsAreRecords
      <4> QED
        BY <2>7, <4>1, <4>4, Zenon DEF RowBefore
    <3> QED
      BY <3>1, <3>2, <3>3
  <2> QED
    BY <2>5, <2>6, <2>7
<1> QED
  BY <1>11, <1>12

\* What a call reports is what its bands brought, however they ended and were tried again;
\* and a buffered query that succeeds returns every row of the query once, by contract and
\* then in time, however it was cut and in whatever order bands and contracts came
\* (mdds/shard.rs:1102, 1206, 1486, 1562).
THEOREM AnswersAreTrue == Spec => []AnswersAreTruthful
  BY OrderedStarts, OrderedStays, OrderedIsTruthful, PTL DEF Spec, SafetySpec

------------------------------------------------------------------------------
(* The end *)

\* How far a band is from its end: its place, then the attempts and then the rows that
\* it may still get.
Stage(k) == IF pc[k] = "permit" THEN 2 ELSE IF pc[k] = "attempt" THEN 1 ELSE 0
AttemptsLeft(k) == Greater(1, MaxAttempts) - tries[k]
RowsLeft(k) == Cardinality(RowsOf(k) \ sent[k])

\* How far the handler is from its return, and the join from its result.
HandlerLeft ==
    IF handling = 0 THEN 0
    ELSE CASE nested = "none" -> 4 [] nested = "asks" -> 3
           [] nested = "running" -> 2 [] nested = "over" -> 1
JoinLeft == IF result = "running" THEN Len(plan) + 2 - next ELSE 0

\* These are numbers, which cannot fall for ever.
MeasuresAreNat ==
    /\ \A k \in Shards : Stage(k) \in Nat /\ AttemptsLeft(k) \in Nat /\ RowsLeft(k) \in Nat
    /\ HandlerLeft \in Nat /\ JoinLeft \in Nat

Stays(k) ==
    Stage(k)' = Stage(k) /\ AttemptsLeft(k)' = AttemptsLeft(k) /\ RowsLeft(k)' = RowsLeft(k)
Nearer(k) ==
    \/ Stage(k)' < Stage(k)
    \/ Stage(k)' = Stage(k) /\ AttemptsLeft(k)' < AttemptsLeft(k)
    \/ Stage(k)' = Stage(k) /\ AttemptsLeft(k)' = AttemptsLeft(k) /\ RowsLeft(k)' < RowsLeft(k)

\* A step brings some band nearer to its end and no band further from it, or else leaves
\* the bands where they are and brings the handler or the join nearer.
Settles ==
    \/ /\ \E k \in Shards : Nearer(k)
       /\ \A k \in Shards : Nearer(k) \/ Stays(k)
    \/ /\ \A k \in Shards : Stays(k)
       /\ \/ HandlerLeft' < HandlerLeft
          \/ HandlerLeft' = HandlerLeft /\ JoinLeft' < JoinLeft

\* The guard of some step of a band, of the handler or of the join holds.
SomethingMayHappen ==
    \/ \E k \in Shards :
         \/ pc[k] = "permit" /\ Polled /\ Taken < permits
         \/ pc[k] = "attempt" /\ Polled /\ handling = 0
         \/ mode = "buffered" /\ result # "running" /\ Working(k)
    \/ handling # 0 /\ nested \in {"none", "over"}
    \/ nested \in {"asks", "running"}
    \/ /\ result = "running"
       /\ \/ mode = "buffered" /\ (next = Len(plan) + 1 \/ (next \in Shards /\ ~Working(next)))
          \/ mode = "streamed" /\ Drained

NeverStuck == result = "running" \/ ~Drained => SomethingMayHappen

\* A streamed call that has its result has no band at work.
StreamsEnd == mode = "streamed" /\ result # "running" => Drained

\* A query asks for finitely many days or times.
LEMMA AskedIsFinite ==
  ASSUME NEW q, IsQuery(q)
  PROVE  IsFiniteSet(Asked(q))
<1> DEFINE axis == SelectAxis(q)
<1>1. CASE axis = "none"
  <2>1. Asked(q) = {}
    BY <1>1, SMT DEF Asked
  <2> QED
    BY <2>1, FS_EmptySet
<1>2. CASE axis # "none"
  <2> DEFINE f == [w \in Asked(q) |-> OrdOf(axis, w)]
             T == FirstOrd(q)..LastOrd(q)
  <2>1. FirstOrd(q) \in Int /\ LastOrd(q) \in Int
    <3>1. axis \in {"date", "time"}
      BY <1>2, SMT DEF SelectAxis
    <3>2. FirstOf(q) \in Wire(axis) /\ LastOf(q) \in Wire(axis)
      BY <3>1, AxisOfDays, AxisOfTimes
    <3>3. OnAxis(axis, OrdOf(axis, FirstOf(q))) /\ OnAxis(axis, OrdOf(axis, LastOf(q)))
      BY <3>2, OrdOfWire
    <3> QED
      BY <3>3, Zenon DEF FirstOrd, LastOrd, OnAxis
  <2>2. \A w \in Asked(q) : /\ OrdOf(axis, w) \in T
                            /\ OnWire(axis, OrdOf(axis, w)) = w
    <3> SUFFICES ASSUME NEW w \in Asked(q)
                 PROVE  OrdOf(axis, w) \in T /\ OnWire(axis, OrdOf(axis, w)) = w
      OBVIOUS
    <3>1. w \in Wire(axis) /\ FirstOrd(q) <= OrdOf(axis, w) /\ OrdOf(axis, w) <= LastOrd(q)
      BY <1>2, AskedOnAxis
    <3>2. OnAxis(axis, OrdOf(axis, w)) /\ OnWire(axis, OrdOf(axis, w)) = w
      BY <3>1, OrdOfWire
    <3>3. OrdOf(axis, w) \in Int
      BY <3>2, Zenon DEF OnAxis
    <3> QED
      BY <2>1, <3>1, <3>2, <3>3, SMT
  <2>3. f \in [Asked(q) -> T] /\ \A v, w \in Asked(q) : f[v] = f[w] => v = w
    <3> HIDE DEF T
    <3> QED
      BY <2>2, Zenon
  <2>4. IsFiniteSet(T)
    BY <2>1, FS_Interval
  <2> HIDE DEF f, T
  <2>5. f \in Injection(Asked(q), T)
    BY <2>3, Zenon DEF Injection, IsInjective
  <2> QED
    BY <2>4, <2>5, FS_Injection
<1> QED
  BY <1>1, <1>2

\* The server holds finitely many rows of a query.
LEMMA DataIsFinite ==
  ASSUME Planned, data \subseteq Cells(query)
  PROVE  IsFiniteSet(data)
<1> DEFINE K == Keys(query)
           A == AskedOf[query]
           C == [key : K, at : A]
           f == [p \in K \X A |-> [key |-> p[1], at |-> p[2]]]
<1>1. IsFiniteSet(A)
  <2>1. query \in Queries /\ IsQuery(query)
    BY QueryAssumption, Zenon DEF Planned
  <2>2. A = Asked(query)
    BY <2>1, Zenon DEF AskedOf
  <2> QED
    BY <2>1, <2>2, AskedIsFinite
<1>2. IsFiniteSet(K)
  <2>1. IsFiniteSet(1..Contracts)
    BY QueryAssumption, FS_Interval
  <2>2. IsFiniteSet(RightsAsked(query))
    <3>1. RightsAsked(query) \in SUBSET ({Call} \cup {Put})
      BY SMT DEF RightsAsked
    <3>2. IsFiniteSet({Call} \cup {Put})
      BY FS_Singleton, FS_AddElement, Zenon
    <3> QED
      BY <3>1, <3>2, FS_Subset
  <2>3. IsFiniteSet((1..Contracts) \X RightsAsked(query))
    BY <2>1, <2>2, FS_Product
  <2>4. IsFiniteSet({<<0, Call>>})
    BY FS_Singleton
  <2> QED
    BY <2>3, <2>4 DEF Keys
<1>3. IsFiniteSet(K \X A)
  BY <1>1, <1>2, FS_Product
<1>4. f \in Surjection(K \X A, C)
  <2> HIDE DEF K, A
  <2>1. f \in [K \X A -> C]
    BY SMT
  <2>2. ASSUME NEW c \in C PROVE \E p \in K \X A : f[p] = c
    <3>1. /\ <<c.key, c.at>> \in K \X A
          /\ c = [key |-> c.key, at |-> c.at]
      BY SMT
    <3>2. f[<<c.key, c.at>>] = [key |-> c.key, at |-> c.at]
      BY <3>1
    <3> QED
      BY <3>1, <3>2
  <2> HIDE DEF f, C
  <2> QED
    BY <2>1, <2>2, Zenon DEF Surjection
<1>5. IsFiniteSet(C)
  <2> HIDE DEF K, A, C, f
  <2> QED
    BY <1>3, <1>4, FS_Surjection
<1>6. data \in SUBSET C
  BY Zenon DEF Cells
<1> HIDE DEF C
<1> QED
  BY <1>5, <1>6, FS_Subset

\* The measures are numbers.
LEMMA SoundMeasures ==
  ASSUME Sound
  PROVE  /\ MeasuresAreNat
         /\ \A k \in Shards : IsFiniteSet(RowsOf(k))
<1>1. TypeOK /\ Planned
  BY Zenon DEF Sound
<1>2. ASSUME NEW k \in Shards
      PROVE  /\ Stage(k) \in Nat /\ AttemptsLeft(k) \in Nat /\ RowsLeft(k) \in Nat
             /\ IsFiniteSet(RowsOf(k))
  <2>1. Stage(k) \in Nat
    BY SMT DEF Stage
  <2>2. AttemptsLeft(k) \in Nat
    <3>1. tries[k] \in 0..Greater(1, MaxAttempts)
      BY <1>1, Zenon DEF TypeOK
    <3>2. Greater(1, MaxAttempts) \in Nat
      BY QueryAssumption, SMT DEF Greater
    <3> QED
      BY <3>1, <3>2, SMT DEF AttemptsLeft
  <2>3. IsFiniteSet(data)
    BY <1>1, DataIsFinite, Zenon DEF TypeOK
  <2>4. RowsOf(k) \in SUBSET data /\ RowsOf(k) \ sent[k] \in SUBSET data
    BY Zenon DEF RowsOf
  <2>5. IsFiniteSet(RowsOf(k)) /\ IsFiniteSet(RowsOf(k) \ sent[k])
    BY <2>3, <2>4, FS_Subset
  <2>6. RowsLeft(k) \in Nat
    BY <2>5, FS_CardinalityType DEF RowsLeft
  <2> QED
    BY <2>1, <2>2, <2>5, <2>6
<1>3. HandlerLeft \in Nat
  BY <1>1, SMT DEF TypeOK, HandlerLeft
<1>4. JoinLeft \in Nat
  <2>1. next \in 1..(Len(plan) + 1) /\ Len(plan) \in Nat
    BY <1>1, PlanLength, Zenon DEF TypeOK
  <2> QED
    BY <2>1, SMT DEF JoinLeft
<1> QED
  BY <1>2, <1>3, <1>4 DEF MeasuresAreNat

\* So it is at first.
LEMMA StreamsEndFirst == Init => StreamsEnd
<1> SUFFICES ASSUME Init PROVE StreamsEnd
  OBVIOUS
<1>1. ASSUME result # "running", NEW k \in Shards PROVE pc[k] = "aborted"
  <2>1. plan # <<>>
    BY <1>1, SMT DEF Shards
  <2>2. Len(plan) > MaxShards
    BY <1>1, <2>1, SMT DEF Init
  <2> QED
    BY <1>1, <2>2, SMT DEF Init
<1> QED
  BY <1>1, SMT DEF StreamsEnd, Drained, Working

\* And so it stays.
LEMMA StreamsEndStays ==
  ASSUME Sound, StreamsEnd, [Next]_vars
  PROVE  StreamsEnd'
<1>0. Shards' = Shards /\ mode' = mode
  BY FixedStays, Frame, Zenon DEF Sound
<1>1. ASSUME UNCHANGED result, \A k \in Shards : pc'[k] \in {"permit", "attempt"} => Working(k)
      PROVE  StreamsEnd'
  BY <1>0, <1>1, Zenon DEF StreamsEnd, Drained, Working
<1>2. CASE UNCHANGED vars
  BY <1>1, <1>2, SMT DEF vars, bands, Working
<1>3. ASSUME NEW k \in Shards, BandStep(k) PROVE StreamsEnd'
  <2>1. UNCHANGED result
    BY <1>3, Zenon DEF BandStep, Acquire, Chunk, Completes, NothingFound, Fails, Ends, Replay,
                       Aborts
  <2>2. Working(k) /\ \A j \in Shards \ {k} : pc'[j] = pc[j]
    <3>1. pc \in [Shards -> {"permit", "attempt"} \cup Endings]
      BY Zenon DEF Sound, TypeOK
    <3>2. Working(k)
      BY <1>3, SMT DEF BandStep, Acquire, Chunk, Completes, NothingFound, Fails, Ends, Replay,
                       Aborts, Working
    <3>3. pc' = pc \/ \E e : pc' = [pc EXCEPT ![k] = e]
      BY <1>3, Zenon DEF BandStep, Acquire, Chunk, Completes, NothingFound, Fails, Ends, Replay,
                       Aborts
    <3> QED
      BY <3>1, <3>2, <3>3, Zenon
  <2> QED
    BY <1>1, <2>1, <2>2, Zenon DEF Working
<1>4. CASE HandlerAsks \/ HandlerStep
  <2>1. UNCHANGED <<result, pc>>
    BY <1>4, Zenon DEF HandlerAsks, HandlerStep, HandlerReturns, NestedAcquires, NestedEnds, bands
  <2> QED
    BY <1>1, <2>1, Zenon DEF Working
<1>5. CASE JoinStep
  BY <1>0, <1>5, SMT DEF JoinStep, JoinsNext, JoinsAll, Joins, bands, StreamsEnd, Drained, Working
<1>6. CASE Timeout
  <2>1. CASE mode = "buffered"
    BY <1>0, <2>1, SMT DEF StreamsEnd
  <2>2. CASE mode # "buffered"
    <3>1. pc' = [k \in Shards |-> IF Working(k) THEN "aborted" ELSE pc[k]]
      BY <1>6, <2>2, Zenon DEF Timeout
    <3> QED
      BY <1>0, <3>1, SMT DEF StreamsEnd, Drained, Working
  <2> QED
    BY <2>1, <2>2
<1> QED
  BY <1>2, <1>3, <1>4, <1>5, <1>6, Zenon DEF Next

\* While the call runs, or a band is at work, a step may be made.
LEMMA NeverStuckHolds == Sound /\ StreamsEnd => NeverStuck
<1> SUFFICES ASSUME Sound, StreamsEnd, ~NeverStuck PROVE FALSE
  OBVIOUS
<1>0. TypeOK /\ Planned
  BY Zenon DEF Sound
<1>1. ~SomethingMayHappen /\ (result = "running" \/ ~Drained)
  BY Zenon DEF NeverStuck
<1>2. mode \in {"buffered", "streamed"} /\ next \in 1..(Len(plan) + 1)
      /\ nested \in {"none", "asks", "running", "over"}
      /\ pc \in [Shards -> {"permit", "attempt"} \cup Endings]
  BY <1>0, Zenon DEF TypeOK
<1>3. handling = 0 /\ nested # "running"
  BY <1>1, <1>2, SMT DEF SomethingMayHappen
<1>4. result = "running" /\ Polled
  BY <1>1, <1>2, SMT DEF SomethingMayHappen, StreamsEnd, Drained, Polled
<1>5. Shards = 1..Len(plan) /\ Len(plan) \in Nat
  BY <1>0, PlanLength
<1>6. \A k \in Shards : pc[k] # "attempt"
  BY <1>1, <1>3, <1>4, Zenon DEF SomethingMayHappen
<1>7. Taken = 0
  <2>1. Busy = {}
    BY <1>6, Zenon DEF Busy
  <2>2. Cardinality(Busy) = 0
    BY <2>1, FS_EmptySet
  <2> QED
    BY <1>0, <1>3, <2>2, TakenIs
<1>8. Taken < permits
  BY <1>0, <1>7, QueryAssumption, SMT DEF TypeOK
<1>9. \A k \in Shards : pc[k] # "permit"
  BY <1>1, <1>4, <1>8, Zenon DEF SomethingMayHappen
<1>10. \A k \in Shards : ~Working(k)
  BY <1>6, <1>9, SMT DEF Working
<1>11. next = Len(plan) + 1 \/ next \in Shards
  BY <1>2, <1>5, SMT
<1> QED
  BY <1>1, <1>2, <1>4, <1>10, <1>11, SMT DEF SomethingMayHappen, Drained

\* A band that a step does not touch stays where it is.
LEMMA UntouchedStays ==
  ASSUME Sound, UNCHANGED fixed, NEW j \in Shards,
         pc'[j] = pc[j], tries'[j] = tries[j], sent'[j] = sent[j]
  PROVE  Stays(j)
<1>1. RowsOf(j)' = RowsOf(j)
  BY Frame, Zenon DEF Sound
<1> QED
  BY <1>1, Zenon DEF Stays, Stage, AttemptsLeft, RowsLeft

\* A band that makes a step comes nearer to its end.
LEMMA BandSettles ==
  ASSUME Sound, NEW k \in Shards, BandStep(k)
  PROVE  Settles
<1>0. /\ pc \in [Shards -> {"permit", "attempt"} \cup Endings]
      /\ tries \in [Shards -> 0..Greater(1, MaxAttempts)]
      /\ sent \in [Shards -> SUBSET data]
      /\ MaxAttempts \in Nat
  BY QueryAssumption, Zenon DEF Sound, TypeOK
<1>1. UNCHANGED fixed
  BY Zenon DEF BandStep, Acquire, Chunk, Completes, NothingFound, Fails, Ends, Replay, Aborts
<1>2. Shards' = Shards /\ RowsOf(k)' = RowsOf(k)
  BY <1>1, Frame, Zenon DEF Sound
<1>3. ASSUME NEW j \in Shards \ {k} PROVE Stays(j)
  <2>1. pc' = pc \/ \E e : pc' = [pc EXCEPT ![k] = e]
    BY Zenon DEF BandStep, Acquire, Chunk, Completes, NothingFound, Fails, Ends, Replay, Aborts
  <2>2. tries' = tries \/ \E e : tries' = [tries EXCEPT ![k] = e]
    BY Zenon DEF BandStep, Acquire, Chunk, Completes, NothingFound, Fails, Ends, Replay, Aborts
  <2>3. sent' = sent \/ \E e : sent' = [sent EXCEPT ![k] = e]
    BY Zenon DEF BandStep, Acquire, Chunk, Completes, NothingFound, Fails, Ends, Replay, Aborts
  <2>4. pc'[j] = pc[j] /\ tries'[j] = tries[j] /\ sent'[j] = sent[j]
    BY <1>0, <2>1, <2>2, <2>3, Zenon
  <2> QED
    BY <1>1, <2>4, UntouchedStays
<1>4. Nearer(k)
  <2>1. CASE Acquire(k)
    <3>1. pc[k] = "permit" /\ pc'[k] = "attempt"
      BY <1>0, <2>1, Zenon DEF Acquire
    <3>2. Stage(k) = 2 /\ Stage(k)' = 1
      BY <3>1, SMT DEF Stage
    <3> QED
      BY <3>2, SMT DEF Nearer
  <2>2. CASE Chunk(k)
    <3>1. PICK r \in Upcoming(k) : sent' = [sent EXCEPT ![k] = @ \cup {r}]
      BY <2>2, Zenon DEF Chunk
    <3>2. r \in RowsOf(k) \ sent[k] /\ sent'[k] = sent[k] \cup {r}
      BY <1>0, <3>1, Zenon DEF Upcoming
    <3>3. UNCHANGED <<pc, tries>>
      BY <2>2, Zenon DEF Chunk
    <3> DEFINE S == RowsOf(k) \ sent[k]
    <3>4. RowsOf(k)' \ sent'[k] = S \ {r}
      BY <1>2, <3>2, Zenon
    <3>5. IsFiniteSet(S)
      <4>1. S \in SUBSET RowsOf(k)
        BY Zenon
      <4> HIDE DEF S
      <4> QED
        BY <4>1, SoundMeasures, FS_Subset
    <3>6. r \in S
      BY <3>2
    <3> HIDE DEF S
    <3>7. Cardinality(S) \in Nat /\ Cardinality(S \ {r}) = Cardinality(S) - 1
      BY <3>5, <3>6, FS_CardinalityType, FS_RemoveElement, Zenon
    <3>8. RowsLeft(k)' = Cardinality(S \ {r}) /\ RowsLeft(k) = Cardinality(S)
      BY <3>4 DEF RowsLeft, S
    <3>9. RowsLeft(k)' < RowsLeft(k)
      BY <3>7, <3>8, SMT
    <3>10. Stage(k)' = Stage(k) /\ AttemptsLeft(k)' = AttemptsLeft(k)
      BY <3>3, Zenon DEF Stage, AttemptsLeft
    <3> QED
      BY <3>9, <3>10, Zenon DEF Nearer
  <2>3. CASE Completes(k) \/ NothingFound(k) \/ Fails(k)
    <3>1. PICK e \in {"ok", "notfound", "error"} : Ends(k, e)
      BY <2>3, Zenon DEF Completes, NothingFound, Fails
    <3>2. pc[k] = "attempt" /\ pc'[k] = e
      BY <1>0, <3>1, Zenon DEF Ends
    <3>3. Stage(k) = 1 /\ Stage(k)' = 0
      BY <3>1, <3>2, SMT DEF Stage
    <3> QED
      BY <3>3, SMT DEF Nearer
  <2>4. CASE Replay(k)
    <3>1. UNCHANGED pc /\ tries'[k] = tries[k] + 1
      BY <1>0, <2>4, Zenon DEF Replay
    <3>2. Stage(k)' = Stage(k)
      BY <3>1, Zenon DEF Stage
    <3>3. AttemptsLeft(k)' < AttemptsLeft(k)
      <4>1. tries[k] \in Nat /\ Greater(1, MaxAttempts) \in Nat
        BY <1>0, SMT DEF Greater
      <4>2. AttemptsLeft(k)' = Greater(1, MaxAttempts) - (tries[k] + 1)
        BY <3>1, Zenon DEF AttemptsLeft
      <4> QED
        BY <4>1, <4>2, SMT DEF AttemptsLeft
    <3> QED
      BY <3>2, <3>3, Zenon DEF Nearer
  <2>5. CASE Aborts(k)
    <3>1. Working(k) /\ pc'[k] = "aborted"
      BY <1>0, <2>5, Zenon DEF Aborts
    <3>2. Stage(k) \in {1, 2} /\ Stage(k)' = 0
      BY <3>1, SMT DEF Stage, Working
    <3> QED
      BY <3>2, SMT DEF Nearer
  <2> QED
    BY <2>1, <2>2, <2>3, <2>4, <2>5, Zenon DEF BandStep
<1> QED
  BY <1>2, <1>3, <1>4, Zenon DEF Settles

\* So do the handler and the join, and a deadline brings all of them to theirs.
LEMMA CallSettles ==
  ASSUME Sound, HandlerAsks \/ HandlerStep \/ JoinStep \/ Timeout
  PROVE  Settles
<1>0. /\ TypeOK /\ Planned
      /\ pc \in [Shards -> {"permit", "attempt"} \cup Endings]
      /\ next \in 1..(Len(plan) + 1) /\ nested \in {"none", "asks", "running", "over"}
  BY Zenon DEF Sound, TypeOK
<1>1. UNCHANGED fixed
  BY Zenon DEF HandlerAsks, HandlerStep, HandlerReturns, NestedAcquires, NestedEnds, JoinStep,
               JoinsNext, JoinsAll, Joins, Timeout
<1>2. Shards' = Shards /\ Len(plan') = Len(plan) /\ Len(plan) \in Nat
  BY <1>0, <1>1, Frame
<1>3. ASSUME UNCHANGED bands PROVE \A k \in Shards : Stays(k)
  BY <1>1, <1>3, UntouchedStays, Zenon DEF bands
<1>4. CASE HandlerAsks \/ HandlerStep
  <2>1. UNCHANGED bands /\ HandlerLeft' < HandlerLeft
    <3>1. UNCHANGED bands
      BY <1>4, Zenon DEF HandlerAsks, HandlerStep, HandlerReturns, NestedAcquires, NestedEnds
    <3>2. HandlerLeft' < HandlerLeft
      <4>1. handling # 0
        BY <1>0, <1>4, SMT DEF TypeOK, HandlerAsks, HandlerStep, HandlerReturns, NestedAcquires,
                               NestedEnds
      <4> QED
        BY <1>0, <1>4, <4>1, SMT DEF HandlerLeft, HandlerAsks, HandlerStep, HandlerReturns,
                                     NestedAcquires, NestedEnds
    <3> QED
      BY <3>1, <3>2
  <2> QED
    BY <1>3, <2>1, Zenon DEF Settles
<1>5. CASE JoinStep
  <2>1. UNCHANGED <<bands, handling, nested>>
    BY <1>5, Zenon DEF JoinStep, JoinsNext, JoinsAll, Joins
  <2>2. HandlerLeft' = HandlerLeft
    <3>1. handling' = handling /\ nested' = nested
      BY <2>1, Zenon
    <3> QED
      BY <3>1, SMT DEF HandlerLeft
  <2>3. result = "running" /\ (result' # "running" \/ (result' = result /\ next' = next + 1))
    BY <1>5, SMT DEF JoinStep, JoinsNext, JoinsAll, Joins
  <2>4. JoinLeft' < JoinLeft
    BY <1>0, <1>2, <2>3, SMT DEF JoinLeft
  <2> QED
    BY <1>3, <2>1, <2>2, <2>4, Zenon DEF Settles
<1>6. CASE Timeout
  <2>1. result = "running" /\ result' = "timeout" /\ UNCHANGED <<tries, sent, next>>
    BY <1>6, Zenon DEF Timeout
  <2>2. JoinLeft' < JoinLeft
    BY <1>0, <1>2, <2>1, SMT DEF JoinLeft
  <2>3. HandlerLeft' < HandlerLeft \/ HandlerLeft' = HandlerLeft
    <3>1. UNCHANGED <<handling, nested>> \/ (handling' = 0 /\ nested' = "none")
      BY <1>6, Zenon DEF Timeout
    <3> QED
      BY <1>0, <3>1, SMT DEF HandlerLeft
  <2>4. ASSUME NEW k \in Shards PROVE Nearer(k) \/ Stays(k)
    <3>1. pc'[k] = pc[k] \/ (Working(k) /\ pc'[k] = "aborted")
      BY <1>6, Zenon DEF Timeout
    <3>2. CASE pc'[k] = pc[k]
      BY <1>1, <2>1, <3>2, UntouchedStays
    <3>3. CASE Working(k) /\ pc'[k] = "aborted"
      <4>1. Stage(k) \in {1, 2} /\ Stage(k)' = 0
        BY <3>3, SMT DEF Stage, Working
      <4> QED
        BY <4>1, SMT DEF Nearer
    <3> QED
      BY <3>1, <3>2, <3>3
  <2> QED
    BY <2>2, <2>3, <2>4, Zenon DEF Settles
<1> QED
  BY <1>4, <1>5, <1>6

\* Every step of a query, of its bands, its handler and its join, brings it nearer to an
\* end: retries, rows and requests of the handler run out, and no deadline, abort or answer
\* starts anything again (mdds/shard.rs:1216-1229, mdds/macros.rs:483-492).
THEOREM QueriesSettle == Spec => []MeasuresAreNat /\ [][Settles]_vars
<1>1. Sound => MeasuresAreNat
  BY SoundMeasures
<1>2. Sound /\ [Next]_vars => [Settles]_vars
  BY BandSettles, CallSettles, Zenon DEF Next
<1>3. Init => Sound
  BY SoundStarts
<1>4. Sound /\ [Next]_vars => Sound'
  BY SoundStays
<1> QED
  BY <1>1, <1>2, <1>3, <1>4, PTL DEF Spec, SafetySpec

\* Until a query has its result and all its bands are over, some step of it may be made,
\* however few permits the other calls leave and whatever its handler asks for
\* (mdds/client.rs:338-347).
THEOREM QueriesAreNeverStuck == Spec => []NeverStuck
<1>1. Sound /\ StreamsEnd => NeverStuck
  BY NeverStuckHolds
<1>2. Init => Sound /\ StreamsEnd
  BY SoundStarts, StreamsEndFirst
<1>3. Sound /\ StreamsEnd /\ [Next]_vars => Sound' /\ StreamsEnd'
  BY SoundStays, StreamsEndStays
<1> QED
  BY <1>1, <1>2, <1>3, PTL DEF Spec, SafetySpec

==============================================================================
