-------------------------- MODULE ShardPlanProofs --------------------------
(***************************************************************************)
(* Theorems about ShardPlan: however a range is cut, by day or by time,    *)
(* each day or time of it is in one band.                                  *)
(***************************************************************************)
EXTENDS CalendarProofs, FiniteSetTheorems

(* Days and times alike *)

\* What travels on an axis, and the number it stands for.
Wire(axis) == IF axis = "date" THEN Date ELSE Time
OrdOf(axis, w) == IF axis = "date" THEN ToOrd(w) ELSE ParseMsOfDay(w)

\* The numbers on an axis.
OnAxis(axis, x) == x \in Int /\ (axis # "date" => IsMsOfDay(x))

\* What is put on the wire is found again.
LEMMA WireOfOrd ==
  ASSUME NEW axis, NEW x, OnAxis(axis, x)
  PROVE  OnWire(axis, x) \in Wire(axis) /\ OrdOf(axis, OnWire(axis, x)) = x
  BY EveryOrdIsADate, EveryMsIsATime, Zenon DEF OnAxis, OnWire, Wire, OrdOf

\* What comes from the wire is put there again.
LEMMA OrdOfWire ==
  ASSUME NEW axis, NEW w \in Wire(axis)
  PROVE  OnAxis(axis, OrdOf(axis, w)) /\ OnWire(axis, OrdOf(axis, w)) = w
<1>1. CASE axis = "date"
  BY <1>1, OrdIsInt, RoundTripOfDate, Zenon DEF OnAxis, OnWire, Wire, OrdOf
<1>2. CASE axis # "date"
  <2>1. w \in Time /\ OrdOf(axis, w) = ParseMsOfDay(w)
    BY <1>2, Zenon DEF Wire, OrdOf
  <2>2. IsMsOfDay(ParseMsOfDay(w)) /\ FormatHms(ParseMsOfDay(w)) = w
    BY <2>1, RoundTripOfTime
  <2>3. ParseMsOfDay(w) \in Int
    BY <2>2, SMT DEF IsMsOfDay
  <2> QED
    BY <1>2, <2>1, <2>2, <2>3, Zenon DEF OnAxis, OnWire
<1> QED
  BY <1>1, <1>2

\* The order on the wire is that of the numbers.
LEMMA WireInOrder ==
  ASSUME NEW axis, NEW v \in Wire(axis), NEW w \in Wire(axis)
  PROVE  AtMost(v, w) <=> OrdOf(axis, v) <= OrdOf(axis, w)
  BY DatesInOrder, TimesInOrder, Zenon DEF Wire, OrdOf

------------------------------------------------------------------------------
(* Cuts *)

\* How a quotient compares.
LEMMA QuotientAtMost ==
  ASSUME NEW a \in Int, NEW b \in Nat \ {0}, NEW q \in Int
  PROVE  a \div b <= q <=> a < b * (q + 1)
<1> DEFINE d == a \div b
<1>1. d \in Int /\ b * d <= a /\ a < b * d + b
  BY Quotient
<1> HIDE DEF d
<1>2. ASSUME d <= q PROVE a < b * (q + 1)
  <2>1. b * d <= b * q /\ b * (q + 1) = b * q + b
    BY <1>1, <1>2, Z3
  <2> QED
    BY <1>1, <2>1, Z3
<1>3. ASSUME a < b * (q + 1) PROVE d <= q
  <2> SUFFICES ASSUME d >= q + 1 PROVE FALSE
    BY <1>1
  <2>1. b * d >= b * (q + 1)
    BY <1>1, Z3
  <2> QED
    BY <1>1, <1>3, <2>1, Z3
<1> QED
  BY <1>2, <1>3 DEF d

\* Where cut k falls: the numbers that are not before it.
LEMMA BeforeCut ==
  ASSUME NEW first \in Int, NEW last \in Int, NEW n \in Nat \ {0}, NEW k \in Int, NEW x \in Int
  PROVE  /\ Cut(first, last, n, k) \in Int
         /\ Cut(first, last, n, k) <= x
              <=> (last - first + 1) * k < n * (x - first + 1)
<1> DEFINE a == (last - first + 1) * k
           d == a \div n
<1>1. a \in Int /\ d \in Int
  BY Quotient, Z3
<1>2. d <= x - first <=> a < n * (x - first + 1)
  BY <1>1, QuotientAtMost, SMT
<1>3. Cut(first, last, n, k) = first + d
  BY SMT DEF Cut
<1> HIDE DEF a, d
<1> QED
  BY <1>1, <1>2, <1>3, SMT DEF a

\* The first cut is where the range begins, the last is one past its end.
LEMMA CutEnds ==
  ASSUME NEW first \in Int, NEW last \in Int, NEW n \in Nat \ {0}
  PROVE  Cut(first, last, n, 0) = first /\ Cut(first, last, n, n) = last + 1
<1> DEFINE w == last - first + 1
<1>1. w * 0 = n * 0 + 0 /\ w * n = n * w + 0 /\ w \in Int
  BY Z3
<1>2. (w * 0) \div n = 0 /\ (w * n) \div n = w
  BY <1>1, Divides, Z3
<1> QED
  BY <1>1, <1>2, Z3 DEF Cut

\* How a quotient compares, from below.
LEMMA QuotientAtLeast ==
  ASSUME NEW a \in Int, NEW b \in Nat \ {0}, NEW q \in Int
  PROVE  q <= a \div b <=> b * q <= a
<1>1. a \div b \in Int
  BY Quotient
<1>2. a \div b <= q - 1 <=> a < b * (q - 1 + 1)
  BY QuotientAtMost
<1>3. q - 1 + 1 = q /\ b * q \in Int
  OBVIOUS
<1> QED
  BY <1>1, <1>2, <1>3, SMT

\* A range is not cut twice at one place if it has as many members as it gets bands.
LEMMA CutsRise ==
  ASSUME NEW first \in Int, NEW last \in Int, NEW n \in Nat \ {0}, NEW k \in Int,
         n <= last - first + 1
  PROVE  Cut(first, last, n, k) < Cut(first, last, n, k + 1)
<1> DEFINE w == last - first + 1
           a == w * k
           d == a \div n
           e == (w * (k + 1)) \div n
<1>1. w \in Int /\ a \in Int /\ w * (k + 1) = a + w /\ a + w \in Int
  BY Z3
<1>2. d \in Int /\ n * d <= a /\ n * d \in Int
  BY <1>1, Quotient, SMT
<1>3. n * (d + 1) = n * d + n
  BY <1>2, Z3
<1>4. d + 1 <= e
  <2>1. n * (d + 1) <= a + w
    <3> HIDE DEF a, d
    <3> QED
      BY <1>1, <1>2, <1>3, SMT
  <2>2. d + 1 <= (a + w) \div n
    <3> HIDE DEF a, d, w
    <3> QED
      BY <1>1, <1>2, <2>1, QuotientAtLeast, SMT
  <2> QED
    BY <1>1, <2>2, Zenon
<1>5. e \in Int
  BY <1>1, Quotient, Zenon
<1>6. Cut(first, last, n, k) = first + d /\ Cut(first, last, n, k + 1) = first + e
  BY Zenon DEF Cut
<1> HIDE DEF d, e
<1> QED
  BY <1>2, <1>4, <1>5, <1>6, SMT

\* No cut is outside the range.
LEMMA CutsWithin ==
  ASSUME NEW first \in Int, NEW last \in Int, NEW n \in Nat \ {0}, NEW k \in 0..n,
         first <= last
  PROVE  first <= Cut(first, last, n, k) /\ Cut(first, last, n, k) <= last + 1
<1> DEFINE w == last - first + 1
           d == (w * k) \div n
<1>1. w \in Nat /\ w * k \in Int /\ n * 0 <= w * k /\ w * k < n * (w + 1)
  <2>1. w * k >= 0 /\ w * k <= w * n /\ n * (w + 1) = w * n + n
    BY Z3
  <2> QED
    BY <2>1, Z3
<1>2. 0 <= d /\ d <= w /\ d \in Int
  <2> HIDE DEF w
  <2> QED
    BY <1>1, QuotientAtLeast, QuotientAtMost, Quotient
<1>3. Cut(first, last, n, k) = first + d
  BY Zenon DEF Cut
<1> HIDE DEF d
<1> QED
  BY <1>2, <1>3, SMT

\* However a range is cut, each of its members is between one pair of cuts that follow one
\* another and no other pair (mdds/shard.rs:706, 736).
THEOREM CutsPartition ==
  ASSUME NEW first \in Int, NEW last \in Int, NEW n \in Nat \ {0}, NEW x \in first..last
  PROVE  \E k \in 1..n : \A j \in 1..n :
           Cut(first, last, n, j - 1) <= x /\ x <= Cut(first, last, n, j) - 1 <=> j = k
<1> DEFINE w == last - first + 1
           m == n * (x - first + 1)
           d == (m - 1) \div w
<1>1. w \in Nat \ {0} /\ m \in Int /\ 1 <= m /\ m <= n * w
  BY Z3
<1>2. d \in Int /\ w * d <= m - 1 /\ m - 1 < w * d + w
  <2> HIDE DEF w, m
  <2> QED
    BY <1>1, Quotient
<1>3. 0 <= d /\ d <= n - 1
  <2> HIDE DEF w, m
  <2>1. w * 0 <= m - 1 /\ m - 1 < w * (n - 1 + 1)
    BY <1>1, Z3
  <2> QED
    BY <1>1, <2>1, QuotientAtLeast, QuotientAtMost
<1>4. ASSUME NEW j \in 1..n
      PROVE  Cut(first, last, n, j - 1) <= x /\ x <= Cut(first, last, n, j) - 1
               <=> w * (j - 1) <= m - 1 /\ m - 1 < w * (j - 1) + w
  <2>0. j - 1 \in Int /\ j \in Int /\ x \in Int
    BY SMT
  <2>1. Cut(first, last, n, j - 1) <= x <=> w * (j - 1) < m
    BY <2>0, BeforeCut, Zenon
  <2>2. Cut(first, last, n, j) \in Int /\ (Cut(first, last, n, j) <= x <=> w * j < m)
    BY <2>0, BeforeCut, Zenon
  <2>3. w * (j - 1) \in Int /\ w * j = w * (j - 1) + w
    BY <1>1, Z3
  <2> HIDE DEF w, m
  <2> QED
    BY <1>1, <2>1, <2>2, <2>3, SMT
<1>5. ASSUME NEW j \in 1..n, w * (j - 1) <= m - 1, m - 1 < w * (j - 1) + w
      PROVE  d = j - 1
  <2> DEFINE r == m - 1 - w * (j - 1)
  <2> HIDE DEF w, m
  <2>1. w * (j - 1) \in Int
    BY <1>1, Z3
  <2>2. r \in Int /\ 0 <= r /\ r < w /\ m - 1 = w * (j - 1) + r
    BY <1>1, <1>5, <2>1, SMT
  <2> QED
    BY <1>1, <2>2, Divides
<1>6. \A j \in 1..n : w * (j - 1) <= m - 1 /\ m - 1 < w * (j - 1) + w <=> j = d + 1
  <2> HIDE DEF w, m, d
  <2>1. d + 1 \in 1..n /\ d + 1 - 1 = d
    BY <1>2, <1>3
  <2> QED
    BY <1>2, <1>5, <2>1, SMT
<1>7. d + 1 \in 1..n
  BY <1>2, <1>3
<1> HIDE DEF w, m, d
<1> QED
  BY <1>4, <1>6, <1>7, Zenon

------------------------------------------------------------------------------
(* Bands *)

\* A cut is a number.
LEMMA CutIsInt ==
  ASSUME NEW first \in Int, NEW last \in Int, NEW n \in Nat \ {0}, NEW k \in Int
  PROVE  Cut(first, last, n, k) \in Int
<1>1. 0 \in Int
  OBVIOUS
<1> QED
  BY <1>1, BeforeCut, Zenon

\* A range of the axis that may be cut into n bands.
CanCut(axis, first, last, n) ==
    /\ OnAxis(axis, first) /\ OnAxis(axis, last)
    /\ first <= last
    /\ n \in 1..(last - first + 1)

\* A band goes from a cut to the one before the next, inside the range, and is never empty.
LEMMA BandEnds ==
  ASSUME NEW axis, NEW first, NEW last, NEW n, NEW right, CanCut(axis, first, last, n),
         NEW k \in 1..n
  PROVE  LET b == Bands(axis, first, last, n, right)[k]
         IN /\ b.right = right
            /\ b.from \in Wire(axis) /\ b.to \in Wire(axis)
            /\ OrdOf(axis, b.from) = Cut(first, last, n, k - 1)
            /\ OrdOf(axis, b.to) = Cut(first, last, n, k) - 1
            /\ first <= OrdOf(axis, b.from) /\ OrdOf(axis, b.to) <= last
            /\ OrdOf(axis, b.from) <= OrdOf(axis, b.to)
            /\ OrdOf(axis, b.from) \in Int /\ OrdOf(axis, b.to) \in Int
<1> DEFINE lo == Cut(first, last, n, k - 1)
           hi == Cut(first, last, n, k) - 1
           b == Bands(axis, first, last, n, right)[k]
<1>1. first \in Int /\ last \in Int /\ first <= last /\ n \in Nat \ {0} /\ n <= last - first + 1
  BY SMT DEF CanCut, OnAxis
<1>2. lo \in Int /\ hi \in Int /\ Cut(first, last, n, k) = hi + 1
  <2>1. k - 1 \in Int /\ k \in Int
    BY <1>1, SMT
  <2>2. lo \in Int /\ Cut(first, last, n, k) \in Int
    BY <1>1, <2>1, CutIsInt, Zenon
  <2> QED
    BY <2>2, SMT
<1>3. first <= lo /\ hi <= last
  <2>1. k - 1 \in 0..n /\ k \in 0..n
    BY <1>1, SMT
  <2>2. first <= lo /\ Cut(first, last, n, k) <= last + 1
    BY <1>1, <2>1, CutsWithin, Zenon
  <2> HIDE DEF lo, hi
  <2> QED
    BY <1>1, <1>2, <2>2, SMT
<1>4. lo <= hi
  <2>1. k - 1 \in Int /\ k - 1 + 1 = k
    BY <1>1, SMT
  <2>2. Cut(first, last, n, k - 1) < Cut(first, last, n, k - 1 + 1)
    BY <1>1, <2>1, CutsRise, Zenon
  <2>3. lo < hi + 1
    BY <1>2, <2>1, <2>2, Zenon
  <2> HIDE DEF lo, hi
  <2> QED
    BY <1>2, <2>3, SMT
<1>5. b = [right |-> right, from |-> OnWire(axis, lo), to |-> OnWire(axis, hi)]
  BY Zenon DEF Bands
<1> HIDE DEF lo, hi, b
<1>6. OnAxis(axis, lo) /\ OnAxis(axis, hi)
  BY <1>1, <1>2, <1>3, <1>4, SMT DEF CanCut, OnAxis, IsMsOfDay
<1>7. /\ OnWire(axis, lo) \in Wire(axis) /\ OrdOf(axis, OnWire(axis, lo)) = lo
      /\ OnWire(axis, hi) \in Wire(axis) /\ OrdOf(axis, OnWire(axis, hi)) = hi
  BY <1>6, WireOfOrd, Zenon
<1>8. b.right = right /\ b.from = OnWire(axis, lo) /\ b.to = OnWire(axis, hi)
  BY <1>5, Zenon
<1>9. /\ b.right = right
            /\ b.from \in Wire(axis) /\ b.to \in Wire(axis)
            /\ OrdOf(axis, b.from) = lo
            /\ OrdOf(axis, b.to) = hi
            /\ first <= OrdOf(axis, b.from) /\ OrdOf(axis, b.to) <= last
            /\ OrdOf(axis, b.from) <= OrdOf(axis, b.to)
            /\ OrdOf(axis, b.from) \in Int /\ OrdOf(axis, b.to) \in Int
  BY <1>2, <1>3, <1>4, <1>7, <1>8, Zenon
<1> QED
  BY <1>9, Zenon DEF lo, hi, b

\* What the server picks for a band is what lies between its cuts.
LEMMA BandCovers ==
  ASSUME NEW axis, NEW first, NEW last, NEW n, NEW right, CanCut(axis, first, last, n),
         NEW k \in 1..n, NEW w \in Wire(axis)
  PROVE  Covers(Bands(axis, first, last, n, right)[k], w)
           <=> /\ Cut(first, last, n, k - 1) <= OrdOf(axis, w)
               /\ OrdOf(axis, w) <= Cut(first, last, n, k) - 1
<1> DEFINE b == Bands(axis, first, last, n, right)[k]
<1>1. /\ b.from \in Wire(axis) /\ b.to \in Wire(axis)
      /\ OrdOf(axis, b.from) = Cut(first, last, n, k - 1)
      /\ OrdOf(axis, b.to) = Cut(first, last, n, k) - 1
  BY BandEnds
<1> HIDE DEF b
<1>2. Covers(b, w) <=> AtMost(b.from, w) /\ AtMost(w, b.to)
  BY Zenon DEF Covers
<1>3. AtMost(b.from, w) <=> OrdOf(axis, b.from) <= OrdOf(axis, w)
  BY <1>1, WireInOrder, Zenon
<1>4. AtMost(w, b.to) <=> OrdOf(axis, w) <= OrdOf(axis, b.to)
  BY <1>1, WireInOrder, Zenon
<1> QED
  BY <1>1, <1>2, <1>3, <1>4, Zenon DEF b

\* One band covers w, and no other does.
InOneBand(axis, first, last, n, right, w) ==
    \E k \in 1..n : \A j \in 1..n :
      Covers(Bands(axis, first, last, n, right)[j], w) <=> j = k

\* Each day or time of a range is covered by one of the bands the range is cut into, and by
\* no other, as the server compares days and times (mdds/shard.rs:706, 736).
THEOREM BandsPartition ==
  ASSUME NEW axis, NEW first, NEW last, NEW n, NEW right, CanCut(axis, first, last, n),
         NEW w \in Wire(axis),
         first <= OrdOf(axis, w), OrdOf(axis, w) <= last
  PROVE  InOneBand(axis, first, last, n, right, w)
<1>1. first \in Int /\ last \in Int /\ n \in Nat \ {0}
  BY SMT DEF CanCut, OnAxis
<1>2. OrdOf(axis, w) \in Int
  BY OrdOfWire, Zenon DEF OnAxis
<1>3. OrdOf(axis, w) \in first..last
  BY <1>1, <1>2, SMT
<1>4. PICK k \in 1..n : \A j \in 1..n :
         Cut(first, last, n, j - 1) <= OrdOf(axis, w)
           /\ OrdOf(axis, w) <= Cut(first, last, n, j) - 1 <=> j = k
  BY <1>1, <1>3, CutsPartition, ZenonT(60)
<1> QED
  BY <1>4, BandCovers, Zenon DEF InOneBand

\* There are as many bands as were asked for.
LEMMA BandsAreASequence ==
  ASSUME NEW axis, NEW first, NEW last, NEW right, NEW n \in Nat
  PROVE  /\ Len(Bands(axis, first, last, n, right)) = n
         /\ DOMAIN Bands(axis, first, last, n, right) = 1..n
<1>1. DOMAIN Bands(axis, first, last, n, right) = 1..n
  BY Zenon DEF Bands
<1> DEFINE f == Bands(axis, first, last, n, right)
           S == {f[k] : k \in 1..n}
<1>2. f \in [1..n -> S]
  BY Zenon DEF Bands
<1> HIDE DEF f, S
<1>3. f \in Seq(S) /\ Len(f) = n
  BY <1>1, <1>2, SMT DEF f
<1> QED
  BY <1>1, <1>3, Zenon DEF f

\* When a plan is split by right, the bands of the calls come first and then those of the
\* puts.
LEMMA BandsOfBothRights ==
  ASSUME NEW axis, NEW first, NEW last, NEW n \in Nat
  PROVE  /\ Len(BandsByRight(axis, first, last, n)) = 2 * n
         /\ DOMAIN BandsByRight(axis, first, last, n) = 1..(2 * n)
         /\ \A k \in 1..n :
              /\ BandsByRight(axis, first, last, n)[k] = Bands(axis, first, last, n, Call)[k]
              /\ BandsByRight(axis, first, last, n)[n + k] = Bands(axis, first, last, n, Put)[k]
<1> DEFINE f == Bands(axis, first, last, n, Call)
           g == Bands(axis, first, last, n, Put)
           S == {f[k] : k \in 1..n} \cup {g[k] : k \in 1..n}
           h == f \o g
<1>1. f \in [1..n -> S] /\ g \in [1..n -> S]
  BY Zenon DEF Bands
<1> HIDE DEF f, g, S
<1>2. f \in Seq(S) /\ g \in Seq(S) /\ Len(f) = n /\ Len(g) = n
  BY <1>1, SMT
<1>3. Len(h) = 2 * n /\ DOMAIN h = 1..(2 * n)
  BY <1>2, SMT
<1>4. \A k \in 1..n : h[k] = f[k] /\ h[n + k] = g[k]
  BY <1>2, SMT
<1>5. BandsByRight(axis, first, last, n) = h
  BY Zenon DEF BandsByRight, f, g
<1> QED
  BY <1>3, <1>4, <1>5, Zenon DEF f, g

------------------------------------------------------------------------------
(* What a query asks for *)

\* The first and the last of what is cut, and their numbers.
FirstOf(q) == IF SelectAxis(q) = "date" THEN q.days[1] ELSE q.times[1]
LastOf(q)  == IF SelectAxis(q) = "date" THEN q.days[2] ELSE q.times[2]

FirstOrd(q) == OrdOf(SelectAxis(q), FirstOf(q))
LastOrd(q)  == OrdOf(SelectAxis(q), LastOf(q))

\* The days a query asks for are the dates between its first and its last.
LEMMA DaysAreDates ==
  ASSUME NEW q, IsQuery(q), q.days # Absent
  PROVE  /\ q.days[1] \in Date /\ q.days[2] \in Date
         /\ Days(q) = {d \in Date : AtMost(q.days[1], d) /\ AtMost(d, q.days[2])}
<1>1. q.days[1] \in Day /\ q.days[2] \in Day
  BY SMT DEF IsQuery
<1>2. \A d \in Day : d \in Date
  BY SMT DEF Day, Date
<1>3. q.days[1] \in Date /\ q.days[2] \in Date
  BY <1>1, <1>2, Zenon
<1>4. ASSUME NEW d \in Date, AtMost(q.days[1], d), AtMost(d, q.days[2])
      PROVE  d \in Days(q)
  <2>1. q.days[1][1] <= d[1] /\ d[1] <= q.days[2][1]
    BY <1>3, <1>4, DatesCompare, DateFields, SMT
  <2>2. /\ q.days[1][1] \in Int /\ q.days[2][1] \in Int
        /\ d[1] \in Int /\ d[2] \in 1..12 /\ d[3] \in 1..31
        /\ d = <<d[1], d[2], d[3]>>
    BY <1>3, DateFields, Zenon
  <2>3. d \in (q.days[1][1]..q.days[2][1]) \X (1..12) \X (1..31)
    BY <2>1, <2>2, SMT
  <2> QED
    BY <1>4, <2>3, DateFields, Zenon DEF Days
<1>5. ASSUME NEW d \in Days(q)
      PROVE  d \in Date /\ AtMost(q.days[1], d) /\ AtMost(d, q.days[2])
  <2>1. d \in (q.days[1][1]..q.days[2][1]) \X (1..12) \X (1..31) /\ IsValidYmd(d)
        /\ AtMost(q.days[1], d) /\ AtMost(d, q.days[2])
    BY Zenon DEF Days
  <2>2. d \in Int \X (1..12) \X (1..31)
    BY <2>1, SMT
  <2> QED
    BY <2>1, <2>2, Zenon DEF Date
<1> QED
  BY <1>3, <1>4, <1>5

\* How many days a query spans.
LEMMA SpanOfDays ==
  ASSUME NEW q, IsQuery(q), DateSpanDays(q) >= 1
  PROVE  /\ q.days # Absent
         /\ ToOrd(q.days[1]) \in Int /\ ToOrd(q.days[2]) \in Int
         /\ DateSpanDays(q) = ToOrd(q.days[2]) - ToOrd(q.days[1]) + 1
<1>1. q.days # Absent
  BY SMT DEF DateSpanDays
<1>2. ToOrd(q.days[1]) \in Int /\ ToOrd(q.days[2]) \in Int
  BY <1>1, DaysAreDates, OrdIsInt
<1> QED
  BY <1>1, <1>2, SMT DEF DateSpanDays, Greater

\* What is cut when a query is cut by date.
LEMMA AxisOfDays ==
  ASSUME NEW q, IsQuery(q), SelectAxis(q) = "date"
  PROVE  /\ q.days # Absent /\ DateSpanDays(q) >= 2
         /\ FirstOf(q) \in Wire("date") /\ LastOf(q) \in Wire("date")
         /\ FirstOrd(q) = ToOrd(q.days[1]) /\ LastOrd(q) = ToOrd(q.days[2])
         /\ DateSpanDays(q) = LastOrd(q) - FirstOrd(q) + 1
<1>1. DateSpanDays(q) >= 2
  BY Zenon DEF SelectAxis
<1>2. q.days # Absent
  BY <1>1, SMT DEF DateSpanDays
<1>3. DateSpanDays(q) \in Int
  <2>1. ToOrd(q.days[1]) \in Int /\ ToOrd(q.days[2]) \in Int
    BY <1>2, DaysAreDates, OrdIsInt
  <2> QED
    BY <1>2, <2>1, SMT DEF DateSpanDays, Greater
<1>4. DateSpanDays(q) >= 1
  BY <1>1, <1>3, SMT
<1>5. FirstOf(q) = q.days[1] /\ LastOf(q) = q.days[2]
  BY Zenon DEF FirstOf, LastOf
<1>6. FirstOrd(q) = ToOrd(q.days[1]) /\ LastOrd(q) = ToOrd(q.days[2])
  BY <1>5, Zenon DEF FirstOrd, LastOrd, OrdOf
<1> QED
  BY <1>1, <1>2, <1>4, <1>5, <1>6, SpanOfDays, DaysAreDates, Zenon DEF Wire

\* What is cut when a query is cut by time.
LEMMA AxisOfTimes ==
  ASSUME NEW q, IsQuery(q), SelectAxis(q) = "time"
  PROVE  /\ q.times # Absent
         /\ FirstOf(q) \in Wire("time") /\ LastOf(q) \in Wire("time")
         /\ FirstOrd(q) = ParseMsOfDay(q.times[1]) /\ LastOrd(q) = ParseMsOfDay(q.times[2])
<1>1. q.times # Absent
  BY SMT DEF SelectAxis
<1>2. q.times[1] \in Time /\ q.times[2] \in Time
  BY <1>1, SMT DEF IsQuery
<1>3. FirstOf(q) = q.times[1] /\ LastOf(q) = q.times[2]
  BY SMT DEF FirstOf, LastOf
<1>4. FirstOrd(q) = ParseMsOfDay(q.times[1]) /\ LastOrd(q) = ParseMsOfDay(q.times[2])
  BY <1>3, SMT DEF FirstOrd, LastOrd, OrdOf
<1> QED
  BY <1>1, <1>2, <1>3, <1>4, SMT DEF Wire

\* What a query asks for is what lies between the numbers that are cut.
LEMMA AskedOnAxis ==
  ASSUME NEW q, IsQuery(q), SelectAxis(q) # "none", NEW w
  PROVE  w \in Asked(q) <=> /\ w \in Wire(SelectAxis(q))
                            /\ FirstOrd(q) <= OrdOf(SelectAxis(q), w)
                            /\ OrdOf(SelectAxis(q), w) <= LastOrd(q)
<1>1. CASE SelectAxis(q) = "date"
  <2>1. Asked(q) = Days(q) /\ Wire(SelectAxis(q)) = Date
    BY <1>1, Zenon DEF Asked, Wire
  <2>2. w \in Days(q) <=> w \in Date /\ AtMost(q.days[1], w) /\ AtMost(w, q.days[2])
    BY <1>1, AxisOfDays, DaysAreDates
  <2>3. q.days[1] \in Date /\ q.days[2] \in Date
    BY <1>1, AxisOfDays, DaysAreDates, Zenon
  <2>4. FirstOrd(q) = ToOrd(q.days[1]) /\ LastOrd(q) = ToOrd(q.days[2])
        /\ OrdOf(SelectAxis(q), w) = ToOrd(w)
    BY <1>1, AxisOfDays, Zenon DEF OrdOf
  <2> QED
    BY <2>1, <2>2, <2>3, <2>4, DatesInOrder, Zenon
<1>2. CASE SelectAxis(q) = "time"
  <2>1. Asked(q) = {FormatHms(ms) : ms \in FirstOrd(q)..LastOrd(q)}
    BY <1>2, AxisOfTimes, SMT DEF Asked
  <2>2. Wire(SelectAxis(q)) = Time /\ OrdOf(SelectAxis(q), w) = ParseMsOfDay(w)
    BY <1>2, SMT DEF Wire, OrdOf
  <2>3. IsMsOfDay(FirstOrd(q)) /\ IsMsOfDay(LastOrd(q))
    <3>1. FirstOf(q) \in Time /\ LastOf(q) \in Time
      BY <1>2, AxisOfTimes, SMT DEF Wire
    <3> QED
      BY <1>2, <3>1, RoundTripOfTime, SMT DEF FirstOrd, LastOrd, OrdOf
  <2>4. ASSUME NEW ms \in FirstOrd(q)..LastOrd(q)
        PROVE  FormatHms(ms) \in Time /\ ParseMsOfDay(FormatHms(ms)) = ms
               /\ FirstOrd(q) <= ms /\ ms <= LastOrd(q)
    <3>1. IsMsOfDay(ms) /\ FirstOrd(q) <= ms /\ ms <= LastOrd(q)
      BY <2>3, SMT DEF IsMsOfDay
    <3> QED
      BY <3>1, EveryMsIsATime, Zenon
  <2>5. ASSUME w \in Time, FirstOrd(q) <= ParseMsOfDay(w), ParseMsOfDay(w) <= LastOrd(q)
        PROVE  ParseMsOfDay(w) \in FirstOrd(q)..LastOrd(q) /\ FormatHms(ParseMsOfDay(w)) = w
    <3>1. IsMsOfDay(ParseMsOfDay(w)) /\ FormatHms(ParseMsOfDay(w)) = w
      BY <2>5, RoundTripOfTime, Zenon
    <3> QED
      BY <2>3, <2>5, <3>1, SMT DEF IsMsOfDay
  <2> QED
    BY <2>1, <2>2, <2>4, <2>5, Zenon
<1>3. SelectAxis(q) \in {"date", "time", "none"}
  BY Zenon DEF SelectAxis
<1> QED
  BY <1>1, <1>2, <1>3

------------------------------------------------------------------------------
(* Plans *)

\* The plans with a band for every day, however many.
DayByDay(q) == SingleDayTickChain(q) /\ SelectAxis(q) = "date"

\* A plan is n bands, or n for each right.
PlanIs(q, width, n) ==
    /\ CanCut(SelectAxis(q), FirstOrd(q), LastOrd(q), n)
    /\ \/ /\ PlanQuery(q, width) = Bands(SelectAxis(q), FirstOrd(q), LastOrd(q), n, Own)
          /\ n <= width \/ DayByDay(q)
       \/ /\ PlanQuery(q, width) = BandsByRight(SelectAxis(q), FirstOrd(q), LastOrd(q), n)
          /\ q.right = "both"
          /\ 2 * n <= width
    /\ DayByDay(q) => n = LastOrd(q) - FirstOrd(q) + 1

\* Half the bands that are allowed, for each right.
LEMMA HalfWidth ==
  ASSUME NEW width \in Nat, width >= 2
  PROVE  width \div 2 \in Nat /\ width \div 2 >= 1 /\ 2 * (width \div 2) <= width
         /\ \A m \in Int : 2 * m <= width => m <= width \div 2
  BY Quotient, Z3

\* The lesser and the greater of two numbers.
LEMMA LesserGreater ==
  ASSUME NEW a \in Int, NEW b \in Int
  PROVE  /\ Lesser(a, b) \in {a, b} /\ Lesser(a, b) <= a /\ Lesser(a, b) <= b
         /\ Greater(a, b) \in {a, b} /\ Greater(a, b) >= a /\ Greater(a, b) >= b
  BY SMT DEF Lesser, Greater

\* What a query that is cut by date is cut into.
LEMMA DatePlanIs ==
  ASSUME NEW q, IsQuery(q), NEW width \in Nat, width >= 2, SelectAxis(q) = "date",
         PlanQuery(q, width) = DatePlan(q, width), DatePlan(q, width) # <<>>
  PROVE  \E n \in Nat : PlanIs(q, width, n)
<1> DEFINE first == FirstOrd(q)
           last == LastOrd(q)
           span == DateSpanDays(q)
<1>1. /\ first \in Int /\ last \in Int /\ span >= 2 /\ span = last - first + 1
      /\ first = ToOrd(q.days[1]) /\ last = ToOrd(q.days[2])
  BY AxisOfDays, DaysAreDates, OrdIsInt
<1>2. OnAxis("date", first) /\ OnAxis("date", last) /\ first <= last
  BY <1>1, SMT DEF OnAxis
<1>3. ASSUME NEW n \in 1..span PROVE n \in Nat /\ CanCut(SelectAxis(q), first, last, n)
  BY <1>1, <1>2, SMT DEF CanCut
<1>4. ~SmallGrid(q)
  BY Zenon DEF DatePlan
<1>5. DayByDay(q) <=> SingleDayTickChain(q)
  BY Zenon DEF DayByDay
<1>6. width \div 2 \in Nat /\ width \div 2 >= 1 /\ 2 * (width \div 2) <= width
      /\ \A m \in Int : 2 * m <= width => m <= width \div 2
  BY HalfWidth
<1>7. CASE RightsFit(q, width)
  <2> DEFINE l == Lesser(span, width \div 2)
             n == Greater(1, l)
  <2>1. DatePlan(q, width) = BandsByRight("date", first, last, n)
    BY <1>1, <1>4, <1>7, Zenon DEF DatePlan
  <2>2. q.right = "both" /\ (IsTickPull(q) => 2 * span <= width)
    BY <1>7, Zenon DEF RightsFit, SplittableByRight
  <2>3. l \in Int /\ l <= span /\ l <= width \div 2 /\ l \in {span, width \div 2}
    BY <1>1, <1>6, LesserGreater, SMT
  <2> HIDE DEF l
  <2>4. n = l /\ l >= 1
    BY <1>1, <1>6, <2>3, SMT DEF Greater
  <2> HIDE DEF n
  <2>5. n \in 1..span /\ 2 * n <= width
    BY <1>1, <1>6, <2>3, <2>4, SMT
  <2>6. SingleDayTickChain(q) => n = span
    <3> SUFFICES ASSUME SingleDayTickChain(q) PROVE n = span
      OBVIOUS
    <3>1. 2 * span <= width
      BY <2>2, Zenon DEF SingleDayTickChain
    <3>2. span <= width \div 2
      BY <1>1, <1>6, <3>1, SMT
    <3> QED
      BY <1>1, <1>6, <2>3, <2>4, <3>2, SMT
  <2> HIDE DEF first, last, span
  <2>7. PlanIs(q, width, n)
    BY <1>1, <1>3, <1>5, <2>1, <2>2, <2>5, <2>6, Zenon DEF PlanIs, first, last
  <2> QED
    BY <1>3, <2>5, <2>7, Zenon
<1>8. CASE ~RightsFit(q, width)
  <2> DEFINE n == IF SingleDayTickChain(q) THEN span ELSE Lesser(span, width)
  <2>1. DatePlan(q, width) = Bands("date", first, last, n, Own)
    BY <1>1, <1>4, <1>8, Zenon DEF DatePlan
  <2>2. /\ n \in 1..span /\ (n <= width \/ SingleDayTickChain(q))
        /\ (SingleDayTickChain(q) => n = span)
    BY <1>1, SMT DEF Lesser
  <2> HIDE DEF first, last, span, n
  <2>3. PlanIs(q, width, n)
    BY <1>1, <1>3, <1>5, <2>1, <2>2, Zenon DEF PlanIs, first, last
  <2> QED
    BY <1>3, <2>2, <2>3, Zenon
<1> QED
  BY <1>7, <1>8

\* What a query that is cut by time is cut into.
LEMMA TimePlanIs ==
  ASSUME NEW q, IsQuery(q), NEW width \in Nat, width >= 2, SelectAxis(q) = "time",
         PlanQuery(q, width) = TimePlan(q, width), TimePlan(q, width) # <<>>
  PROVE  \E n \in Nat : PlanIs(q, width, n)
<1> DEFINE first == FirstOrd(q)
           last == LastOrd(q)
           fit == (last - first + 1) \div MinBand
<1>1. /\ first = ParseMsOfDay(q.times[1]) /\ last = ParseMsOfDay(q.times[2])
      /\ IsMsOfDay(first) /\ IsMsOfDay(last)
  <2>1. FirstOf(q) \in Time /\ LastOf(q) \in Time
    BY AxisOfTimes, SMT DEF Wire
  <2> QED
    BY <2>1, AxisOfTimes, RoundTripOfTime, SMT DEF FirstOrd, LastOrd, OrdOf
<1>2. first \in Int /\ last \in Int /\ OnAxis("time", first) /\ OnAxis("time", last)
  BY <1>1, SMT DEF OnAxis, IsMsOfDay
<1>3. ~(last <= first \/ ~IsTickPull(q))
  BY <1>1, Zenon DEF TimePlan
<1>4. first < last
  BY <1>2, <1>3, SMT
<1>5. fit \in Nat /\ fit <= last - first + 1
  <2> DEFINE w == last - first + 1
  <2>1. w \in Nat /\ MinBand \in Nat \ {0}
    BY <1>2, <1>4, PlanAssumption, SMT
  <2> HIDE DEF w
  <2>2. MinBand * 0 <= w /\ w < MinBand * (w + 1) /\ w \div MinBand \in Int
    BY <2>1, Quotient, Z3
  <2>3. 0 <= w \div MinBand /\ w \div MinBand <= w
    BY <2>1, <2>2, QuotientAtLeast, QuotientAtMost
  <2> QED
    BY <2>1, <2>2, <2>3, SMT DEF w
<1>6. ASSUME NEW n \in 1..(last - first + 1)
      PROVE  n \in Nat /\ CanCut(SelectAxis(q), first, last, n)
  BY <1>2, <1>4, SMT DEF CanCut
<1>7. ~DayByDay(q)
  BY SMT DEF DayByDay
<1>8. width \div 2 \in Nat /\ width \div 2 >= 1 /\ 2 * (width \div 2) <= width
  BY HalfWidth
<1> HIDE DEF fit
<1>9. CASE SplittableByRight(q)
  <2> DEFINE l == Lesser(fit, width \div 2)
             n == Greater(1, l)
  <2>1. TimePlan(q, width) = BandsByRight("time", first, last, n)
    BY <1>1, <1>3, <1>9, Zenon DEF TimePlan, fit
  <2>2. q.right = "both"
    BY <1>9, Zenon DEF SplittableByRight
  <2>3. l \in Int /\ l <= fit /\ l <= width \div 2
    BY <1>5, <1>8, LesserGreater, SMT
  <2> HIDE DEF l
  <2>4. n \in 1..(last - first + 1) /\ 2 * n <= width
    BY <1>2, <1>4, <1>5, <1>8, <2>3, SMT DEF Greater
  <2> HIDE DEF first, last, n
  <2>5. PlanIs(q, width, n)
    BY <1>6, <1>7, <2>1, <2>2, <2>4, Zenon DEF PlanIs, first, last
  <2> QED
    BY <1>6, <2>4, <2>5, Zenon
<1>10. CASE ~SplittableByRight(q)
  <2> DEFINE n == Lesser(fit, width)
  <2>1. ~(n < 2)
    BY <1>1, <1>3, <1>10, Zenon DEF TimePlan, fit
  <2>2. TimePlan(q, width) = Bands("time", first, last, n, Own)
    BY <1>1, <1>3, <1>10, <2>1, Zenon DEF TimePlan, fit
  <2>3. n \in Int /\ n <= fit /\ n <= width
    BY <1>5, LesserGreater, SMT
  <2> HIDE DEF n
  <2>4. n \in 1..(last - first + 1)
    BY <1>2, <1>5, <2>1, <2>3, SMT
  <2> HIDE DEF first, last
  <2>5. PlanIs(q, width, n)
    BY <1>6, <1>7, <2>2, <2>3, <2>4, Zenon DEF PlanIs, first, last
  <2> QED
    BY <1>6, <2>4, <2>5, Zenon
<1> QED
  BY <1>9, <1>10

\* A plan that has bands is a range of the axis cut into no more bands than allowed, or
\* single days (mdds/shard.rs:980).
THEOREM PlansAreBands ==
  ASSUME NEW q, IsQuery(q), NEW width \in Nat, PlanQuery(q, width) # <<>>
  PROVE  /\ SelectAxis(q) \in {"date", "time"}
         /\ \E n \in Nat : PlanIs(q, width, n)
<1>1. SelectAxis(q) # "none" /\ ~(width < 2)
  BY Zenon DEF PlanQuery
<1>2. SelectAxis(q) \in {"date", "time", "none"}
  BY Zenon DEF SelectAxis
<1>3. width >= 2
  BY <1>1, SMT
<1>4. CASE SelectAxis(q) = "date"
  <2>1. SelectAxis(q) # "time"
    BY <1>4, SMT
  <2>2. PlanQuery(q, width) = DatePlan(q, width)
    BY <1>1, <2>1, Zenon DEF PlanQuery
  <2> QED
    BY <1>3, <1>4, <2>2, DatePlanIs, Zenon
<1>5. CASE SelectAxis(q) = "time"
  <2>2. PlanQuery(q, width) = TimePlan(q, width)
    BY <1>1, <1>5, Zenon DEF PlanQuery
  <2> QED
    BY <1>3, <1>5, <2>2, TimePlanIs, Zenon
<1> QED
  BY <1>1, <1>2, <1>4, <1>5

\* Band k of the n that a plan makes of a query, for one right.
BandOf(q, n, right, k) == Bands(SelectAxis(q), FirstOrd(q), LastOrd(q), n, right)[k]

\* One band of a right covers at, and no other.
InOneBandOf(q, n, right, at) ==
    \E k \in 1..n : \A j \in 1..n : Covers(BandOf(q, n, right, j), at) <=> j = k

\* As many bands as days are single days.
LEMMA CutsOfSingleDays ==
  ASSUME NEW first \in Int, NEW last \in Int, NEW n \in Nat \ {0}, n = last - first + 1,
         NEW k \in 1..n
  PROVE  Cut(first, last, n, k - 1) = Cut(first, last, n, k) - 1
<1>1. ASSUME NEW j \in Int PROVE (n * j) \div n = j
  <2>1. n * j \in Int /\ n * j = n * j + 0
    BY Z3
  <2> QED
    BY <2>1, Divides, SMT
<1>2. k \in Int /\ k - 1 \in Int
  BY SMT
<1>3. (n * (k - 1)) \div n = k - 1 /\ (n * k) \div n = k
  BY <1>1, <1>2
<1>4. Cut(first, last, n, k - 1) = first + (k - 1) /\ Cut(first, last, n, k) = first + k
  BY <1>3, Zenon DEF Cut
<1> QED
  BY <1>2, <1>4, SMT

\* No band of a plan asks for what the query does not.
LEMMA BandsOfAPlan ==
  ASSUME NEW q, IsQuery(q), SelectAxis(q) # "none", NEW width, NEW right, NEW n \in Nat,
         PlanIs(q, width, n), NEW k \in 1..n
  PROVE  /\ BandOf(q, n, right, k).right = right
         /\ BandOf(q, n, right, k).from \in Asked(q)
         /\ BandOf(q, n, right, k).to \in Asked(q)
         /\ DayByDay(q) => BandOf(q, n, right, k).from = BandOf(q, n, right, k).to
<1> DEFINE axis == SelectAxis(q)
           first == FirstOrd(q)
           last == LastOrd(q)
           b == BandOf(q, n, right, k)
<1>1. CanCut(axis, first, last, n) /\ (DayByDay(q) => n = last - first + 1)
  BY Zenon DEF PlanIs
<1>2. first \in Int /\ last \in Int
  BY <1>1, SMT DEF CanCut, OnAxis
<1>3. /\ b.right = right
      /\ b.from \in Wire(axis) /\ b.to \in Wire(axis)
      /\ OrdOf(axis, b.from) = Cut(first, last, n, k - 1)
      /\ OrdOf(axis, b.to) = Cut(first, last, n, k) - 1
      /\ first <= OrdOf(axis, b.from) /\ OrdOf(axis, b.to) <= last
      /\ OrdOf(axis, b.from) <= OrdOf(axis, b.to)
      /\ OrdOf(axis, b.from) \in Int /\ OrdOf(axis, b.to) \in Int
  BY <1>1, BandEnds DEF BandOf
<1>4. ASSUME NEW w \in Wire(axis), first <= OrdOf(axis, w), OrdOf(axis, w) <= last
      PROVE  w \in Asked(q)
  BY <1>4, AskedOnAxis, Zenon
<1> HIDE DEF axis, first, last, b
<1>5. OrdOf(axis, b.from) <= last /\ first <= OrdOf(axis, b.to)
  BY <1>2, <1>3, SMT
<1>6. b.from \in Asked(q) /\ b.to \in Asked(q)
  BY <1>3, <1>4, <1>5, Zenon
<1>7. ASSUME DayByDay(q) PROVE b.from = b.to
  <2>1. n = last - first + 1 /\ n \in Nat \ {0}
    BY <1>1, <1>2, <1>7, SMT
  <2>2. Cut(first, last, n, k - 1) = Cut(first, last, n, k) - 1
    BY <1>2, <2>1, CutsOfSingleDays
  <2>3. OrdOf(axis, b.from) = OrdOf(axis, b.to)
    BY <1>3, <2>2, Zenon
  <2>4. OnWire(axis, OrdOf(axis, b.from)) = b.from /\ OnWire(axis, OrdOf(axis, b.to)) = b.to
    BY <1>3, OrdOfWire, Zenon
  <2> QED
    BY <2>3, <2>4, Zenon
<1> QED
  BY <1>3, <1>6, <1>7, Zenon DEF b

\* The bands of a plan cover each day or time that the query asks for once.
LEMMA PlansCover ==
  ASSUME NEW q, IsQuery(q), SelectAxis(q) # "none", NEW width, NEW right, NEW n \in Nat,
         PlanIs(q, width, n), NEW at \in Asked(q)
  PROVE  InOneBandOf(q, n, right, at)
<1>1. CanCut(SelectAxis(q), FirstOrd(q), LastOrd(q), n)
  BY Zenon DEF PlanIs
<1>2. /\ at \in Wire(SelectAxis(q)) /\ FirstOrd(q) <= OrdOf(SelectAxis(q), at)
      /\ OrdOf(SelectAxis(q), at) <= LastOrd(q)
  BY AskedOnAxis
<1>3. InOneBand(SelectAxis(q), FirstOrd(q), LastOrd(q), n, right, at)
  BY <1>1, <1>2, BandsPartition
<1> QED
  BY <1>3, Zenon DEF InOneBand, InOneBandOf, BandOf

\* A plan is the bands of its query, one after the other.
LEMMA PlanIsASequence ==
  ASSUME NEW q, NEW width, NEW n \in Nat, PlanIs(q, width, n)
  PROVE  \/ /\ DOMAIN PlanQuery(q, width) = 1..n /\ Len(PlanQuery(q, width)) = n
            /\ \A k \in 1..n : PlanQuery(q, width)[k] = BandOf(q, n, Own, k)
            /\ n <= width \/ DayByDay(q)
         \/ /\ DOMAIN PlanQuery(q, width) = 1..(2 * n) /\ Len(PlanQuery(q, width)) = 2 * n
            /\ \A k \in 1..n : /\ PlanQuery(q, width)[k] = BandOf(q, n, Call, k)
                               /\ PlanQuery(q, width)[n + k] = BandOf(q, n, Put, k)
            /\ q.right = "both" /\ 2 * n <= width
<1>1. CASE /\ PlanQuery(q, width) = Bands(SelectAxis(q), FirstOrd(q), LastOrd(q), n, Own)
           /\ n <= width \/ DayByDay(q)
  <2>1. /\ Len(Bands(SelectAxis(q), FirstOrd(q), LastOrd(q), n, Own)) = n
        /\ DOMAIN Bands(SelectAxis(q), FirstOrd(q), LastOrd(q), n, Own) = 1..n
    BY BandsAreASequence
  <2> QED
    BY <1>1, <2>1, Zenon DEF BandOf
<1>2. CASE /\ PlanQuery(q, width) = BandsByRight(SelectAxis(q), FirstOrd(q), LastOrd(q), n)
           /\ q.right = "both" /\ 2 * n <= width
  <2>1. /\ Len(BandsByRight(SelectAxis(q), FirstOrd(q), LastOrd(q), n)) = 2 * n
        /\ DOMAIN BandsByRight(SelectAxis(q), FirstOrd(q), LastOrd(q), n) = 1..(2 * n)
        /\ \A k \in 1..n :
             /\ BandsByRight(SelectAxis(q), FirstOrd(q), LastOrd(q), n)[k] = BandOf(q, n, Call, k)
             /\ BandsByRight(SelectAxis(q), FirstOrd(q), LastOrd(q), n)[n + k]
                  = BandOf(q, n, Put, k)
    BY BandsOfBothRights, ZenonT(60) DEF BandOf
  <2> QED
    BY <1>2, <2>1, Zenon
<1> QED
  BY <1>1, <1>2, Zenon DEF PlanIs

\* Bands are cut one after the other.
LEMMA CutsAscend ==
  ASSUME NEW first \in Int, NEW last \in Int, NEW n \in Nat \ {0}, NEW i \in Int, NEW j \in Int,
         first <= last, i <= j
  PROVE  Cut(first, last, n, i) <= Cut(first, last, n, j)
<1> DEFINE w == last - first + 1
           x == Cut(first, last, n, j)
           a == w * i
           b == w * j
           c == n * (x - first + 1)
<1>1. x \in Int
  BY CutIsInt
<1>2. w \in Nat
  BY SMT
<1>3. a \in Int /\ b \in Int /\ a <= b
  <2> HIDE DEF w
  <2>1. j - i \in Nat /\ j = i + (j - i)
    BY SMT
  <2> DEFINE d == j - i
  <2> HIDE DEF d
  <2>2. d \in Nat /\ j = i + d
    BY <2>1 DEF d
  <2>3. w * d \in Nat /\ w * i \in Int /\ w * (i + d) = w * i + w * d
    BY <1>2, <2>2, Z3
  <2> QED
    BY <2>2, <2>3, SMT
<1>4. x - first + 1 \in Int
  BY <1>1, SMT
<1>5. c \in Int
  BY <1>4, Z3
<1> HIDE DEF x
<1>6. b < c
  <2>1. Cut(first, last, n, j) <= x <=> w * j < n * (x - first + 1)
    BY <1>1, BeforeCut
  <2>2. Cut(first, last, n, j) <= x
    BY <1>1, SMT DEF x
  <2> QED
    BY <2>1, <2>2
<1>7. Cut(first, last, n, i) <= x <=> w * i < n * (x - first + 1)
  BY <1>1, BeforeCut
<1> HIDE DEF w, c
<1>8. a < c
  <2> HIDE DEF a, b
  <2> QED
    BY <1>3, <1>5, <1>6, SMT
<1> QED
  BY <1>7, <1>8, Zenon DEF a, c, w, x

\* What a band of a right covers is before what a later band of it covers.
LEMMA BandsAscend ==
  ASSUME NEW q, IsQuery(q), SelectAxis(q) # "none", NEW width, NEW right, NEW n \in Nat,
         PlanIs(q, width, n), NEW i \in 1..n, NEW j \in 1..n, i < j,
         NEW v \in Asked(q), NEW w \in Asked(q),
         Covers(BandOf(q, n, right, i), v), Covers(BandOf(q, n, right, j), w)
  PROVE  v # w /\ AtMost(v, w)
<1> DEFINE axis == SelectAxis(q)
           first == FirstOrd(q)
           last == LastOrd(q)
<1>1. v \in Wire(axis) /\ w \in Wire(axis)
  BY AskedOnAxis
<1>2. CanCut(axis, first, last, n)
  BY Zenon DEF PlanIs
<1>3. first \in Int /\ last \in Int /\ n \in Nat \ {0} /\ first <= last
  BY <1>2, SMT DEF CanCut, OnAxis
<1>4. OrdOf(axis, v) <= Cut(first, last, n, i) - 1
  BY <1>1, <1>2, BandCovers, Zenon DEF BandOf
<1>5. Cut(first, last, n, j - 1) <= OrdOf(axis, w)
  BY <1>1, <1>2, BandCovers, Zenon DEF BandOf
<1>6. OrdOf(axis, v) \in Int /\ OrdOf(axis, w) \in Int
  BY <1>1, OrdOfWire, Zenon DEF OnAxis
<1> HIDE DEF axis, first, last
<1>7. i \in Int /\ j - 1 \in Int /\ i <= j - 1
  BY SMT
<1>8. /\ Cut(first, last, n, i) \in Int /\ Cut(first, last, n, j - 1) \in Int
      /\ Cut(first, last, n, i) <= Cut(first, last, n, j - 1)
  BY <1>3, <1>7, CutIsInt, CutsAscend
<1>9. OrdOf(axis, v) < OrdOf(axis, w)
  BY <1>4, <1>5, <1>6, <1>8, SMT
<1>10. v # w /\ OrdOf(axis, v) <= OrdOf(axis, w)
  BY <1>6, <1>9, SMT
<1> QED
  BY <1>1, <1>10, WireInOrder, Zenon
==============================================================================
