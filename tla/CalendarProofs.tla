--------------------------- MODULE CalendarProofs ---------------------------
(***************************************************************************)
(* The calendar and the clock that the shard planner computes with: dates  *)
(* and day ordinals, times of day and milliseconds, correspond one to one  *)
(* and in order.  All of it holds for every year.                          *)
(***************************************************************************)
EXTENDS ShardPlan, TLAPS

(* Division *)

\* What \div means.
LEMMA Quotient ==
  ASSUME NEW a \in Int, NEW b \in Nat \ {0}
  PROVE  /\ a \div b \in Int
         /\ b * (a \div b) <= a
         /\ a < b * (a \div b) + b
  BY Z3

\* What % means.
LEMMA Remainder ==
  ASSUME NEW a \in Int, NEW b \in Nat \ {0}
  PROVE  a % b = a - b * (a \div b)
  BY Z3

\* A quotient and a remainder that fit are the quotient and the remainder.
LEMMA Divides ==
  ASSUME NEW a \in Int, NEW b \in Nat \ {0}, NEW q \in Int, NEW r \in Int,
         0 <= r, r < b, a = b * q + r
  PROVE  a \div b = q /\ a % b = r
<1> DEFINE d == a \div b
<1>1. d \in Int /\ b * d <= a /\ a < b * d + b
  BY Quotient
<1>2. a % b = a - b * d
  BY Remainder
<1> HIDE DEF d
<1>3. d <= q
  <2> SUFFICES ASSUME d >= q + 1 PROVE FALSE
    BY <1>1
  <2>1. b * d >= b * (q + 1)
    BY <1>1, Z3
  <2>2. b * (q + 1) = b * q + b
    BY Z3
  <2> QED
    BY <1>1, <2>1, <2>2, Z3
<1>4. d >= q
  <2> SUFFICES ASSUME q >= d + 1 PROVE FALSE
    BY <1>1
  <2>1. b * q >= b * (d + 1)
    BY <1>1, Z3
  <2>2. b * (d + 1) = b * d + b
    BY <1>1, Z3
  <2> QED
    BY <1>1, <2>1, <2>2, Z3
<1>5. d = q
  BY <1>1, <1>3, <1>4
<1> QED
  BY <1>1, <1>2, <1>5, Z3 DEF d

\* A number is its quotient and its remainder.
LEMMA QuotientAndRest ==
  ASSUME NEW a \in Int, NEW b \in Nat \ {0}
  PROVE  a \div b \in Int /\ a % b \in 0..(b - 1) /\ a = b * (a \div b) + (a % b)
<1> DEFINE d == a \div b
           p == b * d
           r == a % b
<1>1. d \in Int /\ p <= a /\ a < p + b
  BY Quotient
<1>2. r = a - p
  BY Remainder
<1>3. p \in Int
  BY <1>1
<1> HIDE DEF d, p, r
<1>4. r \in 0..(b - 1) /\ a = p + r
  BY <1>1, <1>2, <1>3
<1> QED
  BY <1>1, <1>4 DEF d, p, r

\* A quotient goes up by one where the remainder returns to zero.
LEMMA NextQuotient ==
  ASSUME NEW a \in Int, NEW b \in Nat \ {0, 1}
  PROVE  (a + 1) \div b = IF (a + 1) % b = 0 THEN a \div b + 1 ELSE a \div b
<1> DEFINE d == a \div b
           e == (a + 1) \div b
           r == a % b
           s == (a + 1) % b
<1>1. d \in Int /\ r \in 0..(b - 1) /\ a = b * d + r
  BY QuotientAndRest
<1>2. b * d \in Int /\ b * (d + 1) = b * d + b
  BY <1>1, Z3
<1> HIDE DEF d, r
<1>3. CASE r = b - 1
  <2>1. a + 1 = b * (d + 1) + 0
    BY <1>1, <1>2, <1>3
  <2>2. e = d + 1 /\ s = 0
    BY <1>1, <2>1, Divides, SMT
  <2> QED
    BY <2>2 DEF d
<1>4. CASE r # b - 1
  <2>1. a + 1 = b * d + (r + 1) /\ r + 1 \in 0..(b - 1)
    BY <1>1, <1>2, <1>4
  <2>2. e = d /\ s = r + 1
    BY <1>1, <2>1, Divides, SMT
  <2> QED
    BY <1>1, <2>2 DEF d
<1> QED
  BY <1>3, <1>4

\* Quotients grow with what is divided, and no faster.
LEMMA QuotientsGrow ==
  ASSUME NEW a \in Int, NEW n \in Nat, NEW b \in Nat \ {0}
  PROVE  a \div b <= (a + n) \div b /\ (a + n) \div b <= a \div b + n
<1> DEFINE d == a \div b
           e == (a + n) \div b
<1>1. d \in Int /\ b * d <= a /\ a < b * d + b
  BY Quotient
<1>2. e \in Int /\ b * e <= a + n /\ a + n < b * e + b
  BY Quotient
<1> HIDE DEF d, e
<1>3. d <= e
  <2> SUFFICES ASSUME d >= e + 1 PROVE FALSE
    BY <1>1, <1>2
  <2>1. b * d >= b * (e + 1) /\ b * (e + 1) = b * e + b
    BY <1>1, <1>2, Z3
  <2> QED
    BY <1>1, <1>2, <2>1, Z3
<1>4. e <= d + n
  <2> SUFFICES ASSUME e >= d + n + 1 PROVE FALSE
    BY <1>1, <1>2
  <2>1. b * e >= b * (d + n + 1) /\ b * (d + n + 1) = b * d + b * n + b /\ b * n >= n
    BY <1>1, <1>2, Z3
  <2> QED
    BY <1>1, <1>2, <2>1, Z3
<1> QED
  BY <1>3, <1>4 DEF d, e

------------------------------------------------------------------------------
(* The calendar, with years that begin in March so that the leap day ends one *)

\* A date in years that begin in March: the year, and the month from 0.
MarchYear(d) == IF d[2] <= 2 THEN d[1] - 1 ELSE d[1]
MarchMonth(d) == IF d[2] > 2 THEN d[2] - 3 ELSE d[2] + 9

\* Days of the year before month mp.
MonthStart(mp) == (153 * mp + 2) \div 5

\* The days of a month.
MonthLength(mp, leap) ==
    IF mp = 11 THEN (IF leap THEN 29 ELSE 28) ELSE IF mp \in {1, 3, 6, 8} THEN 30 ELSE 31

\* The days of its year before a date.
DayOfYear(d) == MonthStart(MarchMonth(d)) + d[3] - 1

\* The ordinal of the first of March.
YearStart(y) == 365 * y + y \div 4 - y \div 100 + y \div 400 - 719468

\* The dates of the calendar, before the year 0 too.
Date == {d \in Int \X (1..12) \X (1..31) : IsValidYmd(d)}

\* A date is its three fields.
LEMMA DateFields ==
  ASSUME NEW d \in Date
  PROVE  /\ d[1] \in Int /\ d[2] \in 1..12 /\ d[3] \in 1..31
         /\ d = <<d[1], d[2], d[3]>> /\ Len(d) = 3
         /\ IsValidYmd(d)
  BY SMT DEF Date

\* The formula for the days before a month gives the calendar's table.
LEMMA MonthStarts ==
  /\ MonthStart(0) = 0 /\ MonthStart(1) = 31 /\ MonthStart(2) = 61 /\ MonthStart(3) = 92
  /\ MonthStart(4) = 122 /\ MonthStart(5) = 153 /\ MonthStart(6) = 184
  /\ MonthStart(7) = 214 /\ MonthStart(8) = 245 /\ MonthStart(9) = 275
  /\ MonthStart(10) = 306 /\ MonthStart(11) = 337
  BY SMT DEF MonthStart

\* The quotients and rests of a year that decide on leap years.
LEMMA CalendarRests ==
  ASSUME NEW y \in Int
  PROVE  \A b \in {4, 100, 400} :
           /\ y \div b \in Int /\ y % b \in 0..(b - 1) /\ y = b * (y \div b) + (y % b)
  BY QuotientAndRest

\* A year is a day longer if February, at its end, has a leap day.
LEMMA YearLengths ==
  ASSUME NEW y \in Int
  PROVE  /\ YearStart(y) \in Int
         /\ YearStart(y + 1) = YearStart(y) + (IF IsLeap(y + 1) THEN 366 ELSE 365)
<1>1. \A b \in {4, 100, 400} :
         /\ y \div b \in Int /\ y % b \in 0..(b - 1) /\ y = b * (y \div b) + (y % b)
  BY CalendarRests
<1>2. \A b \in {4, 100, 400} :
         (y + 1) \div b = IF (y + 1) % b = 0 THEN y \div b + 1 ELSE y \div b
  <2> SUFFICES ASSUME NEW b \in {4, 100, 400}
               PROVE (y + 1) \div b = IF (y + 1) % b = 0 THEN y \div b + 1 ELSE y \div b
    OBVIOUS
  <2>1. b \in Nat \ {0, 1}
    BY SMT
  <2> QED
    BY <2>1, NextQuotient, ZenonT(60)
<1>3. (y + 1) % 400 = 0 => (y + 1) % 100 = 0
  BY SMT
<1>4. (y + 1) % 100 = 0 => (y + 1) % 4 = 0
  BY SMT
<1> QED
  BY <1>1, <1>2, <1>3, <1>4, Z3 DEF YearStart, IsLeap

\* Years follow one another.
LEMMA YearsGrow ==
  ASSUME NEW y \in Int, NEW z \in Int, y <= z
  PROVE  YearStart(y) <= YearStart(z)
<1> DEFINE n == z - y
<1>1. n \in Nat /\ y + n = z
  OBVIOUS
<1> HIDE DEF n
<1>2. \A b \in {4, 100, 400} :
         /\ y \div b \in Int /\ z \div b \in Int
         /\ y \div b <= z \div b /\ z \div b <= y \div b + n
  BY <1>1, QuotientAndRest, QuotientsGrow
<1> QED
  BY <1>1, <1>2, SMT DEF YearStart

\* A date's fields from those of the year that begins in March.
LEMMA MarchFields ==
  ASSUME NEW d \in Date
  PROVE  /\ MarchYear(d) \in Int
         /\ MarchMonth(d) \in 0..11
         /\ d[3] \in 1..MonthLength(MarchMonth(d), IsLeap(MarchYear(d) + 1))
         /\ d[2] = IF MarchMonth(d) < 10 THEN MarchMonth(d) + 3 ELSE MarchMonth(d) - 9
         /\ d[1] = IF MarchMonth(d) < 10 THEN MarchYear(d) ELSE MarchYear(d) + 1
  BY DateFields, SMT DEF MarchYear, MarchMonth, MonthLength, IsValidYmd

\* The days of a year, and the month of one.
YearDays(leap) == 0..(IF leap THEN 365 ELSE 364)
MonthOfDay(doy) == (5 * doy + 2) \div 153

\* The months of a year follow one another, and the month of a day is found again.
LEMMA MonthsFit ==
  ASSUME NEW mp \in 0..11, NEW leap \in BOOLEAN, NEW day \in 1..MonthLength(mp, leap)
  PROVE  /\ MonthStart(mp) \in Nat
         /\ MonthStart(mp) + day - 1 \in YearDays(leap)
         /\ \A n \in 0..11 : mp < n => MonthStart(mp) + day - 1 < MonthStart(n)
         /\ MonthOfDay(MonthStart(mp) + day - 1) = mp
  BY MonthStarts, SMT DEF MonthLength, YearDays, MonthOfDay

\* The ordinal of a date is the first day of its year and the days before it.
LEMMA OrdOfDate ==
  ASSUME NEW d \in Date
  PROVE  ToOrd(d) = YearStart(MarchYear(d)) + DayOfYear(d)
<1> DEFINE y == MarchYear(d)
           era == y \div 400
           yoe == y - era * 400
<1>1. y \in Int /\ MarchMonth(d) \in 0..11 /\ MonthStart(MarchMonth(d)) \in Int /\ d[3] \in Int
  BY MarchFields, MonthStarts, DateFields, SMT
<1>2. DayOfYear(d) \in Int
  BY <1>1, SMT DEF DayOfYear
<1>3. ToOrd(d) = era * 146097 + (yoe * 365 + yoe \div 4 - yoe \div 100 + DayOfYear(d)) - 719468
  BY <1>1, SMT DEF ToOrd, MarchYear, MarchMonth, MonthStart, DayOfYear
<1> HIDE DEF y
<1>4. era \in Int /\ yoe \in 0..399 /\ y = 400 * era + yoe
  BY <1>1, QuotientAndRest, SMT
<1>5. yoe \div 4 = y \div 4 - 100 * era
  BY <1>1, <1>4, Divides, QuotientAndRest, SMT
<1>6. yoe \div 100 = y \div 100 - 4 * era
  BY <1>1, <1>4, Divides, QuotientAndRest, SMT
<1>7. y \div 4 \in Int /\ y \div 100 \in Int
  BY <1>1, QuotientAndRest, SMT
<1> HIDE DEF era, yoe
<1>8. YearStart(y) = 365 * y + y \div 4 - y \div 100 + era - 719468
  BY SMT DEF YearStart, era
<1> QED
  BY <1>2, <1>3, <1>4, <1>5, <1>6, <1>7, <1>8, SMT DEF y

\* The date of a day of a month of a year that begins in March.
DateOf(y, mp, day) == <<IF mp < 10 THEN y ELSE y + 1, IF mp < 10 THEN mp + 3 ELSE mp - 9, day>>

\* The year of a day of an era of 400 years.
EraYear(doe) == (doe - doe \div 1460 + doe \div 36524 - doe \div 146096) \div 365

\* The days of an era of 400 years.
InEra(doe) == doe \in Int /\ 0 <= doe /\ doe < 146097

\* The day of the era from a year and a day of it, and the days that a year has.
EraDay(yoe, doy) == yoe * 365 + yoe \div 4 - yoe \div 100 + doy
InYear(doy, y) ==
    doy \in 0..365 /\ (doy = 365 => (y + 1) % 4 = 0 /\ ((y + 1) % 100 # 0 \/ (y + 1) % 400 = 0))

\* The year of a day of the era is found by FromOrd's quotients.
LEMMA EraYearOfDay ==
  ASSUME NEW yoe \in 0..399, NEW doy, InYear(doy, yoe)
  PROVE  EraYear(EraDay(yoe, doy)) = yoe /\ InEra(EraDay(yoe, doy))
<1> DEFINE doe == EraDay(yoe, doy)
<1>1. doe = yoe * 365 + yoe \div 4 - yoe \div 100 + doy
  BY SMT DEF EraDay
<1> HIDE DEF doe
<1>2. EraYear(doe) = yoe
  BY <1>1, Z3 DEF EraYear, InYear
<1>3. InEra(doe)
  BY <1>1, Z3 DEF InYear, InEra
<1> QED
  BY <1>2, <1>3, Zenon DEF doe

\* Leap years repeat every 400 years.
LEMMA LeapsRepeat ==
  ASSUME NEW y \in Int, NEW era \in Int
  PROVE  IsLeap(400 * era + y) <=> IsLeap(y)
<1> DEFINE z == 400 * era + y
<1>1. \A b \in {4, 100, 400} :
         /\ y \div b \in Int /\ y % b \in 0..(b - 1) /\ y = b * (y \div b) + (y % b)
  BY QuotientAndRest
<1>2. z % 4 = y % 4
  <2>1. z = 4 * (100 * era + y \div 4) + (y % 4)
    BY <1>1, SMT
  <2> QED
    BY <1>1, <2>1, Divides, SMT
<1>3. z % 100 = y % 100
  <2>1. z = 100 * (4 * era + y \div 100) + (y % 100)
    BY <1>1, SMT
  <2> QED
    BY <1>1, <2>1, Divides, SMT
<1>4. z % 400 = y % 400
  <2>1. z = 400 * (era + y \div 400) + (y % 400)
    BY <1>1, SMT
  <2> QED
    BY <1>1, <2>1, Divides, SMT
<1> HIDE DEF z
<1>5. IsLeap(z) <=> IsLeap(y)
  BY <1>2, <1>3, <1>4, SMT DEF IsLeap
<1> QED
  BY <1>5 DEF z

\* What FromOrd computes of ordinal x.
EraOf(x) == (x + 719468) \div 146097
DayOfEra(x) == x + 719468 - EraOf(x) * 146097
YearOfEra(x) == EraYear(DayOfEra(x))
RestOfYear(doe, yoe) == doe - (365 * yoe + yoe \div 4 - yoe \div 100)
DayOf(x) == RestOfYear(DayOfEra(x), YearOfEra(x))
MonthOf(x) == MonthOfDay(DayOf(x))

\* FromOrd, one step at a time.
LEMMA FromOrdUnfolds ==
  ASSUME NEW x \in Int,
         EraOf(x) \in Int, YearOfEra(x) \in Int, DayOf(x) \in Int, MonthOf(x) \in 0..11
  PROVE  FromOrd(x) = DateOf(YearOfEra(x) + EraOf(x) * 400, MonthOf(x),
                             DayOf(x) - MonthStart(MonthOf(x)) + 1)
<1> DEFINE e == (x + 719468) \div 146097
           dd == x + 719468 - e * 146097
           yy == (dd - dd \div 1460 + dd \div 36524 - dd \div 146096) \div 365
           dy == dd - (365 * yy + yy \div 4 - yy \div 100)
           pp == (5 * dy + 2) \div 153
           m == IF pp < 10 THEN pp + 3 ELSE pp - 9
           y == yy + e * 400
<1>1. FromOrd(x) = <<IF m <= 2 THEN y + 1 ELSE y, m, dy - (153 * pp + 2) \div 5 + 1>>
  BY Z3 DEF FromOrd
<1>2. e = EraOf(x)
  BY SMT DEF EraOf
<1> HIDE DEF e
<1>3. dd = DayOfEra(x)
  BY <1>2, SMT DEF DayOfEra
<1> HIDE DEF dd
<1>4. yy = YearOfEra(x)
  BY <1>3, SMT DEF YearOfEra, EraYear
<1> HIDE DEF yy
<1>5. dy = DayOf(x)
  BY <1>3, <1>4, SMT DEF DayOf, RestOfYear
<1> HIDE DEF dy
<1>6. pp = MonthOf(x)
  BY <1>5, SMT DEF MonthOf, MonthOfDay
<1> HIDE DEF pp
<1> QED
  BY <1>1, <1>2, <1>4, <1>5, <1>6, SMT DEF DateOf, MonthStart

\* The day of an ordinal is the one it was computed from.
LEMMA DateOfOrd ==
  ASSUME NEW y \in Int, NEW mp \in 0..11, NEW day \in 1..MonthLength(mp, IsLeap(y + 1))
  PROVE  FromOrd(YearStart(y) + MonthStart(mp) + day - 1) = DateOf(y, mp, day)
<1> DEFINE era == y \div 400
           yoe == y % 400
           doy == MonthStart(mp) + day - 1
           doe == EraDay(yoe, doy)
           x == YearStart(y) + MonthStart(mp) + day - 1
<1>1. era \in Int /\ yoe \in 0..399 /\ y = 400 * era + yoe
  BY QuotientAndRest, SMTT(30)
<1>2. IsLeap(y + 1) <=> IsLeap(yoe + 1)
  <2> HIDE DEF era, yoe
  <2>1. y + 1 = 400 * era + (yoe + 1) /\ yoe + 1 \in Int
    BY <1>1, SMT
  <2>2. IsLeap(400 * era + (yoe + 1)) <=> IsLeap(yoe + 1)
    BY ZenonT(60), <1>1, <2>1, LeapsRepeat
  <2> QED
    BY <2>1, <2>2, Zenon
<1>3. MonthStart(mp) \in Nat /\ doy \in YearDays(IsLeap(y + 1)) /\ MonthOfDay(doy) = mp
  <2>1. IsLeap(y + 1) \in BOOLEAN
    BY Zenon DEF IsLeap
  <2> QED
    BY <2>1, MonthsFit, Zenon
<1>4. MonthLength(mp, IsLeap(y + 1)) \in Nat /\ day \in Int
  BY SMT DEF MonthLength
<1> HIDE DEF doy
<1>5. yoe \div 4 = y \div 4 - 100 * era /\ yoe \div 100 = y \div 100 - 4 * era
  <2> HIDE DEF era, yoe
  <2>1. \A b \in {4, 100} : y \div b \in Int /\ y % b \in 0..(b - 1) /\ y = b * (y \div b) + (y % b)
    BY CalendarRests
  <2>2. yoe = 4 * (y \div 4 - 100 * era) + (y % 4)
    BY <1>1, <2>1, SMT
  <2>3. yoe = 100 * (y \div 100 - 4 * era) + (y % 100)
    BY <1>1, <2>1, SMT
  <2> QED
    BY <1>1, <2>1, <2>2, <2>3, Divides, SMT
<1>7. y \div 4 \in Int /\ y \div 100 \in Int
  BY QuotientAndRest, SMT
<1>8. InYear(doy, yoe)
  BY <1>2, <1>3, SMT DEF IsLeap, InYear, YearDays
<1>9. EraYear(doe) = yoe /\ InEra(doe)
  BY <1>1, <1>8, EraYearOfDay, ZenonT(60)
<1>10. YearStart(y) = 365 * y + y \div 4 - y \div 100 + era - 719468
  BY SMT DEF YearStart
<1>11. x + 719468 = 146097 * era + doe /\ x \in Int
  <2> HIDE DEF era, yoe
  <2>1. x = YearStart(y) + doy
    BY <1>3, <1>4, <1>10, <1>1, <1>7, SMT DEF doy
  <2> HIDE DEF x
  <2> QED BY <1>1, <1>3, <1>5, <1>7, <1>10, <2>1, SMT DEF EraDay, YearDays
<1> HIDE DEF x, doe
<1>12. EraOf(x) = era /\ DayOfEra(x) = doe
  <2> DEFINE z == x + 719468
  <2>1. doe \in Int /\ 0 <= doe /\ doe < 146097
    BY <1>9, SMT DEF InEra
  <2>2. z \in Int /\ z = 146097 * era + doe
    BY <1>1, <1>9, <1>11, SMT DEF InEra
  <2> HIDE DEF z
  <2>3. z \div 146097 = era
    BY <1>1, <2>1, <2>2, Divides, SMT
  <2>4. EraOf(x) = era
    BY <2>3, SMT DEF EraOf, z
  <2>5. DayOfEra(x) = z - era * 146097
    BY <1>1, <1>11, <2>4, SMT DEF DayOfEra, z
  <2> QED
    BY <1>1, <2>1, <2>2, <2>4, <2>5, SMT
<1>13. RestOfYear(doe, yoe) = doy
  <2>1. yoe \div 4 \in Int /\ yoe \div 100 \in Int
    BY <1>1, QuotientAndRest, SMT
  <2> HIDE DEF yoe
  <2> QED
    BY <1>1, <1>3, <2>1, SMT DEF doe, EraDay, YearDays, RestOfYear
<1>14. doy - MonthStart(mp) + 1 = day
  BY <1>3, <1>4, SMT DEF doy
<1> HIDE DEF era, yoe
<1>15. FromOrd(x) = DateOf(y, mp, day)
  <2>1. doe \in Int /\ doy \in Int
    BY <1>3, <1>9, SMT DEF InEra, YearDays
  <2>2. /\ EraOf(x) = era /\ YearOfEra(x) = yoe /\ DayOf(x) = doy /\ MonthOf(x) = mp
        /\ yoe \in Int /\ x \in Int
    BY <1>1, <1>3, <1>9, <1>11, <1>12, <1>13, SMT DEF YearOfEra, DayOf, MonthOf
  <2>3. yoe + era * 400 = y
    BY <1>1, SMT
  <2> QED
    BY <1>1, <1>14, <2>1, <2>2, <2>3, FromOrdUnfolds, ZenonT(60)
<1> QED
  BY <1>15 DEF x

\* No date is changed by the way to its ordinal and back (mdds/shard.rs:180, 211), so
\* what a band sends is what it was planned to be.
THEOREM RoundTripOfDate ==
  ASSUME NEW d \in Date
  PROVE  FromOrd(ToOrd(d)) = d
<1> DEFINE y == MarchYear(d)
           mp == MarchMonth(d)
<1>1. /\ y \in Int /\ mp \in 0..11
      /\ d[3] \in 1..MonthLength(mp, IsLeap(y + 1))
      /\ d[2] = IF mp < 10 THEN mp + 3 ELSE mp - 9
      /\ d[1] = IF mp < 10 THEN y ELSE y + 1
  BY MarchFields
<1>2. ToOrd(d) = YearStart(y) + MonthStart(mp) + d[3] - 1
  BY <1>1, OrdOfDate, DateFields, YearLengths, MonthStarts, SMT DEF DayOfYear
<1>3. DateOf(y, mp, d[3]) = d
  BY <1>1, DateFields, SMT DEF DateOf
<1> QED
  BY <1>1, <1>2, <1>3, DateOfOrd

\* Every day of the era is in a year of it.
LEMMA EraYears ==
  ASSUME NEW doe, InEra(doe)
  PROVE  \E yoe \in 0..399 : \E doy \in YearDays(IsLeap(yoe + 1)) : doe = EraDay(yoe, doy)
<1> DEFINE c == IF doe = 146096 THEN 3 ELSE doe \div 36524
           r == doe - 36524 * c
           q == r \div 1461
           s == r - 1461 * q
           p == IF s = 1460 THEN 3 ELSE s \div 365
           doy == s - 365 * p
           yoe == 100 * c + 4 * q + p
<1>1. /\ c \in 0..3 /\ r \in Int /\ 0 <= r
      /\ r <= (IF c = 3 THEN 36524 ELSE 36523) /\ doe = 36524 * c + r
  BY Quotient, Z3 DEF InEra
<1> HIDE DEF c, r
<1>2. q \in 0..24 /\ s \in Int /\ 0 <= s /\ s <= 1460 /\ r = 1461 * q + s
  BY <1>1, Quotient, Z3
<1> HIDE DEF q, s
<1>3. /\ p \in 0..3 /\ doy \in Int /\ 0 <= doy /\ doy <= 365 /\ s = 365 * p + doy
      /\ (doy = 365 => s = 1460 /\ p = 3)
  BY <1>2, Quotient, Z3
<1> HIDE DEF p, doy
<1>4. yoe \in 0..399 /\ yoe = 100 * c + 4 * q + p
  BY <1>1, <1>2, <1>3, SMT
<1> HIDE DEF yoe
<1>5. yoe \div 4 = 25 * c + q /\ yoe \div 100 = c
  <2>1. yoe = 4 * (25 * c + q) + p
    BY <1>1, <1>2, <1>3, <1>4, SMT
  <2>2. yoe = 100 * c + (4 * q + p)
    BY <1>1, <1>2, <1>3, <1>4, SMT
  <2> QED
    BY <1>1, <1>2, <1>3, <1>4, <2>1, <2>2, Divides, SMT
<1>6. doy = 365 => IsLeap(yoe + 1)
  BY <1>1, <1>2, <1>3, <1>4, Z3 DEF IsLeap
<1>7. doe = EraDay(yoe, doy)
  BY <1>1, <1>2, <1>3, <1>4, <1>5, SMT DEF EraDay
<1>8. doy \in YearDays(IsLeap(yoe + 1))
  BY <1>3, <1>6, SMT DEF YearDays
<1> QED
  BY <1>4, <1>7, <1>8, Zenon

\* Every day of a year is in a month of it.
LEMMA MonthDays ==
  ASSUME NEW leap \in BOOLEAN, NEW doy \in YearDays(leap)
  PROVE  \E mp \in 0..11 : \E day \in 1..MonthLength(mp, leap) : doy = MonthStart(mp) + day - 1
<1> DEFINE mp == MonthOfDay(doy)
<1>1. doy \in Int /\ 0 <= doy /\ doy <= (IF leap THEN 365 ELSE 364)
  BY SMT DEF YearDays
<1>2. mp \in 0..11 /\ 153 * mp <= 5 * doy + 2 /\ 5 * doy + 2 < 153 * mp + 153
  BY <1>1, Quotient, SMT DEF MonthOfDay
<1> HIDE DEF mp
<1>3. MonthStart(mp) \in Int /\ doy - MonthStart(mp) + 1 \in 1..MonthLength(mp, leap)
  BY <1>1, <1>2, MonthStarts, SMT DEF MonthLength
<1>4. doy = MonthStart(mp) + (doy - MonthStart(mp) + 1) - 1
  BY <1>1, <1>3, SMT
<1> QED
  BY <1>2, <1>3, <1>4, Zenon

\* A date put together from a year, a month and a day is one of the calendar.
LEMMA OrdOfFields ==
  ASSUME NEW y \in Int, NEW mp \in 0..11, NEW day \in 1..MonthLength(mp, IsLeap(y + 1))
  PROVE  /\ DateOf(y, mp, day) \in Date
         /\ ToOrd(DateOf(y, mp, day)) = YearStart(y) + MonthStart(mp) + day - 1
<1> DEFINE d == DateOf(y, mp, day)
<1>1. /\ d[1] = (IF mp < 10 THEN y ELSE y + 1)
      /\ d[2] = (IF mp < 10 THEN mp + 3 ELSE mp - 9) /\ d[3] = day
  BY SMT DEF DateOf
<1>2. MarchYear(d) = y /\ MarchMonth(d) = mp
  BY <1>1, SMT DEF MarchYear, MarchMonth
<1>3. d \in Int \X (1..12) \X (1..31)
  BY SMT DEF DateOf, MonthLength
<1>4. IsValidYmd(d)
  BY <1>1, SMT DEF IsValidYmd, MonthLength
<1>5. d \in Date
  BY <1>3, <1>4, SMT DEF Date
<1>6. DayOfYear(d) = MonthStart(mp) + day - 1
  BY <1>1, <1>2, SMT DEF DayOfYear
<1>7. YearStart(y) \in Int /\ MonthStart(mp) \in Int /\ day \in Int
  BY YearLengths, MonthStarts, SMT DEF MonthLength
<1> HIDE DEF d
<1>8. ToOrd(d) = YearStart(y) + MonthStart(mp) + day - 1
  BY <1>2, <1>5, <1>6, <1>7, OrdOfDate, SMT
<1> QED
  BY <1>5, <1>8 DEF d

\* Every ordinal is that of a date of the calendar, so no band can begin or end on a day
\* that does not exist (mdds/shard.rs:211).
THEOREM EveryOrdIsADate ==
  ASSUME NEW x \in Int
  PROVE  FromOrd(x) \in Date /\ ToOrd(FromOrd(x)) = x
<1> DEFINE z == x + 719468
           era == z \div 146097
           doe == z - 146097 * era
<1>1. era \in Int /\ InEra(doe) /\ x = 146097 * era + doe - 719468
  BY Quotient, Z3 DEF InEra
<1> HIDE DEF era, doe
<1>11. era \in Int /\ InEra(doe)
  BY <1>1, SMT
<1>2. PICK yoe \in 0..399 : \E doy \in YearDays(IsLeap(yoe + 1)) : doe = EraDay(yoe, doy)
  BY <1>11, EraYears, Zenon
<1>9. PICK doy \in YearDays(IsLeap(yoe + 1)) : doe = EraDay(yoe, doy)
  BY <1>2, Zenon
<1> DEFINE y == 400 * era + yoe
<1>3. y \in Int /\ y = 400 * era + yoe
  BY <1>1, SMT
<1>4. IsLeap(y + 1) <=> IsLeap(yoe + 1)
  <2>1. y + 1 = 400 * era + (yoe + 1) /\ yoe + 1 \in Int
    BY <1>11, <1>2, SMT
  <2>2. IsLeap(400 * era + (yoe + 1)) <=> IsLeap(yoe + 1)
    BY <1>11, <2>1, LeapsRepeat, ZenonT(60)
  <2> QED
    BY <2>1, <2>2, Zenon
<1> HIDE DEF y
<1>5. YearStart(y) + doy = x
  <2>1. yoe \div 4 = y \div 4 - 100 * era /\ yoe \div 100 = y \div 100 - 4 * era /\ y \div 400 = era
        /\ y \div 4 \in Int /\ y \div 100 \in Int
    <3>1. \A b \in {4, 100, 400} :
            y \div b \in Int /\ y % b \in 0..(b - 1) /\ y = b * (y \div b) + (y % b)
      BY <1>3, CalendarRests
    <3>2. yoe = 4 * (y \div 4 - 100 * era) + (y % 4)
      BY <1>1, <1>3, <3>1, SMT
    <3>3. yoe = 100 * (y \div 100 - 4 * era) + (y % 100)
      BY <1>1, <1>3, <3>1, SMT
    <3> QED
      BY <1>1, <1>3, <3>1, <3>2, <3>3, Divides, SMTT(30)
  <2> QED
    BY <1>1, <1>9, <1>3, <2>1, SMT DEF YearStart, EraDay, YearDays
<1>6. PICK mp \in 0..11 :
        \E day \in 1..MonthLength(mp, IsLeap(y + 1)) : doy = MonthStart(mp) + day - 1
  <2>1. IsLeap(y + 1) \in BOOLEAN
    BY Zenon DEF IsLeap
  <2>2. doy \in YearDays(IsLeap(y + 1))
    BY <1>4, <1>9, SMT DEF YearDays
  <2> QED
    BY <2>1, <2>2, MonthDays, Zenon
<1>10. PICK day \in 1..MonthLength(mp, IsLeap(y + 1)) : doy = MonthStart(mp) + day - 1
  BY <1>6, Zenon
<1>7. ToOrd(DateOf(y, mp, day)) = x /\ DateOf(y, mp, day) \in Date
  <2>1. YearStart(y) \in Int /\ MonthStart(mp) \in Int /\ day \in Int
    BY <1>3, YearLengths, MonthStarts, SMT DEF MonthLength
  <2>2. YearStart(y) + MonthStart(mp) + day - 1 = x
    BY <1>5, <1>10, <2>1, SMT
  <2>3. /\ DateOf(y, mp, day) \in Date
        /\ ToOrd(DateOf(y, mp, day)) = YearStart(y) + MonthStart(mp) + day - 1
    BY <1>3, <1>6, <1>10, OrdOfFields
  <2> QED
    BY <2>2, <2>3, Zenon
<1> QED
  BY <1>7, RoundTripOfDate, Zenon

\* How the fields of two dates compare.
LEMMA DatesCompare ==
  ASSUME NEW d \in Date, NEW e \in Date
  PROVE  AtMost(d, e) <=> \/ d[1] < e[1]
                          \/ d[1] = e[1] /\ d[2] < e[2]
                          \/ d[1] = e[1] /\ d[2] = e[2] /\ d[3] <= e[3]
<1> DEFINE Less(i) == d[i] < e[i] /\ \A j \in 1..(i - 1) : d[j] = e[j]
<1>1. AtMost(d, e) <=> d = e \/ Less(1) \/ Less(2) \/ Less(3)
  <2>1. Len(d) = 3 /\ 1..3 = {1, 2, 3}
    BY DateFields, SMT
  <2> QED
    BY <2>1, Zenon DEF AtMost
<1>2. 1..(1 - 1) = {} /\ 1..(2 - 1) = {1} /\ 1..(3 - 1) = {1, 2}
  BY SMT
<1>3. /\ Less(1) <=> d[1] < e[1]
      /\ Less(2) <=> d[2] < e[2] /\ d[1] = e[1]
      /\ Less(3) <=> d[3] < e[3] /\ d[1] = e[1] /\ d[2] = e[2]
  BY <1>2, Zenon
<1>4. d = e <=> d[1] = e[1] /\ d[2] = e[2] /\ d[3] = e[3]
  BY DateFields
<1> HIDE DEF Less
<1> QED
  BY <1>1, <1>3, <1>4, DateFields, SMT

\* Dates are in the order of their ordinals, so the days that a server picks by comparing
\* fields are the ones that the planner counted (mdds/shard.rs:180).
THEOREM DatesInOrder ==
  ASSUME NEW d \in Date, NEW e \in Date
  PROVE  AtMost(d, e) <=> ToOrd(d) <= ToOrd(e)
<1>1. ASSUME NEW a \in Date, NEW b \in Date,
             \/ MarchYear(a) < MarchYear(b)
             \/ MarchYear(a) = MarchYear(b) /\ MarchMonth(a) < MarchMonth(b)
             \/ MarchYear(a) = MarchYear(b) /\ MarchMonth(a) = MarchMonth(b) /\ a[3] < b[3]
      PROVE  ToOrd(a) < ToOrd(b)
  <2>1. \A c \in {a, b} :
          /\ ToOrd(c) = YearStart(MarchYear(c)) + DayOfYear(c)
          /\ MarchYear(c) \in Int /\ YearStart(MarchYear(c)) \in Int
          /\ MarchMonth(c) \in 0..11 /\ MonthStart(MarchMonth(c)) \in Nat
          /\ c[3] \in 1..31
          /\ DayOfYear(c) = MonthStart(MarchMonth(c)) + c[3] - 1
          /\ DayOfYear(c) \in YearDays(IsLeap(MarchYear(c) + 1))
          /\ \A n \in 0..11 : MarchMonth(c) < n => DayOfYear(c) < MonthStart(n)
    <3> SUFFICES ASSUME NEW c \in Date
                 PROVE
          /\ ToOrd(c) = YearStart(MarchYear(c)) + DayOfYear(c)
          /\ MarchYear(c) \in Int /\ YearStart(MarchYear(c)) \in Int
          /\ MarchMonth(c) \in 0..11 /\ MonthStart(MarchMonth(c)) \in Nat
          /\ c[3] \in 1..31
          /\ DayOfYear(c) = MonthStart(MarchMonth(c)) + c[3] - 1
          /\ DayOfYear(c) \in YearDays(IsLeap(MarchYear(c) + 1))
          /\ \A n \in 0..11 : MarchMonth(c) < n => DayOfYear(c) < MonthStart(n)
      BY Zenon
    <3>1. IsLeap(MarchYear(c) + 1) \in BOOLEAN
      BY Zenon DEF IsLeap
    <3>2. MarchYear(c) \in Int /\ MarchMonth(c) \in 0..11
          /\ c[3] \in 1..MonthLength(MarchMonth(c), IsLeap(MarchYear(c) + 1))
      BY MarchFields, Zenon
    <3>3. /\ MonthStart(MarchMonth(c)) \in Nat
          /\ DayOfYear(c) \in YearDays(IsLeap(MarchYear(c) + 1))
          /\ \A n \in 0..11 : MarchMonth(c) < n => DayOfYear(c) < MonthStart(n)
      BY <3>1, <3>2, MonthsFit, Zenon DEF DayOfYear
    <3>4. YearStart(MarchYear(c)) \in Int
      BY <3>2, YearLengths, Zenon
    <3>5. c[3] \in 1..31
      BY DateFields, Zenon
    <3>6. DayOfYear(c) = MonthStart(MarchMonth(c)) + c[3] - 1
      BY Zenon DEF DayOfYear
    <3> QED
      BY <3>2, <3>3, <3>4, <3>5, <3>6, OrdOfDate, Zenon
  <2>2. CASE MarchYear(a) < MarchYear(b)
    <3>1. YearStart(MarchYear(a) + 1) <= YearStart(MarchYear(b))
      BY <2>1, <2>2, YearsGrow, SMT
    <3>2. YearStart(MarchYear(a)) + DayOfYear(a) < YearStart(MarchYear(a) + 1)
      BY <2>1, YearLengths, SMT DEF YearDays
    <3>3. YearStart(MarchYear(a) + 1) \in Int
      BY <2>1, YearLengths, SMT
    <3>4. DayOfYear(a) \in Int /\ DayOfYear(b) \in Nat
      BY <2>1, SMT DEF YearDays
    <3> QED
      BY <2>1, <3>1, <3>2, <3>3, <3>4, SMT
  <2>3. CASE MarchYear(a) = MarchYear(b) /\ MarchMonth(a) < MarchMonth(b)
    <3>1. DayOfYear(a) < MonthStart(MarchMonth(b))
      BY <2>1, <2>3, Zenon
    <3> QED
      BY <2>1, <2>3, <3>1, SMT
  <2>4. CASE MarchYear(a) = MarchYear(b) /\ MarchMonth(a) = MarchMonth(b) /\ a[3] < b[3]
    BY <2>1, <2>4, SMT
  <2> QED
    BY <1>1, <2>2, <2>3, <2>4
<1>2. ASSUME NEW a \in Date, NEW b \in Date, AtMost(a, b), a # b
      PROVE  ToOrd(a) < ToOrd(b)
  <2>1. \/ MarchYear(a) < MarchYear(b)
        \/ MarchYear(a) = MarchYear(b) /\ MarchMonth(a) < MarchMonth(b)
        \/ MarchYear(a) = MarchYear(b) /\ MarchMonth(a) = MarchMonth(b) /\ a[3] < b[3]
    BY <1>2, DatesCompare, DateFields, SMT DEF MarchYear, MarchMonth
  <2> QED
    BY <1>1, <2>1
<1>3. AtMost(d, e) \/ AtMost(e, d)
  BY DatesCompare, DateFields, SMT
<1>4. ToOrd(d) \in Int /\ ToOrd(e) \in Int
  <2> SUFFICES ASSUME NEW c \in Date PROVE ToOrd(c) \in Int
    OBVIOUS
  <2> QED
    BY OrdOfDate, MarchFields, YearLengths, MonthStarts, DateFields, SMT DEF DayOfYear
<1> QED
  BY <1>2, <1>3, <1>4

\* An ordinal is a number.
LEMMA OrdIsInt ==
  ASSUME NEW d \in Date
  PROVE  ToOrd(d) \in Int
  BY OrdOfDate, MarchFields, YearLengths, MonthStarts, DateFields, SMT DEF DayOfYear

------------------------------------------------------------------------------
(* The clock *)

\* The milliseconds since midnight of a time of day.
MsOf(h, m, s, l) == ((h * 60 + m) * 60 + s) * 1000 + l

\* The milliseconds of a day.
IsMsOfDay(ms) == ms \in Int /\ 0 <= ms /\ ms < 86400000

\* The hours, minutes, seconds and milliseconds of a day.
InDay(h, m, s, l) == h \in 0..23 /\ m \in 0..59 /\ s \in 0..59 /\ l \in 0..999

\* A time is its four fields.
LEMMA ClockFields ==
  ASSUME NEW t \in Time
  PROVE  /\ InDay(t[1], t[2], t[3], t[4])
         /\ t = <<t[1], t[2], t[3], t[4]>> /\ Len(t) = 4
  BY SMT DEF Time, InDay

\* What the parser computes of a time.
LEMMA MsOfClock ==
  ASSUME NEW t \in Time
  PROVE  ParseMsOfDay(t) = MsOf(t[1], t[2], t[3], t[4])
  BY Zenon DEF ParseMsOfDay, MsOf

\* The fields of a time are found again.
LEMMA FormatOfMs ==
  ASSUME NEW h, NEW m, NEW s, NEW l, InDay(h, m, s, l)
  PROVE  IsMsOfDay(MsOf(h, m, s, l)) /\ FormatHms(MsOf(h, m, s, l)) = <<h, m, s, l>>
<1> DEFINE x == MsOf(h, m, s, l)
<1>1. /\ x \in Int
      /\ x = 3600000 * h + (60000 * m + 1000 * s + l)
      /\ x = 60000 * (60 * h + m) + (1000 * s + l)
      /\ x = 1000 * (3600 * h + 60 * m + s) + l
  BY SMT DEF MsOf, InDay
<1> HIDE DEF x
<1>2. x \div 3600000 = h /\ x % 3600000 = 60000 * m + 1000 * s + l
  BY <1>1, Divides, SMT DEF InDay
<1>3. (60000 * m + 1000 * s + l) \div 60000 = m
  BY Divides, SMT DEF InDay
<1>4. x % 60000 = 1000 * s + l
  BY <1>1, Divides, SMT DEF InDay
<1>5. (1000 * s + l) \div 1000 = s
  BY Divides, SMT DEF InDay
<1>6. x % 1000 = l
  BY <1>1, Divides, SMT DEF InDay
<1>7. FormatHms(x) = <<h, m, s, l>>
  BY <1>2, <1>3, <1>4, <1>5, <1>6, SMT DEF FormatHms
<1>8. IsMsOfDay(x)
  BY <1>1, SMT DEF IsMsOfDay, InDay
<1> QED
  BY <1>7, <1>8, Zenon DEF x

\* No time of day is changed by the way to milliseconds and back (mdds/shard.rs:553).
THEOREM RoundTripOfTime ==
  ASSUME NEW t \in Time
  PROVE  IsMsOfDay(ParseMsOfDay(t)) /\ FormatHms(ParseMsOfDay(t)) = t
<1>1. InDay(t[1], t[2], t[3], t[4]) /\ t = <<t[1], t[2], t[3], t[4]>>
  BY ClockFields
<1>2. /\ IsMsOfDay(MsOf(t[1], t[2], t[3], t[4]))
      /\ FormatHms(MsOf(t[1], t[2], t[3], t[4])) = <<t[1], t[2], t[3], t[4]>>
  BY <1>1, FormatOfMs
<1>3. ParseMsOfDay(t) = MsOf(t[1], t[2], t[3], t[4])
  BY MsOfClock
<1> QED
  BY <1>1, <1>2, <1>3

\* Every millisecond of the day is a time.
THEOREM EveryMsIsATime ==
  ASSUME NEW x, IsMsOfDay(x)
  PROVE  FormatHms(x) \in Time /\ ParseMsOfDay(FormatHms(x)) = x
<1> DEFINE l == x - 1000 * (x \div 1000)
           a == x \div 1000
           s == a - 60 * (a \div 60)
           b == a \div 60
           m == b - 60 * (b \div 60)
           h == b \div 60
<1>1. a \in Int /\ 0 <= a /\ a < 86400 /\ l \in 0..999 /\ x = 1000 * a + l
  BY Quotient, Z3 DEF IsMsOfDay
<1> HIDE DEF a, l
<1>2. b \in Int /\ 0 <= b /\ b < 1440 /\ s \in 0..59 /\ a = 60 * b + s
  BY <1>1, Quotient, Z3
<1> HIDE DEF b, s
<1>3. h \in 0..23 /\ m \in 0..59 /\ b = 60 * h + m
  BY <1>2, Quotient, Z3
<1> HIDE DEF h, m
<1>4. x = MsOf(h, m, s, l) /\ InDay(h, m, s, l)
  BY <1>1, <1>2, <1>3, Z3 DEF MsOf, InDay
<1>5. FormatHms(x) = <<h, m, s, l>>
  BY <1>4, FormatOfMs, Zenon
<1>6. <<h, m, s, l>> \in Time
  BY <1>4, SMT DEF Time, InDay
<1>7. ParseMsOfDay(<<h, m, s, l>>) = MsOf(h, m, s, l)
  BY SMT DEF ParseMsOfDay, MsOf
<1> QED
  BY <1>4, <1>5, <1>6, <1>7, Zenon

\* How the fields of two times compare.
LEMMA TimesCompare ==
  ASSUME NEW t \in Time, NEW u \in Time
  PROVE  AtMost(t, u) <=> \/ t[1] < u[1]
                          \/ t[1] = u[1] /\ t[2] < u[2]
                          \/ t[1] = u[1] /\ t[2] = u[2] /\ t[3] < u[3]
                          \/ t[1] = u[1] /\ t[2] = u[2] /\ t[3] = u[3] /\ t[4] <= u[4]
<1> DEFINE Less(i) == t[i] < u[i] /\ \A j \in 1..(i - 1) : t[j] = u[j]
<1>1. AtMost(t, u) <=> t = u \/ Less(1) \/ Less(2) \/ Less(3) \/ Less(4)
  <2>1. Len(t) = 4 /\ 1..4 = {1, 2, 3, 4}
    BY ClockFields, SMT
  <2> QED
    BY <2>1, Zenon DEF AtMost
<1>2. 1..(1 - 1) = {} /\ 1..(2 - 1) = {1} /\ 1..(3 - 1) = {1, 2} /\ 1..(4 - 1) = {1, 2, 3}
  BY SMT
<1>3. /\ Less(1) <=> t[1] < u[1]
      /\ Less(2) <=> t[2] < u[2] /\ t[1] = u[1]
      /\ Less(3) <=> t[3] < u[3] /\ t[1] = u[1] /\ t[2] = u[2]
      /\ Less(4) <=> t[4] < u[4] /\ t[1] = u[1] /\ t[2] = u[2] /\ t[3] = u[3]
  BY <1>2, Zenon
<1>4. t = u <=> t[1] = u[1] /\ t[2] = u[2] /\ t[3] = u[3] /\ t[4] = u[4]
  BY ClockFields
<1> HIDE DEF Less
<1>5. InDay(t[1], t[2], t[3], t[4]) /\ InDay(u[1], u[2], u[3], u[4])
  BY ClockFields, Zenon
<1>6. t[4] <= u[4] <=> t[4] < u[4] \/ t[4] = u[4]
  <2>1. ASSUME NEW a \in Int, NEW b \in Int
        PROVE  a <= b <=> a < b \/ a = b
    BY SMT
  <2>2. t[4] \in Int /\ u[4] \in Int
    <3>1. ASSUME NEW h, NEW m, NEW s, NEW l, InDay(h, m, s, l)
          PROVE  l \in Int
      BY <3>1, SMT DEF InDay
    <3> QED
      BY <1>5, <3>1, Zenon
  <2> QED
    BY <2>1, <2>2, Zenon
<1> QED
  BY <1>1, <1>3, <1>4, <1>6, Zenon

\* Times are in the order of their milliseconds.
THEOREM TimesInOrder ==
  ASSUME NEW t \in Time, NEW u \in Time
  PROVE  AtMost(t, u) <=> ParseMsOfDay(t) <= ParseMsOfDay(u)
<1>1. ASSUME NEW h, NEW m, NEW s, NEW l, InDay(h, m, s, l),
             NEW i, NEW n, NEW p, NEW k, InDay(i, n, p, k)
      PROVE  MsOf(h, m, s, l) <= MsOf(i, n, p, k)
             <=> \/ h < i
                 \/ h = i /\ m < n
                 \/ h = i /\ m = n /\ s < p
                 \/ h = i /\ m = n /\ s = p /\ l <= k
  BY <1>1, Z3 DEF MsOf, InDay
<1>2. InDay(t[1], t[2], t[3], t[4]) /\ InDay(u[1], u[2], u[3], u[4])
  BY ClockFields, Zenon
<1>3. MsOf(t[1], t[2], t[3], t[4]) <= MsOf(u[1], u[2], u[3], u[4])
             <=> \/ t[1] < u[1]
                 \/ t[1] = u[1] /\ t[2] < u[2]
                 \/ t[1] = u[1] /\ t[2] = u[2] /\ t[3] < u[3]
                 \/ t[1] = u[1] /\ t[2] = u[2] /\ t[3] = u[3] /\ t[4] <= u[4]
  BY <1>1, <1>2
<1>4. /\ ParseMsOfDay(t) = MsOf(t[1], t[2], t[3], t[4])
      /\ ParseMsOfDay(u) = MsOf(u[1], u[2], u[3], u[4])
  BY MsOfClock, Zenon
<1> QED
  BY <1>3, <1>4, TimesCompare, Zenon
==============================================================================
