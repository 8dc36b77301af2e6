------------------------------ MODULE ShardPlan ------------------------------
(***************************************************************************)
(* How a history query is cut into bands, one request each.                *)
(*                                                                         *)
(* A day is <<year, month, day>> and a time of day <<hours, minutes,       *)
(* seconds, milliseconds>>, as on the wire; the planner computes with day  *)
(* ordinals and milliseconds since midnight.  A query is a record          *)
(*   endpoint     "history", "at_time" or "other"                          *)
(*   contract     "none" (stock, index), "one" or "chain"                  *)
(*   right        which rights it asks for: "both" or "call"               *)
(*   interval     of its bars in ms, 0 for ticks                           *)
(*   date         its single day, or Absent                                *)
(*   days, times  the first and the last of each, or Absent.               *)
(* Texts that do not parse are left out.                                   *)
(***************************************************************************)
EXTENDS Integers, Sequences

CONSTANTS
    MinBand,        \* MIN_SHARD_BAND_MS
    MinGridRows,    \* SHARD_MIN_GRID_ROWS
    SessionWindow,  \* RTH_WINDOW_MS
    MaxSpanDays     \* MAX_SPAN_DAYS

ASSUME PlanAssumption ==
    /\ MinBand \in Nat \ {0}
    /\ MinGridRows \in Nat
    /\ SessionWindow \in Nat
    /\ MaxSpanDays \in Nat \ {0}

Absent == <<>>
Call == 0
Put == 1
Own == 2   \* a band without an override of the right

Lesser(a, b) == IF a < b THEN a ELSE b
Greater(a, b) == IF a < b THEN b ELSE a

------------------------------------------------------------------------------
(* Days and times of day *)

IsLeap(y) == (y % 4 = 0 /\ y % 100 # 0) \/ y % 400 = 0

IsValidYmd(d) ==
    /\ d[2] \in 1..12
    /\ d[3] \in 1..(IF d[2] = 2 THEN (IF IsLeap(d[1]) THEN 29 ELSE 28)
                    ELSE IF d[2] \in {4, 6, 9, 11} THEN 30 ELSE 31)

Day  == {d \in Nat \X (1..12) \X (1..31) : IsValidYmd(d)}
Time == (0..23) \X (0..59) \X (0..59) \X (0..999)

\* The texts of a query are days and times.
IsQuery(q) ==
    /\ q.days \in {Absent} \cup (Day \X Day)
    /\ q.times \in {Absent} \cup (Time \X Time)

\* Division rounds down, which is what the code takes care to do before 0000-03-01.
ToOrd(d) ==
    LET y == IF d[2] <= 2 THEN d[1] - 1 ELSE d[1]
        era == y \div 400
        yoe == y - era * 400
        doy == (153 * (IF d[2] > 2 THEN d[2] - 3 ELSE d[2] + 9) + 2) \div 5 + d[3] - 1
    IN era * 146097 + (yoe * 365 + yoe \div 4 - yoe \div 100 + doy) - 719468

FromOrd(ord) ==
    LET z == ord + 719468
        era == z \div 146097
        doe == z - era * 146097
        yoe == (doe - doe \div 1460 + doe \div 36524 - doe \div 146096) \div 365
        doy == doe - (365 * yoe + yoe \div 4 - yoe \div 100)
        mp == (5 * doy + 2) \div 153
        m == IF mp < 10 THEN mp + 3 ELSE mp - 9
        y == yoe + era * 400
    IN <<IF m <= 2 THEN y + 1 ELSE y, m, doy - (153 * mp + 2) \div 5 + 1>>

ParseMsOfDay(t) == ((t[1] * 60 + t[2]) * 60 + t[3]) * 1000 + t[4]

FormatHms(ms) ==
    <<ms \div 3600000, (ms % 3600000) \div 60000, (ms % 60000) \div 1000, ms % 1000>>

------------------------------------------------------------------------------
(* split_date_range: chunks of a range that the server accepts *)

Chunks(first, last) ==
    LET start == ToOrd(first)
        end == ToOrd(last)
    IN [k \in 1..((end - start) \div MaxSpanDays + 1) |->
          [right |-> Own,
           from  |-> FromOrd(start + (k - 1) * MaxSpanDays),
           to    |-> FromOrd(Lesser(start + k * MaxSpanDays - 1, end))]]

------------------------------------------------------------------------------
(* Bands *)

\* Band k, from 1, covers [Cut(k - 1), Cut(k) - 1].
\* Variant: all bands are of the same whole length.
CutEqually(first, last, n, k) == first + k * ((last - first + 1) \div n)
Cut(first, last, n, k) == first + ((last - first + 1) * k) \div n

OnWire(axis, x) == IF axis = "date" THEN FromOrd(x) ELSE FormatHms(x)

\* time_bands, date_bands.
Bands(axis, first, last, n, right) ==
    [k \in 1..n |-> [right |-> right,
                     from  |-> OnWire(axis, Cut(first, last, n, k - 1)),
                     to    |-> OnWire(axis, Cut(first, last, n, k) - 1)]]

\* All calls, then all puts.
BandsByRight(axis, first, last, n) ==
    Bands(axis, first, last, n, Call) \o Bands(axis, first, last, n, Put)

------------------------------------------------------------------------------
(* plan_query *)

IsTickPull(q) == q.interval = 0
ChainCrossProduct(q) == q.contract = "chain"
SplittableByRight(q) == ChainCrossProduct(q) /\ q.right = "both"

DateSpanDays(q) ==
    IF q.days = Absent THEN 0
    ELSE Greater(0, ToOrd(q.days[2]) - ToOrd(q.days[1]) + 1)

\* A query with both a date and a range is left alone.
SelectAxis(q) ==
    IF q.date = Absent /\ DateSpanDays(q) >= 2 THEN "date"
    ELSE IF q.times # Absent /\ (q.date # Absent \/ DateSpanDays(q) = 1)
                             /\ (q.date = Absent \/ q.days = Absent) THEN "time"
    ELSE "none"

\* How many rows bars of a bounded interval can come to at the most.
GridRows(q) ==
    LET window == IF q.times # Absent /\ ParseMsOfDay(q.times[2]) > ParseMsOfDay(q.times[1])
                  THEN ParseMsOfDay(q.times[2]) - ParseMsOfDay(q.times[1])
                  ELSE SessionWindow
    IN DateSpanDays(q) * (window \div q.interval + 1)

SmallGrid(q) ==
    ~ChainCrossProduct(q) /\ ~IsTickPull(q) /\ GridRows(q) < MinGridRows

\* Bars are anchored to the start of the window: only ticks are cut by time.
TimePlan(q, width) ==
    LET first == ParseMsOfDay(q.times[1])
        last  == ParseMsOfDay(q.times[2])
        fit   == (last - first + 1) \div MinBand
    IN IF last <= first \/ ~IsTickPull(q) THEN <<>>
       ELSE IF SplittableByRight(q)
       THEN BandsByRight("time", first, last, Greater(1, Lesser(fit, width \div 2)))
       ELSE IF Lesser(fit, width) < 2 THEN <<>>
       ELSE Bands("time", first, last, Lesser(fit, width), Own)

\* The server gives the ticks of a chain one day at a time.
SingleDayTickChain(q) ==
    IsTickPull(q) /\ ChainCrossProduct(q) /\ q.endpoint # "at_time"

\* Is there room to split by right, without making bands of several days of the ticks?
RightsFit(q, width) ==
    /\ SplittableByRight(q)
    /\ DateSpanDays(q) < width
    /\ IsTickPull(q) => 2 * DateSpanDays(q) <= width

DatePlan(q, width) ==
    LET first == ToOrd(q.days[1])
        last  == ToOrd(q.days[2])
        span  == DateSpanDays(q)
    IN IF SmallGrid(q) THEN <<>>
       ELSE IF RightsFit(q, width)
       THEN BandsByRight("date", first, last, Greater(1, Lesser(span, width \div 2)))
       ELSE Bands("date", first, last,
                  IF SingleDayTickChain(q) THEN span ELSE Lesser(span, width), Own)

\* No bands: the query stays on a single stream.
PlanQuery(q, width) ==
    IF \/ q.endpoint = "other"
       \/ q.endpoint = "at_time" /\ q.contract = "one"
       \/ SelectAxis(q) = "none"
       \/ width < 2
    THEN <<>>
    ELSE IF SelectAxis(q) = "time" THEN TimePlan(q, width) ELSE DatePlan(q, width)

------------------------------------------------------------------------------
(* The server, external, compares days and times field by field. *)

AtMost(u, v) ==
    u = v \/ \E i \in 1..Len(u) : u[i] < v[i] /\ \A j \in 1..(i - 1) : u[j] = v[j]

Covers(band, at) == AtMost(band.from, at) /\ AtMost(at, band.to)

\* The days a query asks for, by the calendar.
Days(q) ==
    {d \in (q.days[1][1]..q.days[2][1]) \X (1..12) \X (1..31) :
       IsValidYmd(d) /\ AtMost(q.days[1], d) /\ AtMost(d, q.days[2])}

\* What is cut: days or times.
Asked(q) ==
    IF SelectAxis(q) = "date" THEN Days(q)
    ELSE IF SelectAxis(q) = "time"
    THEN {FormatHms(ms) : ms \in ParseMsOfDay(q.times[1])..ParseMsOfDay(q.times[2])}
    ELSE {}

RightsAsked(q) == IF q.right = "both" THEN {Call, Put} ELSE {Call}
==============================================================================
