------------------------------ MODULE MCShards ------------------------------
(***************************************************************************)
(* Instances of ShardedQuery for TLC: a day is short and so are the bands. *)
(***************************************************************************)
EXTENDS ShardedQuery

Query(endpoint, contract, right, interval, date, days, times) ==
    [endpoint |-> endpoint, contract |-> contract, right |-> right,
     interval |-> interval, date |-> date, days |-> days, times |-> times]

\* Over a leap day, over the end of a year, over a century that has no leap day.
Leap == <<<<2024, 2, 27>>, <<2024, 3, 1>>>>
Year == <<<<2023, 12, 30>>, <<2024, 1, 3>>>>
Century == <<<<2100, 2, 27>>, <<2100, 3, 1>>>>
TwoDays == <<<<1969, 12, 31>>, <<1970, 1, 1>>>>
Noon == <<<<11, 59, 59, 998>>, <<12, 0, 0, 1>>>>

Sample ==
    {Query("history", "none", "both", 0, Absent, Year, Absent),
     Query("history", "one", "call", 0, <<2024, 2, 29>>, Absent, Noon),
     Query("history", "one", "call", 1, Absent, Leap, Noon),
     Query("history", "chain", "both", 0, Absent, Leap, Absent),
     Query("history", "chain", "call", 0, Absent, Century, Absent),
     Query("history", "chain", "both", 1, Absent, TwoDays, Absent),
     Query("history", "chain", "both", 0, <<2024, 2, 29>>, Absent, Noon),
     Query("at_time", "chain", "both", 0, Absent, TwoDays, Absent)}
==============================================================================
