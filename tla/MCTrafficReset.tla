--------------------------- MODULE MCTrafficReset ---------------------------
(* Instances of TrafficReset: a calendar of months of 4, 5, 3 and 5 days,   *)
(* and the turn of a real winter.                                           *)
EXTENDS TrafficReset

Rule(m, d, i, a) == [mode |-> m, day |-> d, interval |-> i, anchor |-> a]

ShortMonths == <<4, 9, 12, 17>>

ShortRequests ==
  {Rule("off", 0, 0, None), Rule("calendar_month", 0, 3, None),
   Rule("interval_days", 0, 3, None), Rule("interval_days", 0, 2, 7)}
  \cup {Rule("fixed_day", d, 0, None) : d \in {0, 1, 3, 5, 6}}

RealMonths == <<31, 62, 90, 121>>

RealRequests == {Rule("fixed_day", 31, 30, None)}
=============================================================================
