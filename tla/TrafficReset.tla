---------------------------- MODULE TrafficReset ----------------------------
(***************************************************************************)
(* When a node's billing cycle ends: internal/service/traffic_reset.go and *)
(* the reset rule of apiUpdateNode in internal/server/node_handler.go.     *)
(*                                                                         *)
(* A goroutine looks at the node's row every minute and resets its traffic *)
(* when the rule of the row says that a cycle has ended since the last     *)
(* reset; an administrator may edit the row at the same time.  Time is     *)
(* counted in local days: the code compares dates, never hours.  What a    *)
(* reset does to the totals is the subject of module TrafficHub.           *)
(***************************************************************************)
EXTENDS Integers, Sequences

CONSTANTS
  MonthEnd,         \* the last days of the consecutive months of the calendar
  MaxDay,           \* 31 in NormalizeNodeTrafficResetDay
  DefaultInterval,  \* 30 in NormalizeTrafficResetIntervalDays
  MaxInterval,      \* 365 in NormalizeTrafficResetIntervalDays
  Request,          \* the rules an administrator may ask for, not normalised
  None,             \* absence: no anchor, no reset yet, no edit, nothing due
  MaxEdit           \* bound: edits of the node

Month == DOMAIN MonthEnd

(* The days before a month, and those it has.                               *)
Before == [m \in Month |-> IF m = 1 THEN 0 ELSE MonthEnd[m - 1]]
MonthLength == [m \in Month |-> MonthEnd[m] - Before[m]]

Day == 1 .. MonthEnd[Len(MonthEnd)]

ASSUME CalendarAssumption ==
  /\ MonthEnd \in Seq(Nat \ {0}) /\ Len(MonthEnd) >= 2
  /\ \A m, k \in Month : m < k => MonthEnd[m] < MonthEnd[k]
  /\ None \notin Int

MonthOf(t) == CHOOSE m \in Month : Before[m] < t /\ t <= Before[m] + MonthLength[m]
DayOf(t) == t - Before[MonthOf(t)]

(* The node is created on the first day of the second month, so that every  *)
(* day it lives has a previous month.                                       *)
Created == Before[2] + 1

Mode == {"off", "fixed_day", "calendar_month", "interval_days"}

ASSUME RuleAssumption ==
  /\ {MaxDay, DefaultInterval, MaxInterval} \subseteq Nat \ {0}
  /\ DefaultInterval <= MaxInterval /\ MaxEdit \in Nat
  /\ \A m \in Month : MonthLength[m] <= MaxDay
  /\ Request \subseteq [mode : Mode, day : Int, interval : Int, anchor : Day \cup {None}]

Lesser(a, b) == IF a < b THEN a ELSE b
Greater(a, b) == IF a > b THEN a ELSE b
-----------------------------------------------------------------------------
(* The rule of a row.                                                       *)

NormalizeDay(v) == Lesser(MaxDay, Greater(0, v))

NormalizeInterval(v) == IF v < 1 THEN DefaultInterval ELSE Lesser(v, MaxInterval)

NormalizeMode(mode, day) ==
  IF mode = "fixed_day" /\ NormalizeDay(day) = 0 THEN "off" ELSE mode

(* Mutant: a month without the day of the rule has no day at all.           *)
TargetDay_NotClamped(day, month) == day

(* The day of the month on which a fixed-day cycle ends.                    *)
TargetDay(day, month) == Lesser(day, MonthLength[month])

(* now.AddDate(0, -1, 0) moves to the same day of the previous month; a day *)
(* that month does not have becomes a day of the month after it.            *)
PreviousMonth(t) ==
  LET m == MonthOf(t) - 1 IN IF DayOf(t) <= MonthLength[m] THEN m ELSE m + 1

(* ResolveTrafficResetAtOnRuleChange.                                       *)
ResetAtOnRuleChange(mode, day, t) ==
  LET back == PreviousMonth(t) IN
  IF mode \in {"off", "interval_days"} THEN None
  ELSE IF mode = "fixed_day" /\ DayOf(t) < TargetDay(day, MonthOf(t))
    THEN Before[back] + TargetDay(day, back)
    ELSE t

(* ResolveTrafficResetAnchor.                                               *)
Anchor(r) == IF r.anchor # None THEN r.anchor ELSE Created

(* intervalCycleIndex: the number of intervals that have ended by day t.    *)
CycleIndex(r, t) == IF t < Anchor(r) THEN -1 ELSE (t - Anchor(r)) \div r.interval

WasResetInSameMonth(r, t) == r.resetAt # None /\ MonthOf(r.resetAt) = MonthOf(t)

WasResetInFixedDayCycle(r, t) ==
  WasResetInSameMonth(r, t) /\ DayOf(r.resetAt) >= TargetDay(r.day, MonthOf(t))

(* shouldResetNodeTrafficNow.                                               *)
ShouldReset(r, t) ==
  \/ r.mode = "calendar_month" /\ ~WasResetInSameMonth(r, t)
  \/ /\ r.mode = "fixed_day"
     /\ DayOf(t) >= TargetDay(r.day, MonthOf(t))
     /\ ~WasResetInFixedDayCycle(r, t)
  \/ /\ r.mode = "interval_days"
     /\ CycleIndex(r, t) >= 1
     /\ CycleIndex(r, t) > IF r.resetAt = None THEN -1 ELSE CycleIndex(r, r.resetAt)
-----------------------------------------------------------------------------
VARIABLES
  today,      \* the current day
  row,        \* the reset rule of the row and traffic_reset_at
  due,        \* day of the tick that found the node due and has not reset it yet
  edit,       \* the row an edit is about to save and the day it was prepared, or None
  edits,      \* history: edits begun
  ruleSince,  \* history: day on which the current rule was asked for
  lastReset,  \* history: day of the last reset under the current rule, or 0
  rolledBack  \* history: an edit or a late reset has put an older traffic_reset_at back

vars == <<today, row, due, edit, edits, ruleSince, lastReset, rolledBack>>

Row == [mode : Mode, day : 0 .. MaxDay, interval : 1 .. MaxInterval,
        anchor : Day \cup {None}, resetAt : Day \cup {None}]

TypeOK ==
  /\ today \in Day
  /\ row \in Row /\ (row.mode = "fixed_day" <=> row.day > 0)
  /\ due \in Day \cup {None}
  /\ edit \in [row : Row, asked : Day] \cup {None}
  /\ edits \in 0 .. MaxEdit
  /\ ruleSince \in Day
  /\ lastReset \in Day \cup {0}
  /\ rolledBack \in BOOLEAN

(* A node without a reset rule.                                             *)
Init ==
  /\ today = Created
  /\ row = [mode |-> "off", day |-> 0, interval |-> DefaultInterval,
            anchor |-> None, resetAt |-> None]
  /\ due = None /\ edit = None /\ edits = 0
  /\ ruleSince = Created /\ lastReset = 0 /\ rolledBack = FALSE

(* A tick may run over midnight, but not for a whole day.                   *)
NextDay ==
  /\ today + 1 \in Day
  /\ due \in {None, today}
  /\ today' = today + 1
  /\ UNCHANGED <<row, due, edit, edits, ruleSince, lastReset, rolledBack>>

(* handleTrafficAutoResetTick finds the node due.  A panel that is down is  *)
(* one that does not tick.                                                  *)
Tick ==
  /\ due = None
  /\ ShouldReset(row, today)
  /\ due' = today
  /\ UNCHANGED <<today, row, edit, edits, ruleSince, lastReset, rolledBack>>

(* Mutant: the totals are set to zero and the time of the reset is not kept. *)
Reset_NotRecorded ==
  /\ due # None
  /\ due' = None
  /\ lastReset' = due
  /\ rolledBack' = FALSE
  /\ UNCHANGED <<today, row, edit, edits, ruleSince>>

(* resetNodeTrafficCycle, with the time at which the tick began.            *)
Reset ==
  /\ due # None
  /\ due' = None
  /\ row' = [row EXCEPT !.resetAt = due]
  /\ lastReset' = due
  /\ rolledBack' = (row.resetAt # None /\ row.resetAt > due)
  /\ UNCHANGED <<today, edit, edits, ruleSince>>

(* The update of the row fails: the next tick finds the node due again.     *)
ResetFails ==
  /\ due # None
  /\ due' = None
  /\ UNCHANGED <<today, row, edit, edits, ruleSince, lastReset, rolledBack>>

(* resetRuleChanged of apiUpdateNode.                                       *)
RuleChanged(old, new) ==
  \/ old.mode # new.mode
  \/ old.day # new.day
  \/ new.mode = "interval_days" /\ old.interval # new.interval
  \/ "interval_days" \in {old.mode, new.mode} /\ old.anchor # new.anchor

(* The row with the request worked into it.                                 *)
Edited(old, q) ==
  LET mode == NormalizeMode(q.mode, q.day)
      new  == [mode |-> mode,
               day |-> IF mode = "fixed_day" THEN NormalizeDay(q.day) ELSE 0,
               interval |-> NormalizeInterval(q.interval),
               anchor |-> IF q.anchor # None THEN q.anchor
                          ELSE IF mode = "interval_days" THEN Anchor(old)
                          ELSE old.anchor,
               resetAt |-> old.resetAt]
  IN IF RuleChanged(old, new)
       THEN [new EXCEPT !.resetAt = ResetAtOnRuleChange(new.mode, new.day, today)]
       ELSE new

(* apiUpdateNode reads the row and prepares the one it will save ...        *)
EditRead(q) ==
  /\ edit = None /\ edits < MaxEdit
  /\ edit' = [row |-> Edited(row, q), asked |-> today]
  /\ edits' = edits + 1
  /\ UNCHANGED <<today, row, due, ruleSince, lastReset, rolledBack>>

(* ... and saves all its columns.                                           *)
EditSave ==
  /\ edit # None
  /\ edit' = None
  /\ row' = edit.row
  /\ IF RuleChanged(row, edit.row)
       THEN ruleSince' = edit.asked /\ lastReset' = 0 /\ rolledBack' = FALSE
       ELSE /\ UNCHANGED <<ruleSince, lastReset>>
            /\ rolledBack' = (rolledBack \/ row.resetAt # edit.row.resetAt)
  /\ UNCHANGED <<today, due, edits>>

(* The request is refused after all, or the row cannot be saved.            *)
EditFails ==
  /\ edit # None
  /\ edit' = None
  /\ UNCHANGED <<today, row, due, edits, ruleSince, lastReset, rolledBack>>

Next ==
  \/ NextDay
  \/ Tick \/ Reset \/ ResetFails
  \/ \E q \in Request : EditRead(q)
  \/ EditSave \/ EditFails

Spec == Init /\ [][Next]_vars
-----------------------------------------------------------------------------
(* The reference: the days on which a cycle of the rule ends, without the   *)
(* bookkeeping of traffic_reset_at.                                         *)
Scheduled(r) ==
  {t \in Day :
     \/ r.mode = "calendar_month" /\ DayOf(t) = 1
     \/ r.mode = "fixed_day" /\ DayOf(t) = Lesser(r.day, MonthLength[MonthOf(t)])
     \/ /\ r.mode = "interval_days"
        /\ t > Anchor(r) /\ (t - Anchor(r)) % r.interval = 0}

(* A cycle that ended before the rule was asked for is over, except that an *)
(* interval counts from its anchor even if that lies in the past.           *)
Settled ==
  IF row.mode = "interval_days" THEN lastReset ELSE Greater(ruleSince, lastReset)

(* The last cycle end that has not been answered by a reset.  A cycle of    *)
(* months that the panel slept through is dropped with its month.           *)
Owed ==
  \E t \in Scheduled(row) :
    /\ Settled < t /\ t <= today
    /\ row.mode = "interval_days" \/ MonthOf(t) = MonthOf(today)

(* An edit that asks for another rule is not judged before it is saved.     *)
Judged == edit = None /\ due = None /\ ~rolledBack

(* Resets do not come twice in a cycle, nor right after a rule change, nor  *)
(* early: shouldResetNodeTrafficNow says yes only when a cycle is owed,     *)
(* whatever edits, late ticks and failing resets came before.               *)
NeverTwice == Judged /\ ShouldReset(row, today) => Owed

(* A cycle that is owed is reset: no rule change, late tick or failing reset *)
(* makes shouldResetNodeTrafficNow miss it.  The exception is the rest of    *)
(* the month of a rule that was asked for on a day the month before lacks.   *)
NeverSkipped ==
  Judged /\ Owed
    => \/ ShouldReset(row, today)
       \/ /\ row.mode = "fixed_day" /\ lastReset = 0
          /\ MonthOf(today) = MonthOf(ruleSince)
          /\ DayOf(ruleSince) > MonthLength[MonthOf(ruleSince) - 1]

(* The comment on ResolveTrafficResetAtOnRuleChange: "so the upcoming day in *)
(* this month can still trigger normally".                                   *)
UpcomingDayTriggers == Judged /\ Owed => ShouldReset(row, today)
=============================================================================
