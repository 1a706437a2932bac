---------------------------- MODULE Ticks_proofs ----------------------------
(***************************************************************************)
(* Theorems about the two goroutines of the panel that look at every node  *)
(* by the clock: about TrafficReset, for any calendar, any rules an        *)
(* administrator may ask for and any bounds, and about OfflineNotify, for  *)
(* any number of connections and any bound.                                *)
(***************************************************************************)
EXTENDS TrafficReset, OfflineNotify, TLAPS, WellFoundedInduction

(***************************************************************************)
(* TrafficReset: the end of a billing cycle.                               *)
(***************************************************************************)
Monthly == {"fixed_day", "calendar_month"}

(* The rule was asked for in a month whose reset is still to come.           *)
Upcoming(r, asked) == r.mode = "fixed_day" /\ DayOf(asked) < TargetDay(r.day, MonthOf(asked))

(* Nothing happened before the node existed or will happen after today.      *)
DaysInv ==
  /\ Created <= today
  /\ ruleSince \in Created .. today
  /\ lastReset # 0 => lastReset \in Created .. today
  /\ due # None => due \in Created .. today
  /\ edit # None => edit.asked \in Created .. today

(* A tick that began before a rule of months was asked for finds a later     *)
(* traffic_reset_at when it resets the row at last, and that is seen.        *)
Noticed(r) ==
  due # None /\ due < ruleSince /\ r.mode \in Monthly /\ ~Upcoming(r, ruleSince)
    => r.resetAt # None /\ r.resetAt > due

(* An edit saves the traffic_reset_at of its new rule, or the one it read.   *)
EditInv ==
  edit # None =>
    IF RuleChanged(row, edit.row)
      THEN edit.row.resetAt = ResetAtOnRuleChange(edit.row.mode, edit.row.day, edit.asked)
      ELSE Noticed(edit.row)

(* Unless something older was put back, traffic_reset_at is what the change  *)
(* of the rule made of it, or the day of the last reset.                     *)
BooksInv ==
  ~rolledBack =>
    IF lastReset = 0
      THEN row.resetAt = ResetAtOnRuleChange(row.mode, row.day, ruleSince)
      ELSE /\ row.resetAt = lastReset
           /\ row.mode \in Monthly /\ lastReset < ruleSince => Upcoming(row, ruleSince)

EditedRow == edit # None => (edit.row.mode = "fixed_day" <=> edit.row.day > 0)

CycleInv == TypeOK /\ DaysInv /\ Noticed(row) /\ EditedRow /\ EditInv /\ BooksInv
-----------------------------------------------------------------------------
(* The calendar.                                                            *)

LEMMA LeastElement ==
  ASSUME NEW S \in SUBSET Nat, S # {}
  PROVE  \E x \in S : \A y \in S : x <= y
<1>1. IsWellFoundedOn(OpToRel(<, Nat), Nat)
  BY NatLessThanWellFounded
<1>2. PICK x \in S : \A y \in S : ~(<<y, x>> \in OpToRel(<, Nat))
  BY <1>1, WFMin
<1>3. \A y \in S : <<y, x>> \in OpToRel(<, Nat) <=> y < x
  BY DEF OpToRel
<1>4. \A y \in S : ~(y < x)
  BY <1>2, <1>3, Zenon
<1> QED BY <1>4

LEMMA Months ==
  /\ Month = 1 .. Len(MonthEnd) /\ Len(MonthEnd) \in Nat /\ Len(MonthEnd) >= 2
  /\ \A m \in Month : /\ MonthEnd[m] \in Nat /\ Before[m] \in Nat /\ MonthLength[m] \in Nat
                      /\ Before[m] < MonthEnd[m] /\ MonthLength[m] > 0
                      /\ MonthEnd[m] = Before[m] + MonthLength[m]
                      /\ MonthEnd[m] <= MonthEnd[Len(MonthEnd)]
  /\ \A m, k \in Month : m < k => MonthEnd[m] <= Before[k]
<1>1. /\ Month = 1 .. Len(MonthEnd) /\ Len(MonthEnd) \in Nat /\ Len(MonthEnd) >= 2
      /\ \A m \in Month : MonthEnd[m] \in Nat /\ MonthEnd[m] > 0
  BY CalendarAssumption DEF Month
<1>2. \A m, k \in Month : m < k => MonthEnd[m] < MonthEnd[k]
  BY CalendarAssumption
<1>3. \A m \in Month : Before[m] = IF m = 1 THEN 0 ELSE MonthEnd[m - 1]
  BY DEF Before
<1>4. \A m \in Month : MonthLength[m] = MonthEnd[m] - Before[m]
  BY DEF MonthLength
<1>5. \A m \in Month : Before[m] \in Nat /\ Before[m] < MonthEnd[m]
  BY <1>1, <1>2, <1>3
<1>6. \A m \in Month : MonthEnd[m] <= MonthEnd[Len(MonthEnd)]
  BY <1>1, <1>2
<1>7. \A m, k \in Month : m < k => MonthEnd[m] <= Before[k]
  <2> SUFFICES ASSUME NEW m \in Month, NEW k \in Month, m < k PROVE MonthEnd[m] <= Before[k]
    OBVIOUS
  <2>1. k - 1 \in Month /\ Before[k] = MonthEnd[k - 1]
    BY <1>1, <1>3
  <2> QED BY <1>1, <1>2, <2>1
<1>8. \A m \in Month : MonthLength[m] \in Nat /\ MonthLength[m] > 0 /\ MonthEnd[m] = Before[m] + MonthLength[m]
  BY <1>1, <1>4, <1>5
<1> QED BY <1>1, <1>5, <1>6, <1>7, <1>8

(* Every day is a day of one month.                                         *)
LEMMA MonthIs ==
  ASSUME NEW t \in Day, NEW m \in Month, Before[m] < t, t <= MonthEnd[m]
  PROVE  MonthOf(t) = m
<1>1. \A k \in Month : Before[k] < t /\ t <= Before[k] + MonthLength[k] => k = m
  <2> SUFFICES ASSUME NEW k \in Month, Before[k] < t, t <= MonthEnd[k], k # m PROVE FALSE
    BY Months
  <2>1. CASE k < m
    BY <2>1, Months DEF Day
  <2>2. CASE m < k
    BY <2>2, Months DEF Day
  <2> QED BY <2>1, <2>2, Months
<1>2. Before[m] < t /\ t <= Before[m] + MonthLength[m]
  BY Months
<1> QED BY <1>1, <1>2 DEF MonthOf

LEMMA MonthOfDay ==
  ASSUME NEW t \in Day
  PROVE  /\ MonthOf(t) \in Month /\ t \in Nat
         /\ Before[MonthOf(t)] < t /\ t <= MonthEnd[MonthOf(t)]
         /\ DayOf(t) \in 1 .. MonthLength[MonthOf(t)] /\ t = Before[MonthOf(t)] + DayOf(t)
<1> DEFINE S == {m \in Month : t <= MonthEnd[m]}
<1>1. t \in Nat /\ t >= 1 /\ t <= MonthEnd[Len(MonthEnd)]
  BY Months DEF Day
<1>2. S \in SUBSET Nat /\ S # {}
  <2>1. Len(MonthEnd) \in S
    BY <1>1, Months
  <2> QED BY <2>1, Months
<1>3. PICK m \in S : \A k \in S : m <= k
  BY <1>2, LeastElement
<1>4. m \in Month /\ t <= MonthEnd[m]
  OBVIOUS
<1>5. Before[m] < t
  <2>1. CASE m = 1
    BY <1>1, <2>1, <1>4 DEF Before
  <2>2. CASE m # 1
    <3>1. m - 1 \in Month /\ Before[m] = MonthEnd[m - 1]
      BY <1>4, <2>2, Months DEF Before
    <3>2. m - 1 \notin S
      BY <1>3, <1>4, Months
    <3> QED BY <1>1, <3>1, <3>2, Months
  <2> QED BY <2>1, <2>2
<1>6. MonthOf(t) = m
  BY <1>4, <1>5, MonthIs
<1> QED BY <1>1, <1>4, <1>5, <1>6, Months DEF DayOf

LEMMA DayInMonth ==
  ASSUME NEW m \in Month, NEW d \in 1 .. MonthLength[m]
  PROVE  /\ Before[m] + d \in Day
         /\ MonthOf(Before[m] + d) = m /\ DayOf(Before[m] + d) = d
<1>1. Before[m] + d \in Day /\ Before[m] < Before[m] + d /\ Before[m] + d <= MonthEnd[m]
  BY Months DEF Day
<1>2. MonthOf(Before[m] + d) = m
  BY <1>1, MonthIs
<1> QED BY <1>1, <1>2, Months DEF DayOf

LEMMA MonthOrder ==
  ASSUME NEW t \in Day, NEW u \in Day, t <= u
  PROVE  /\ MonthOf(t) <= MonthOf(u)
         /\ MonthOf(t) < MonthOf(u) => t <= Before[MonthOf(u)]
<1>1. /\ MonthOf(t) \in Month /\ MonthOf(u) \in Month /\ t \in Nat /\ u \in Nat
      /\ Before[MonthOf(t)] < t /\ t <= MonthEnd[MonthOf(t)] /\ u <= MonthEnd[MonthOf(u)]
  BY MonthOfDay
<1>2. MonthOf(t) < MonthOf(u) => MonthEnd[MonthOf(t)] <= Before[MonthOf(u)]
  BY <1>1, Months
<1>3. MonthOf(u) < MonthOf(t) => MonthEnd[MonthOf(u)] <= Before[MonthOf(t)]
  BY <1>1, Months
<1> QED BY <1>1, <1>2, <1>3, Months

LEMMA CreatedIsDay == Created \in Day /\ Created = MonthEnd[1] + 1
<1>1. 1 \in Month /\ 2 \in Month /\ Before[2] = MonthEnd[1]
  BY Months DEF Before
<1>2. MonthEnd[1] <= Before[2] /\ Before[2] < MonthEnd[2] /\ MonthEnd[2] <= MonthEnd[Len(MonthEnd)]
  BY <1>1, Months
<1> QED BY <1>1, <1>2, Months DEF Created, Day

LEMMA TargetInMonth ==
  ASSUME NEW day \in 1 .. MaxDay, NEW m \in Month
  PROVE  TargetDay(day, m) \in 1 .. MonthLength[m]
  BY Months, RuleAssumption DEF TargetDay, Lesser

(* A day the node lives has a month before it.                              *)
LEMMA PreviousIsMonth ==
  ASSUME NEW t \in Day, Created <= t
  PROVE  /\ PreviousMonth(t) \in Month
         /\ \/ PreviousMonth(t) = MonthOf(t) - 1
            \/ /\ PreviousMonth(t) = MonthOf(t)
               /\ DayOf(t) > MonthLength[MonthOf(t) - 1]
<1>1. MonthOf(t) \in Month /\ t <= MonthEnd[MonthOf(t)] /\ t \in Nat
  BY MonthOfDay
<1>2. MonthOf(t) # 1
  BY <1>1, CreatedIsDay, Months
<1>3. MonthOf(t) - 1 \in Month
  BY <1>1, <1>2, Months
<1>4. DayOf(t) \in Nat /\ MonthLength[MonthOf(t) - 1] \in Nat
  BY <1>3, MonthOfDay, Months
<1> QED BY <1>1, <1>3, <1>4, Months DEF PreviousMonth
-----------------------------------------------------------------------------
(* The rules.                                                               *)

ProperRule(r) == r \in Row /\ (r.mode = "fixed_day" <=> r.day > 0)

LEMMA ResetAtType ==
  ASSUME NEW r \in Row, ProperRule(r), NEW t \in Day, Created <= t
  PROVE  ResetAtOnRuleChange(r.mode, r.day, t) \in Day \cup {None}
<1>1. CASE r.mode = "fixed_day"
  <2>1. r.day \in 1 .. MaxDay /\ PreviousMonth(t) \in Month
    BY <1>1, PreviousIsMonth, RuleAssumption DEF ProperRule, Row
  <2>2. Before[PreviousMonth(t)] + TargetDay(r.day, PreviousMonth(t)) \in Day
    BY <2>1, TargetInMonth, DayInMonth
  <2> QED BY <2>2 DEF ResetAtOnRuleChange
<1>2. CASE r.mode # "fixed_day"
  BY <1>2 DEF ResetAtOnRuleChange
<1> QED BY <1>1, <1>2

(* The row an edit prepares has a proper rule; its traffic_reset_at is what  *)
(* the change of the rule makes of it, or the one that was read.             *)
LEMMA EditedIs ==
  ASSUME TypeOK, Created <= today, NEW q \in Request
  PROVE  /\ ProperRule(Edited(row, q))
         /\ Edited(row, q).resetAt =
              IF RuleChanged(row, Edited(row, q))
                THEN ResetAtOnRuleChange(Edited(row, q).mode, Edited(row, q).day, today)
                ELSE row.resetAt
<1> DEFINE mode == NormalizeMode(q.mode, q.day)
           new == [mode |-> mode,
                   day |-> IF mode = "fixed_day" THEN NormalizeDay(q.day) ELSE 0,
                   interval |-> NormalizeInterval(q.interval),
                   anchor |-> IF q.anchor # None THEN q.anchor
                              ELSE IF mode = "interval_days" THEN Anchor(row)
                              ELSE row.anchor,
                   resetAt |-> row.resetAt]
           at == ResetAtOnRuleChange(mode, new.day, today)
<1>1. q.mode \in Mode /\ q.day \in Int /\ q.interval \in Int /\ q.anchor \in Day \cup {None}
  BY RuleAssumption
<1>2. row \in Row /\ row.anchor \in Day \cup {None} /\ row.resetAt \in Day \cup {None} /\ today \in Day
  BY DEF TypeOK, Row
<1>3. mode \in Mode /\ (mode = "fixed_day" => NormalizeDay(q.day) # 0)
  BY <1>1 DEF NormalizeMode, Mode
<1>4. NormalizeDay(q.day) \in 0 .. MaxDay
  BY <1>1, RuleAssumption DEF NormalizeDay, Lesser, Greater
<1>5. NormalizeInterval(q.interval) \in 1 .. MaxInterval
  BY <1>1, RuleAssumption DEF NormalizeInterval, Lesser
<1>6. Anchor(row) \in Day
  BY <1>2, CreatedIsDay DEF Anchor
<1>7. new \in Row /\ ProperRule(new)
  <2>1. new.day \in 0 .. MaxDay /\ (mode = "fixed_day" <=> new.day > 0)
    BY <1>3, <1>4, RuleAssumption
  <2>2. new.anchor \in Day \cup {None}
    BY <1>1, <1>2, <1>6
  <2> HIDE DEF mode
  <2>3. new \in Row
    BY <1>2, <1>3, <1>5, <2>1, <2>2 DEF Row
  <2> QED BY <2>1, <2>3 DEF ProperRule
<1>8. at \in Day \cup {None}
  BY <1>2, <1>7, ResetAtType
<1>9. Edited(row, q) = IF RuleChanged(row, new) THEN [new EXCEPT !.resetAt = at] ELSE new
  BY DEF Edited
<1>10. new.resetAt = row.resetAt /\ new.mode = mode
  OBVIOUS
<1> HIDE DEF mode, new, at
<1>11. CASE RuleChanged(row, new)
  <2> DEFINE e == [new EXCEPT !.resetAt = at]
  <2>1. /\ e \in Row /\ e.mode = new.mode /\ e.day = new.day /\ e.interval = new.interval
        /\ e.anchor = new.anchor /\ e.resetAt = at
    BY <1>7, <1>8 DEF Row
  <2>2. ProperRule(e) /\ RuleChanged(row, e)
    BY <1>7, <1>11, <2>1 DEF ProperRule, RuleChanged
  <2>3. at = ResetAtOnRuleChange(new.mode, new.day, today)
    BY <1>10 DEF at
  <2> QED BY <1>9, <1>11, <2>1, <2>2, <2>3
<1>12. CASE ~RuleChanged(row, new)
  BY <1>7, <1>9, <1>10, <1>12
<1> QED BY <1>11, <1>12

(* What the change of a rule of months to one that is not upcoming writes.  *)
LEMMA ResetAtPlain ==
  ASSUME NEW r, NEW t, r.mode \in Monthly, ~Upcoming(r, t), t # None
  PROVE  ResetAtOnRuleChange(r.mode, r.day, t) = t
  BY DEF ResetAtOnRuleChange, Monthly, Upcoming
-----------------------------------------------------------------------------
LEMMA CycleInit == Init => CycleInv
<1> SUFFICES ASSUME Init PROVE CycleInv
  OBVIOUS
<1>1. row \in Row /\ row.mode = "off" /\ row.day = 0 /\ row.resetAt = None
  BY RuleAssumption DEF Init, Row, Mode
<1>2. Created \in Day /\ Created \in Int /\ Created # 0
  BY CreatedIsDay, Months DEF Day
<1>3. TypeOK
  <2>1. row.mode = "fixed_day" <=> row.day > 0
    BY <1>1
  <2>2. edits \in 0 .. MaxEdit
    BY RuleAssumption DEF Init
  <2> QED BY <1>1, <1>2, <2>1, <2>2 DEF Init, TypeOK
<1> QED BY <1>1, <1>2, <1>3
        DEF Init, CycleInv, DaysInv, Noticed, EditedRow, EditInv, BooksInv, ResetAtOnRuleChange

LEMMA CycleStep == CycleInv /\ [Next]_vars => CycleInv'
<1> SUFFICES ASSUME CycleInv, [Next]_vars PROVE CycleInv'
  OBVIOUS
<1> USE DEF CycleInv
<1>0. /\ today \in Day /\ today \in Int /\ Created \in Day /\ Created \in Int /\ Created > 0
      /\ None \notin Int
      /\ \A d \in Day : d \in Int /\ d > 0
      /\ ruleSince \in Day
  BY CreatedIsDay, CalendarAssumption, Months DEF TypeOK, Day
<1>1. CASE NextDay
  BY <1>0, <1>1 DEF NextDay, TypeOK, DaysInv, Noticed, EditedRow, EditInv, BooksInv
<1>2. CASE Tick
  BY <1>0, <1>2 DEF Tick, TypeOK, DaysInv, Noticed, EditedRow, EditInv, BooksInv
<1>3. CASE Reset
  <2>1. /\ row'.mode = row.mode /\ row'.day = row.day /\ row'.interval = row.interval
        /\ row'.anchor = row.anchor /\ row'.resetAt = due /\ row' \in Row /\ due \in Day
    BY <1>3 DEF Reset, TypeOK, Row
  <2>2. /\ due # None /\ due' = None /\ lastReset' = due /\ rolledBack' = (row.resetAt # None /\ row.resetAt > due)
        /\ UNCHANGED <<today, edit, edits, ruleSince>>
    BY <1>3 DEF Reset
  <2>3. TypeOK'
    BY <2>1, <2>2 DEF TypeOK
  <2>4. DaysInv'
    BY <1>0, <2>1, <2>2 DEF DaysInv
  <2>5. EditInv' /\ EditedRow' /\ Noticed(row)'
    BY <2>1, <2>2 DEF EditInv, EditedRow, RuleChanged, Noticed
  <2>6. BooksInv'
    <3> SUFFICES ASSUME ~rolledBack', row.mode \in Monthly, due < ruleSince
                 PROVE  Upcoming(row, ruleSince)'
      BY <1>0, <2>1, <2>2 DEF BooksInv
    <3>1. Upcoming(row, ruleSince)
      BY <2>2 DEF Noticed
    <3> QED BY <2>1, <2>2, <3>1 DEF Upcoming
  <2> QED BY <2>3, <2>4, <2>5, <2>6
<1>4. CASE ResetFails
  BY <1>0, <1>4 DEF ResetFails, TypeOK, DaysInv, Noticed, EditedRow, EditInv, BooksInv
<1>5. ASSUME NEW q \in Request, EditRead(q) PROVE CycleInv'
  <2> DEFINE e == Edited(row, q)
  <2>1. ProperRule(e) /\ e.resetAt = IF RuleChanged(row, e) THEN ResetAtOnRuleChange(e.mode, e.day, today)
                                     ELSE row.resetAt
    BY EditedIs DEF DaysInv
  <2>2. /\ edit' = [row |-> e, asked |-> today] /\ edits' = edits + 1 /\ edits < MaxEdit
        /\ UNCHANGED <<today, row, due, ruleSince, lastReset, rolledBack>>
    BY <1>5 DEF EditRead
  <2> HIDE DEF e
  <2>3. edit'.row = e /\ edit'.asked = today
    BY <2>2
  <2>4. TypeOK'
    <3>1. edits' \in 0 .. MaxEdit
      BY <2>2, RuleAssumption DEF TypeOK
    <3>2. edit' \in [row : Row, asked : Day]
      BY <1>0, <2>1, <2>2 DEF ProperRule
    <3> QED BY <2>2, <3>1, <3>2 DEF TypeOK
  <2>5. DaysInv'
    BY <1>0, <2>2, <2>3 DEF DaysInv
  <2>6. EditedRow'
    BY <2>1, <2>3 DEF EditedRow, ProperRule
  <2>7. EditInv'
    <3>1. CASE RuleChanged(row, e)
      BY <2>1, <2>2, <2>3, <3>1 DEF EditInv
    <3>2. CASE ~RuleChanged(row, e)
      <4>1. e.mode = row.mode /\ e.day = row.day /\ e.resetAt = row.resetAt
        BY <2>1, <3>2 DEF RuleChanged
      <4>2. Noticed(edit.row)'
        BY <2>2, <2>3, <4>1 DEF Noticed, Upcoming
      <4>3. ~RuleChanged(row, edit.row)'
        BY <2>2, <2>3, <3>2
      <4> QED BY <4>2, <4>3 DEF EditInv
    <3> QED BY <3>1, <3>2
  <2>8. Noticed(row)' /\ BooksInv'
    BY <2>2 DEF Noticed, BooksInv
  <2> QED BY <2>4, <2>5, <2>6, <2>7, <2>8
<1>6. CASE EditSave
  <2>1. /\ edit # None /\ edit' = None /\ row' = edit.row
        /\ UNCHANGED <<today, due, edits>>
    BY <1>6 DEF EditSave
  <2>2. edit \in [row : Row, asked : Day] /\ edit.row \in Row /\ edit.asked \in Day
    BY <2>1 DEF TypeOK
  <2>3. CASE RuleChanged(row, edit.row)
    <3>1. ruleSince' = edit.asked /\ lastReset' = 0 /\ rolledBack' = FALSE
      BY <1>6, <2>3 DEF EditSave
    <3>2. row'.resetAt = ResetAtOnRuleChange(row'.mode, row'.day, ruleSince')
      BY <2>1, <2>3, <3>1 DEF EditInv
    <3>3. TypeOK' /\ DaysInv'
      BY <2>1, <2>2, <3>1 DEF TypeOK, DaysInv, EditedRow
    <3>4. Noticed(row)'
      <4> SUFFICES ASSUME due' # None, due' < ruleSince', row'.mode \in Monthly,
                          ~Upcoming(row', ruleSince')
                   PROVE  row'.resetAt # None /\ row'.resetAt > due'
        BY DEF Noticed
      <4>1. ruleSince' # None /\ ruleSince' \in Int
        BY <1>0, <2>2, <3>1
      <4>2. row'.resetAt = ruleSince'
        BY <3>2, <4>1, ResetAtPlain
      <4>3. due' \in Int
        BY <1>0, <2>1 DEF TypeOK
      <4> QED BY <4>1, <4>2, <4>3
    <3>5. BooksInv'
      BY <3>1, <3>2 DEF BooksInv
    <3> QED BY <2>1, <3>3, <3>4, <3>5 DEF EditedRow, EditInv
  <2>4. CASE ~RuleChanged(row, edit.row)
    <3>1. /\ UNCHANGED <<ruleSince, lastReset>>
          /\ rolledBack' = (rolledBack \/ row.resetAt # edit.row.resetAt)
      BY <1>6, <2>4 DEF EditSave
    <3>2. row'.mode = row.mode /\ row'.day = row.day
      BY <2>1, <2>4 DEF RuleChanged
    <3>3. TypeOK' /\ DaysInv'
      BY <2>1, <2>2, <3>1 DEF TypeOK, DaysInv, EditedRow
    <3>4. Noticed(row)'
      BY <2>1, <2>4, <3>1 DEF EditInv, Noticed
    <3>5. BooksInv'
      <4> SUFFICES ASSUME ~rolledBack, row'.resetAt = row.resetAt PROVE BooksInv'
        BY <2>1, <3>1 DEF BooksInv
      <4> QED BY <3>1, <3>2 DEF BooksInv, Upcoming
    <3> QED BY <2>1, <3>3, <3>4, <3>5 DEF EditedRow, EditInv
  <2> QED BY <2>3, <2>4
<1>7. CASE EditFails
  BY <1>0, <1>7 DEF EditFails, TypeOK, DaysInv, Noticed, EditedRow, EditInv, BooksInv
<1>8. CASE UNCHANGED vars
  BY <1>8 DEF vars, TypeOK, DaysInv, Noticed, EditedRow, EditInv, BooksInv
<1> QED BY <1>1, <1>2, <1>3, <1>4, <1>5, <1>6, <1>7, <1>8 DEF Next

LEMMA CycleInvariant == Spec => []CycleInv
<1>1. Init => CycleInv
  BY CycleInit
<1>2. CycleInv /\ [Next]_vars => CycleInv'
  BY CycleStep
<1> QED BY <1>1, <1>2, PTL DEF Spec
-----------------------------------------------------------------------------
(* The decision of a tick agrees with the schedule, mode by mode.           *)

Since == Greater(ruleSince, lastReset)

LEMMA SinceIs ==
  ASSUME CycleInv
  PROVE  /\ Since \in Day /\ Since <= today /\ today \in Day /\ ruleSince \in Day
         /\ Since = IF lastReset # 0 /\ lastReset >= ruleSince THEN lastReset ELSE ruleSince
         /\ \A d \in Day : d \in Int /\ d > 0 /\ d # None
  BY CalendarAssumption, Months DEF Since, Greater, CycleInv, TypeOK, DaysInv, Day

LEMMA CalendarMonthAgrees ==
  ASSUME CycleInv, Judged, row.mode = "calendar_month"
  PROVE  ShouldReset(row, today) <=> Owed
<1> DEFINE first == Before[MonthOf(today)] + 1
<1>0. /\ Since \in Day /\ Since <= today /\ today \in Day /\ ruleSince \in Day
      /\ Since = IF lastReset # 0 /\ lastReset >= ruleSince THEN lastReset ELSE ruleSince
      /\ \A d \in Day : d \in Int /\ d > 0 /\ d # None
  BY SinceIs
<1>1. row.resetAt = Since
  <2>1. BooksInv /\ ~rolledBack
    BY DEF CycleInv, Judged
  <2>2. CASE lastReset = 0
    BY <1>0, <2>1, <2>2 DEF BooksInv, ResetAtOnRuleChange
  <2>3. CASE lastReset # 0
    BY <1>0, <2>1, <2>3 DEF BooksInv, Monthly, Upcoming, CycleInv, TypeOK
  <2> QED BY <2>2, <2>3
<1>2. ShouldReset(row, today) <=> MonthOf(Since) # MonthOf(today)
  BY <1>0, <1>1 DEF ShouldReset, WasResetInSameMonth
<1>3. first \in Day /\ MonthOf(first) = MonthOf(today) /\ DayOf(first) = 1 /\ first <= today
  <2>1. /\ MonthOf(today) \in Month /\ today \in Nat
        /\ Before[MonthOf(today)] < today
    BY <1>0, MonthOfDay
  <2>2. 1 \in 1 .. MonthLength[MonthOf(today)] /\ Before[MonthOf(today)] \in Nat
    BY <2>1, Months
  <2> QED BY <2>1, <2>2, DayInMonth
<1>4. Owed <=> \E t \in Day : DayOf(t) = 1 /\ Since < t /\ t <= today /\ MonthOf(t) = MonthOf(today)
  BY DEF Owed, Scheduled, Settled, Since
<1>5. ASSUME MonthOf(Since) # MonthOf(today) PROVE Owed
  <2>1. Since <= Before[MonthOf(today)]
    BY <1>0, <1>5, MonthOrder, MonthOfDay, Months
  <2>2. Since < first
    BY <1>0, <2>1, MonthOfDay, Months
  <2> QED BY <1>3, <1>4, <2>2
<1>6. ASSUME Owed, MonthOf(Since) = MonthOf(today) PROVE FALSE
  <2>1. PICK t \in Day : DayOf(t) = 1 /\ Since < t /\ MonthOf(t) = MonthOf(today)
    BY <1>4, <1>6
  <2>2. t = Before[MonthOf(today)] + 1
    BY <2>1, MonthOfDay
  <2>3. Before[MonthOf(today)] < Since /\ Before[MonthOf(today)] \in Nat
    BY <1>0, <1>6, MonthOfDay, Months
  <2>4. t \in Int /\ Since \in Int
    BY <1>0
  <2> QED BY <2>1, <2>2, <2>3, <2>4
<1> QED BY <1>2, <1>5, <1>6

(* A rule that was asked for on a day that the month before lacks.          *)
Overflowed ==
  /\ row.mode = "fixed_day" /\ lastReset = 0
  /\ MonthOf(today) = MonthOf(ruleSince)
  /\ DayOf(ruleSince) > MonthLength[MonthOf(ruleSince) - 1]

LEMMA FixedDayAgrees ==
  ASSUME CycleInv, Judged, row.mode = "fixed_day"
  PROVE  (ShouldReset(row, today) => Owed) /\ (Owed => ShouldReset(row, today) \/ Overflowed)
<1> DEFINE m == MonthOf(today)
           end == Before[m] + TargetDay(row.day, m)
           back == PreviousMonth(ruleSince)
<1>0. /\ Since \in Day /\ Since <= today /\ today \in Day /\ ruleSince \in Day
      /\ Since = IF lastReset # 0 /\ lastReset >= ruleSince THEN lastReset ELSE ruleSince
      /\ \A d \in Day : d \in Int /\ d > 0 /\ d # None
  BY SinceIs
<1>1. row.day \in 1 .. MaxDay /\ row.resetAt \in Day \cup {None}
  BY RuleAssumption DEF CycleInv, TypeOK, Row
<1>2. /\ m \in Month /\ Before[m] \in Nat /\ TargetDay(row.day, m) \in 1 .. MonthLength[m]
      /\ end \in Day /\ MonthOf(end) = m /\ DayOf(end) = TargetDay(row.day, m)
      /\ today = Before[m] + DayOf(today) /\ DayOf(today) \in Int
  <2>1. m \in Month /\ today = Before[m] + DayOf(today) /\ DayOf(today) \in Int
    BY <1>0, MonthOfDay, Months
  <2>2. Before[m] \in Nat /\ TargetDay(row.day, m) \in 1 .. MonthLength[m]
    BY <1>1, <2>1, TargetInMonth, Months
  <2> HIDE DEF m
  <2> QED BY <2>1, <2>2, DayInMonth
<1>3. \A t \in Day : MonthOf(t) = m => (DayOf(t) >= TargetDay(row.day, m) <=> t >= end)
  BY <1>2, MonthOfDay, Months
<1>4. ShouldReset(row, today) <=>
        end <= today /\ ~(row.resetAt # None /\ MonthOf(row.resetAt) = m /\ row.resetAt >= end)
  BY <1>1, <1>2, <1>3, <1>0 DEF ShouldReset, WasResetInFixedDayCycle, WasResetInSameMonth
<1>5. Owed <=> Since < end /\ end <= today
  <2>1. Owed <=> \E t \in Day : /\ DayOf(t) = TargetDay(row.day, MonthOf(t)) /\ Since < t /\ t <= today
                               /\ MonthOf(t) = m
    BY DEF Owed, Scheduled, Settled, Since, TargetDay
  <2>2. \A t \in Day : MonthOf(t) = m /\ DayOf(t) = TargetDay(row.day, m) => t = end
    BY MonthOfDay
  <2> QED BY <1>2, <2>1, <2>2
<1> HIDE DEF end, m
<1>6. CASE row.resetAt = Since
  <2>1. ASSUME end <= today, Since >= end PROVE MonthOf(Since) = m
    <3>1. MonthOf(end) <= MonthOf(Since) /\ MonthOf(Since) <= MonthOf(today)
      BY <1>2, <2>1, <1>0, MonthOrder
    <3> QED BY <1>2, <3>1, <1>0, MonthOfDay, Months DEF m
  <2> QED BY <1>2, <1>4, <1>5, <1>6, <2>1, <1>0
<1>7. CASE row.resetAt # Since
  <2>0. row.mode \in Monthly
    BY DEF Monthly
  <2>1. Upcoming(row, ruleSince) /\ Since = ruleSince
    <3>1. BooksInv /\ ~rolledBack /\ ruleSince # None
      BY <1>0 DEF CycleInv, Judged
    <3>2. CASE lastReset = 0
      BY <1>0, <1>7, <2>0, <3>1, <3>2, ResetAtPlain DEF BooksInv
    <3>3. CASE lastReset # 0
      <4>1. lastReset \in Int /\ ruleSince \in Int
        BY <1>0, <3>3 DEF CycleInv, TypeOK
      <4> QED BY <1>0, <1>7, <2>0, <3>1, <3>3, <4>1 DEF BooksInv
    <3> QED BY <3>2, <3>3
  <2>2. MonthOf(ruleSince) <= m /\ MonthOf(ruleSince) \in Month /\ m \in Int
    BY <1>2, <2>1, <1>0, MonthOrder, MonthOfDay, Months DEF m
  <2> ruleSince \in Int /\ DayOf(ruleSince) \in Int /\ end \in Int /\ Before[m] \in Int
      /\ TargetDay(row.day, m) \in Int
    BY <1>0, <1>2, MonthOfDay
  <2>3. end <= today => Since < end
    <3>1. CASE MonthOf(ruleSince) = m
      BY <1>0, <1>3, <2>1, <3>1 DEF Upcoming
    <3>2. CASE MonthOf(ruleSince) # m
      <4>1. MonthOf(ruleSince) < MonthOf(today)
        BY <2>2, <3>2, Months DEF m
      <4>2. ruleSince <= Before[m]
        BY <2>1, <4>1, <1>0, MonthOrder DEF m
      <4> QED BY <1>2, <2>1, <4>2, <1>0 DEF end
    <3> QED BY <3>1, <3>2
  <2>4. CASE lastReset # 0
    <3>1. row.resetAt = lastReset /\ lastReset < ruleSince /\ lastReset \in Day
      BY <1>7, <2>1, <2>4, <1>0 DEF CycleInv, TypeOK, BooksInv, Judged
    <3>2. MonthOf(lastReset) <= MonthOf(ruleSince) /\ MonthOf(lastReset) \in Month
      BY <3>1, <1>0, MonthOrder, MonthOfDay
    <3>3. end <= today => ~(row.resetAt >= end /\ MonthOf(row.resetAt) = m)
      <4>1. CASE MonthOf(ruleSince) = m
        <5>1. ruleSince < end
          BY <1>0, <1>3, <2>1, <4>1 DEF Upcoming
        <5> QED BY <1>2, <3>1, <5>1, <1>0
      <4>2. CASE MonthOf(ruleSince) # m
        BY <2>2, <3>1, <3>2, <4>2, Months
      <4> QED BY <4>1, <4>2
    <3> QED BY <1>4, <1>5, <2>3, <3>3
  <2>5. CASE lastReset = 0
    <3>1. ruleSince # None /\ Created <= ruleSince
      BY <1>0 DEF CycleInv, DaysInv
    <3>2. /\ back \in Month
          /\ \/ back = MonthOf(ruleSince) - 1
             \/ /\ back = MonthOf(ruleSince)
                /\ DayOf(ruleSince) > MonthLength[MonthOf(ruleSince) - 1]
      BY <3>1, <1>0, PreviousIsMonth
    <3>3. row.resetAt = Before[back] + TargetDay(row.day, back)
      BY <2>1, <2>5 DEF CycleInv, BooksInv, Judged, ResetAtOnRuleChange, Upcoming
    <3>4. MonthOf(row.resetAt) = back
      BY <1>1, <3>2, <3>3, TargetInMonth, DayInMonth
    <3>5. MonthOf(row.resetAt) = m => Overflowed
      BY <2>2, <2>5, <3>2, <3>4, Months DEF Overflowed, m
    <3> QED BY <1>4, <1>5, <2>3, <3>5
  <2> QED BY <2>4, <2>5
<1> QED BY <1>6, <1>7

(* The number of intervals that have ended is the last one that has.        *)
LEMMA Intervals ==
  ASSUME NEW a \in Int, NEW t \in Int, a <= t, NEW i \in Nat, i > 0
  PROVE  LET k == (t - a) \div i IN
         /\ k \in Nat /\ a + k * i <= t /\ t < a + k * i + i
         /\ ((a + k * i) - a) % i = 0
<1> DEFINE b == t - a
           k == b \div i
<1>1. b \in Nat
  OBVIOUS
<1> HIDE DEF b
<1>2. k \in Nat /\ k * i <= b /\ b < k * i + i
  BY <1>1, SMTT(20)
<1> HIDE DEF k
<1>3. k * i \in Nat
  BY <1>2
<1>4. (k * i) % i = 0
  BY <1>2, SMTT(20)
<1>5. (a + k * i) - a = k * i
  BY <1>3
<1>6. a + k * i <= t /\ t < a + k * i + i
  BY <1>2, <1>3 DEF b
<1> QED BY <1>2, <1>4, <1>5, <1>6 DEF k, b

LEMMA IntervalAgrees ==
  ASSUME CycleInv, Judged, row.mode = "interval_days"
  PROVE  ShouldReset(row, today) <=> Owed
<1> DEFINE a == Anchor(row)
           i == row.interval
           k(t) == (t - a) \div i
<1>1. a \in Day /\ i \in Nat /\ i > 0 /\ lastReset \in Int /\ lastReset >= 0
  BY SinceIs, CreatedIsDay, RuleAssumption DEF CycleInv, TypeOK, Row, Anchor
<1>2. row.resetAt = IF lastReset = 0 THEN None ELSE lastReset
  BY DEF CycleInv, BooksInv, Judged, ResetAtOnRuleChange
<1>3. None # lastReset
  BY <1>1, CalendarAssumption
<1>4. a \in Int /\ a > 0 /\ today \in Int
  BY <1>1, SinceIs
<1>5. ShouldReset(row, today) <=>
        a <= today /\ k(today) >= 1 /\ (lastReset < a \/ k(lastReset) < k(today))
  <2>1. CycleIndex(row, today) = IF today < a THEN -1 ELSE k(today)
    BY DEF CycleIndex
  <2>2. lastReset # 0 => CycleIndex(row, lastReset) = IF lastReset < a THEN -1 ELSE k(lastReset)
    BY DEF CycleIndex
  <2>3. ShouldReset(row, today) <=>
          /\ CycleIndex(row, today) >= 1
          /\ CycleIndex(row, today) > IF row.resetAt = None THEN -1 ELSE CycleIndex(row, row.resetAt)
    BY DEF ShouldReset
  <2>4. a <= today => k(today) \in Nat
    BY <1>1, <1>4, Intervals
  <2>5. a <= lastReset => k(lastReset) \in Nat
    BY <1>1, <1>4, Intervals
  <2> HIDE DEF k, a
  <2> QED BY <1>1, <1>2, <1>3, <1>4, <2>1, <2>2, <2>3, <2>4, <2>5
<1>6. Owed <=> \E t \in Day : a < t /\ (t - a) % i = 0 /\ lastReset < t /\ t <= today
  BY DEF Owed, Scheduled, Settled
<1>7. \A t \in Int : a <= t => /\ k(t) \in Nat /\ k(t) * i \in Nat
                              /\ a + k(t) * i <= t /\ t < a + k(t) * i + i
                              /\ ((a + k(t) * i) - a) % i = 0
  <2> SUFFICES ASSUME NEW t \in Int, a <= t
               PROVE  /\ k(t) \in Nat /\ k(t) * i \in Nat
                      /\ a + k(t) * i <= t /\ t < a + k(t) * i + i
                      /\ ((a + k(t) * i) - a) % i = 0
    OBVIOUS
  <2>1. /\ k(t) \in Nat
        /\ a + k(t) * i <= t /\ t < a + k(t) * i + i
        /\ ((a + k(t) * i) - a) % i = 0
    BY <1>1, <1>4, Intervals
  <2> HIDE DEF k, a, i
  <2> QED BY <1>1, <2>1
<1>8. \A t \in Int : a <= t /\ (t - a) % i = 0 => t = a + k(t) * i
  <2> SUFFICES ASSUME NEW t \in Int, a <= t, (t - a) % i = 0 PROVE t = a + k(t) * i
    OBVIOUS
  <2> DEFINE b == t - a
  <2>1. b \in Nat /\ b % i = 0 /\ t = a + b
    BY <1>1, <1>4
  <2> HIDE DEF b, a, i
  <2>2. b = (b \div i) * i
    BY <1>1, <2>1, SMTT(20)
  <2> QED BY <2>1, <2>2 DEF b
<1> HIDE DEF a, i, k
<1>9. \A x, y \in Nat : /\ x < y => x * i + i <= y * i
                        /\ x * i < y * i => x < y
  BY <1>1, SMTT(20)
<1>10. ASSUME ShouldReset(row, today) PROVE Owed
  <2>1. a <= today /\ k(today) >= 1 /\ (lastReset < a \/ k(lastReset) < k(today))
    BY <1>5, <1>10
  <2>2. PICK t : t = a + k(today) * i
    OBVIOUS
  <2>3. /\ k(today) \in Nat /\ k(today) * i \in Nat /\ t \in Int
        /\ t <= today /\ (t - a) % i = 0
    BY <1>4, <1>7, <2>1, <2>2
  <2>4. k(today) * i >= i
    BY <1>1, <1>9, <2>1, <2>3
  <2>5. a < t
    BY <1>1, <1>4, <2>2, <2>3, <2>4
  <2>6. t \in Day
    <3>1. today <= MonthEnd[Len(MonthEnd)] /\ MonthEnd[Len(MonthEnd)] \in Int
      BY Months, SinceIs DEF Day
    <3> QED BY <1>4, <2>3, <2>5, <3>1 DEF Day
  <2>7. lastReset < t
    <3>1. CASE lastReset < a
      BY <1>1, <1>4, <2>3, <2>5, <3>1
    <3>2. CASE a <= lastReset
      <4>1. k(lastReset) \in Nat /\ k(lastReset) * i \in Nat /\ lastReset < a + k(lastReset) * i + i
        BY <1>1, <1>7, <3>2
      <4>2. k(lastReset) < k(today)
        BY <1>1, <1>4, <2>1, <3>2
      <4>3. k(lastReset) * i + i <= k(today) * i
        BY <1>9, <2>3, <4>1, <4>2
      <4> QED BY <1>1, <1>4, <2>2, <2>3, <4>1, <4>3
    <3> QED BY <1>1, <1>4, <3>1, <3>2
  <2> QED BY <1>6, <2>3, <2>5, <2>6, <2>7
<1>11. ASSUME Owed PROVE ShouldReset(row, today)
  <2>1. PICK t \in Day : a < t /\ (t - a) % i = 0 /\ lastReset < t /\ t <= today
    BY <1>6, <1>11
  <2>2. t \in Int
    BY SinceIs
  <2>3. t = a + k(t) * i /\ k(t) \in Nat /\ k(t) * i \in Nat
    BY <1>4, <1>7, <1>8, <2>1, <2>2
  <2>4. a <= today /\ k(today) \in Nat /\ k(today) * i \in Nat /\ today < a + k(today) * i + i
    BY <1>4, <1>7, <2>1, <2>2
  <2>5. k(t) >= 1
    <3>1. k(t) # 0
      BY <1>1, <1>4, <2>1, <2>3
    <3> QED BY <2>3, <3>1
  <2>6. k(t) <= k(today)
    <3>1. ~(k(today) * i + i <= k(t) * i)
      BY <1>1, <1>4, <2>1, <2>2, <2>3, <2>4
    <3> QED BY <1>9, <2>3, <2>4, <3>1
  <2>7. ASSUME a <= lastReset PROVE k(lastReset) \in Nat /\ k(lastReset) < k(t)
    <3>1. k(lastReset) \in Nat /\ k(lastReset) * i \in Nat /\ a + k(lastReset) * i <= lastReset
      BY <1>1, <1>7, <2>7
    <3>2. k(lastReset) * i < k(t) * i
      BY <1>1, <1>4, <2>1, <2>2, <2>3, <3>1
    <3> QED BY <1>9, <2>3, <3>1, <3>2
  <2> QED BY <1>1, <1>4, <1>5, <2>3, <2>4, <2>5, <2>6, <2>7
<1> QED BY <1>10, <1>11

LEMMA OffAgrees ==
  ASSUME row.mode = "off"
  PROVE  ~ShouldReset(row, today) /\ ~Owed
  BY DEF ShouldReset, Owed, Scheduled

LEMMA Agrees == CycleInv => NeverTwice /\ NeverSkipped
<1> SUFFICES ASSUME CycleInv, Judged
             PROVE  /\ ShouldReset(row, today) => Owed
                    /\ Owed => ShouldReset(row, today) \/ Overflowed
  BY DEF NeverTwice, NeverSkipped, Overflowed
<1>1. row.mode \in Mode
  BY DEF CycleInv, TypeOK, Row
<1> QED BY <1>1, CalendarMonthAgrees, FixedDayAgrees, IntervalAgrees, OffAgrees DEF Mode
-----------------------------------------------------------------------------
(* Every variable keeps its type: whatever is asked for, the row has a rule  *)
(* with days and intervals in range, and the days that the code computes     *)
(* exist in the calendar.                                                    *)
THEOREM TypeCorrect == Spec => []TypeOK
  BY CycleInvariant, PTL DEF CycleInv

(* A tick resets a node only when a cycle of its rule has ended since the    *)
(* last reset and the last change of the rule.                               *)
THEOREM ResetsOncePerCycle == Spec => []NeverTwice
<1>1. CycleInv => NeverTwice
  BY Agrees
<1> QED BY <1>1, CycleInvariant, PTL

(* A tick finds a node due whenever a cycle of its rule has ended, but for   *)
(* the month of a rule that was asked for on a day the month before lacks.   *)
THEOREM ResetsEveryCycle == Spec => []NeverSkipped
<1>1. CycleInv => NeverSkipped
  BY Agrees
<1> QED BY <1>1, CycleInvariant, PTL
-----------------------------------------------------------------------------
(***************************************************************************)
(* OfflineNotify: the messages about an outage.                            *)
(***************************************************************************)
(* A connection's handler calls while it registers or ends, and only then;    *)
(* and the tick has done with its candidate when it sends the alarm.          *)
HandlerInv ==
  /\ NotifyTypeOK
  /\ \A c \in Conn : handler[c] \in {"bind", "unbind"} <=> pc[c] # "idle"
  /\ pc[Ticker] = "alarm" => ~candidate

(* As long as the last message is that the node is offline and nothing was   *)
(* dropped, the tick is about to record it or the entry says so, and then    *)
(* the node is no candidate.                                                 *)
ToldInv ==
  told = "offline" /\ ~lapsed =>
    /\ ~candidate
    /\ \/ pc[Ticker] \in {"mark", "sent"}
       \/ /\ pc[Ticker] \in {"idle", "change", "send", "clear", "forget"}
          /\ entry # Absent /\ entry.last = "offline"

Places == {"idle", "change", "send", "clear", "forget", "due", "alarm", "mark", "sent", "failed"}
CallPlaces == {"idle", "change", "send", "clear", "forget"}

(* What the connections and the calls have to do with each other.            *)
CallsOK ==
  /\ handler \in [Conn -> {"none", "bind", "open", "unbind"}]
  /\ registered \in Conn \cup {Absent}
  /\ pc \in [Proc -> Places] /\ online \in [Proc -> BOOLEAN] /\ candidate \in BOOLEAN
  /\ \A p \in Proc \ {Ticker} : pc[p] \in CallPlaces
  /\ registered # Absent => handler[registered] \in {"bind", "open"}
  /\ \A c \in Conn : handler[c] = "open" => registered = c
  /\ \A c \in Conn : handler[c] \in {"bind", "unbind"} <=> pc[c] # "idle"
  /\ pc[Ticker] = "alarm" => ~candidate

(* As long as calls have not met, at most one of them waits for Telegram or  *)
(* the database.  What makes NeedOnlineNotify true comes from an outage that  *)
(* was told, until the call that tells its end has taken it back.  The row   *)
(* is left out: it may say anything, and a start that believes it when it    *)
(* parts from the cache is remembered as misled.                             *)
Quiet == {"idle", "change", "due"}

Alone       == \A p, q \in Proc : pc[p] \notin Quiet /\ pc[q] \notin Quiet => p = q
SendKnows   == \A p \in Proc : pc[p] = "send" => told = "offline" \/ preBoot \/ misled
MarkersKnow == marker => told = "offline" \/ misled \/ \E p \in Proc : pc[p] = "clear"
EntryKnows  == entry # Absent /\ entry.last = "offline" =>
                 told = "offline" \/ \E p \in Proc : pc[p] \in {"clear", "forget"}
TickKnows   == pc[Ticker] \in {"mark", "sent"} => told = "offline"

BackInv == ~torn => Alone /\ SendKnows /\ MarkersKnow /\ EntryKnows /\ TickKnows

(* What is kept in the row, and what became of it.                           *)
RowOK == markerRow \in BOOLEAN /\ misled \in BOOLEAN /\ draft \in BOOLEAN \cup {Absent}

(* The rest.                                                                 *)
RecordsOK ==
  /\ RowOK
  /\ signal \in BOOLEAN /\ config \in {"default", "off", "on"}
  /\ marker \in BOOLEAN /\ preBoot \in BOOLEAN /\ judged \in BOOLEAN
  /\ muted \in BOOLEAN /\ entry \in Entry \cup {Absent}
  /\ told \in {"none", "offline", "online"}
  /\ lapsed \in BOOLEAN /\ owed \in BOOLEAN /\ late \in BOOLEAN /\ torn \in BOOLEAN
  /\ troubles \in Nat

(* The two halves are preserved for different reasons.                       *)
LEMMA Split == HandlerInv <=> CallsOK /\ RecordsOK
  BY DEF HandlerInv, NotifyTypeOK, CallsOK, RecordsOK, RowOK, Places, CallPlaces

LEMMA ProcMembers == Ticker \in Proc /\ Admin \in Proc /\ Conn \subseteq Proc
                     /\ Ticker \notin Conn /\ Admin \notin Conn /\ Ticker # Admin /\ Absent \notin Conn
  BY AbsentAssumption, ProcAssumption DEF Proc

LEMMA HandlerInit == NotifyInit => HandlerInv
<1> SUFFICES ASSUME NotifyInit PROVE HandlerInv
  OBVIOUS
<1>1. CallsOK
  BY ProcMembers DEF NotifyInit, CallsOK, Places, CallPlaces
<1>2. RecordsOK
  BY DEF NotifyInit, RecordsOK, RowOK
<1> QED BY <1>1, <1>2, Split

LEMMA ReturnOK ==
  ASSUME CallsOK, NEW p \in Proc, pc[p] # "idle", Return(p), UNCHANGED <<registered, candidate>>
  PROVE  CallsOK' /\ pc'[Ticker] = (IF p # Ticker THEN pc[Ticker] ELSE IF candidate THEN "due" ELSE "idle")
<1>1. /\ pc' \in [Proc -> Places] /\ online' \in [Proc -> BOOLEAN]
      /\ handler' \in [Conn -> {"none", "bind", "open", "unbind"}]
  BY DEF Return, CallsOK, Places
<1>2. \A q \in Proc : q # p => pc'[q] = pc[q]
  BY DEF Return, CallsOK
<1>3. pc'[p] = (IF p = Ticker /\ candidate THEN "due" ELSE "idle")
  BY DEF Return, CallsOK
<1>4. \A c \in Conn : handler'[c] = IF c # p THEN handler[c]
                                    ELSE IF handler[c] = "bind" /\ registered = c THEN "open" ELSE "none"
  BY DEF Return
<1> QED BY <1>1, <1>2, <1>3, <1>4, ProcMembers DEF CallsOK, CallPlaces

LEMMA StepOK ==
  ASSUME CallsOK, NEW p \in Proc, Step(p) PROVE CallsOK'
<1>1. CASE Ignore(p) \/ GoesOffline(p) \/ Forget(p)
  BY <1>1, ReturnOK DEF Ignore, GoesOffline, Forget
<1>2. CASE GoesOnline(p) \/ SendOnline(p) \/ ClearMarkers(p)
  <2>1. PICK place \in CallPlaces \ {"idle"} : pc' = [pc EXCEPT ![p] = place]
    BY <1>2 DEF GoesOnline, SendOnline, ClearMarkers, CallPlaces
  <2>2. pc[p] # "idle" /\ UNCHANGED <<handler, registered, online, candidate>>
    BY <1>2 DEF GoesOnline, SendOnline, ClearMarkers, connVars
  <2> QED BY <2>1, <2>2, ProcMembers DEF CallsOK, CallPlaces, Places
<1> QED BY <1>1, <1>2 DEF Step

LEMMA CallOK ==
  ASSUME CallsOK, NEW p \in {Ticker, Admin}, NEW up \in BOOLEAN, Call(p, up),
         UNCHANGED <<handler, registered>>, candidate' \in BOOLEAN, p # Ticker => candidate' = candidate
  PROVE  CallsOK'
  BY ProcMembers DEF CallsOK, Call, CallPlaces, Places

LEMMA WatchOK ==
  ASSUME CallsOK, RecordsOK, Watch PROVE CallsOK'
<1>1. UNCHANGED <<handler, registered>>
  BY DEF Watch, NotifyTick, DropCandidate, Postpone, Alarm, SendOffline, SendOfflineFails, MarkNotified,
         RecordNotified, connVars
<1>2. candidate' \in BOOLEAN
  BY DEF Watch, NotifyTick, DropCandidate, Postpone, Alarm, SendOffline, SendOfflineFails, MarkNotified,
         RecordNotified, CallsOK
<1>3. ASSUME NEW place \in Places, pc' = [pc EXCEPT ![Ticker] = place], UNCHANGED online,
              place = "alarm" => ~candidate' PROVE CallsOK'
  BY <1>1, <1>2, <1>3, ProcMembers DEF CallsOK
<1>4. CASE NotifyTick
  <2>1. CASE Transition # {}
    <3>1. (CHOOSE up \in Transition : TRUE) \in BOOLEAN
      BY <2>1 DEF Transition, RecordsOK
    <3> QED BY <1>1, <1>2, <1>4, <2>1, <3>1, CallOK DEF NotifyTick
  <2>2. CASE Transition = {}
    BY <1>3, <1>4, <2>2 DEF NotifyTick, Places
  <2> QED BY <2>1, <2>2
<1>5. CASE ~NotifyTick
  BY <1>3, <1>5 DEF Watch, DropCandidate, Postpone, Alarm, SendOffline, SendOfflineFails, MarkNotified,
                    RecordNotified, Places
<1> QED BY <1>4, <1>5

LEMMA BindOK ==
  ASSUME CallsOK, NEW c \in Conn, Bind(c) PROVE CallsOK'
<1>1. pc[c] = "idle" /\ pc' = [pc EXCEPT ![c] = "change"] /\ online' = [online EXCEPT ![c] = TRUE]
  BY DEF Bind, Call
<1>2. registered' = c /\ UNCHANGED candidate
  BY DEF Bind
<1>3. \A d \in Conn : handler'[d] = IF d = c THEN "bind"
                         ELSE IF d = registered /\ handler[d] = "open" THEN "none" ELSE handler[d]
  BY DEF Bind
<1>4. handler' \in [Conn -> {"none", "bind", "open", "unbind"}]
  BY DEF Bind, CallsOK
<1> QED BY <1>1, <1>2, <1>3, <1>4, ProcMembers DEF CallsOK, CallPlaces, Places

LEMMA CallsStep == CallsOK /\ RecordsOK /\ [NotifyNext]_notifyVars => CallsOK'
<1> SUFFICES ASSUME CallsOK, RecordsOK, [NotifyNext]_notifyVars PROVE CallsOK'
  OBVIOUS
<1>1. ASSUME NEW c \in Conn, Hear(c) PROVE CallsOK'
  BY <1>1 DEF Hear, CallsOK, callVars
<1>2. ASSUME NEW c \in Conn, Unbind(c) PROVE CallsOK'
  <2>1. pc[c] = "idle" /\ pc' = [pc EXCEPT ![c] = "change"] /\ online' = [online EXCEPT ![c] = FALSE]
    BY <1>2 DEF Unbind, Call
  <2>2. /\ handler[c] = "open" /\ handler' = [handler EXCEPT ![c] = "unbind"] /\ registered' = Absent
        /\ UNCHANGED candidate
    BY <1>2 DEF Unbind
  <2> QED BY <2>1, <2>2, ProcMembers DEF CallsOK, CallPlaces, Places
<1>3. CASE Silence \/ TimePasses \/ JudgePreBoot \/ Mute \/ MuteEnds \/ EditReads \/ EditSaves
           \/ UNCHANGED notifyVars
  BY <1>3 DEF Silence, TimePasses, JudgePreBoot, Mute, MuteEnds, EditReads, EditSaves, notifyVars, connVars, callVars, CallsOK
<1>4. ASSUME NEW to \in {"off", "on"}, Set(to) PROVE CallsOK'
  BY <1>4, CallOK DEF Set, connVars, CallsOK
<1>5. CASE Restart
  BY <1>5, ProcMembers DEF Restart, CallsOK, Places, CallPlaces
<1> QED BY <1>1, <1>2, <1>3, <1>4, <1>5, StepOK, WatchOK, BindOK DEF NotifyNext

LEMMA BlankIsEntry == Blank \in Entry
  BY DEF Entry, Blank

(* What a step makes of the entry, when it writes it.                        *)
Kept(e, f) == f \in Entry /\ f.last = IF e = Absent THEN "none" ELSE e.last

LEMMA EntryCalls ==
  ASSUME RecordsOK, NEW p \in Proc, GoesOffline(p) \/ GoesOnline(p) PROVE Kept(entry, entry')
<1>1. PICK st : st = IF entry = Absent THEN Blank ELSE entry
  OBVIOUS
<1>2. st \in Entry /\ (entry # Absent => st = entry) /\ (entry = Absent => st.last = "none")
  BY <1>1, BlankIsEntry DEF RecordsOK, Blank
<1>3. PICK up \in BOOLEAN, w \in {"none", "ahead", "past"} :
        entry' = [st EXCEPT !.initialized = TRUE, !.online = up, !.pending = w]
  <2>1. st.pending \in {"none", "ahead", "past"}
    BY <1>2 DEF Entry
  <2>2. CASE GoesOffline(p)
    <3>1. PICK w : w = IF ~IsNewDisconnect THEN st.pending ELSE IF config = "off" THEN "none" ELSE "ahead"
      OBVIOUS
    <3>2. entry' = [st EXCEPT !.initialized = TRUE, !.online = FALSE, !.pending = w]
      BY <1>1, <1>2, <2>2, <3>1 DEF GoesOffline, Entry
    <3>3. w \in {"none", "ahead", "past"}
      BY <2>1, <3>1
    <3> QED BY <3>2, <3>3
  <2>3. CASE GoesOnline(p)
    BY <1>1, <2>3 DEF GoesOnline
  <2> QED BY <2>2, <2>3
<1> QED BY <1>2, <1>3 DEF Kept, Entry

LEMMA EntryTicks ==
  ASSUME RecordsOK, NotifyTick \/ Postpone \/ TimePasses
  PROVE  IF entry = Absent THEN entry' = Absent ELSE Kept(entry, entry')
<1>1. \/ entry' = entry
      \/ /\ entry # Absent
         /\ \E w \in {"none", "ahead", "past"} : entry' = [entry EXCEPT !.pending = w]
  BY DEF NotifyTick, Postpone, TimePasses, IsDue
<1>2. CASE entry = Absent
  BY <1>1, <1>2, AbsentAssumption DEF Kept
<1>3. CASE entry # Absent
  <2>1. entry \in Entry
    BY <1>3 DEF RecordsOK
  <2>2. CASE entry' = entry
    BY <1>3, <2>1, <2>2 DEF Kept
  <2>3. CASE \E w \in {"none", "ahead", "past"} : entry' = [entry EXCEPT !.pending = w]
    BY <1>3, <2>1, <2>3 DEF Kept, Entry
  <2> QED BY <1>1, <2>2, <2>3
<1> QED BY <1>2, <1>3

LEMMA EntryRecords ==
  ASSUME RecordsOK, RecordNotified
  PROVE  /\ entry' \in Entry /\ (pc[Ticker] = "sent" => entry'.last = "offline")
         /\ pc[Ticker] = "failed" => Kept(entry, entry')
<1>1. PICK st : st = IF entry = Absent THEN Blank ELSE entry
  OBVIOUS
<1>2. st \in Entry /\ st.last = IF entry = Absent THEN "none" ELSE entry.last
  BY <1>1, BlankIsEntry DEF RecordsOK, Blank
<1>3. entry' = IF pc[Ticker] = "sent" THEN Sent(st) ELSE [st EXCEPT !.pending = "ahead"]
  BY <1>1 DEF RecordNotified
<1> QED BY <1>2, <1>3 DEF Sent, Entry, Kept
-----------------------------------------------------------------------------
(* What a step makes of the row, and what a start makes of it.               *)
LEMMA RowStep ==
  ASSUME RecordsOK, [NotifyNext]_notifyVars PROVE RowOK'
<1>0. RowOK /\ marker \in BOOLEAN
  BY DEF RecordsOK
<1>1. CASE UNCHANGED <<markerRow, misled, draft>>
  BY <1>0, <1>1 DEF RowOK
<1>2. ASSUME NEW p \in Proc, ClearMarkers(p) PROVE RowOK'
  BY <1>0, <1>2 DEF ClearMarkers, RowOK
<1>3. CASE MarkNotified
  BY <1>0, <1>3 DEF MarkNotified, RowOK
<1>4. CASE EditReads
  BY <1>0, <1>4 DEF EditReads, RowOK, history
<1>5. CASE EditSaves
  BY <1>0, <1>5 DEF EditSaves, RowOK, history
<1>6. CASE Restart
  BY <1>0, <1>6 DEF Restart, RowOK
<1>7. ASSUME NEW p \in Proc, Step(p), ~ClearMarkers(p) PROVE RowOK'
  BY <1>1, <1>7 DEF Step, Ignore, GoesOffline, GoesOnline, SendOnline, Forget, cacheVars, history
<1>8. CASE Watch /\ ~MarkNotified
  BY <1>1, <1>8 DEF Watch, NotifyTick, DropCandidate, Postpone, Alarm, SendOffline, SendOfflineFails,
                    RecordNotified, cacheVars, history
<1>9. ASSUME NEW c \in Conn, Bind(c) \/ Hear(c) \/ Unbind(c) PROVE RowOK'
  BY <1>1, <1>9 DEF Bind, Hear, Unbind, cacheVars, history
<1>10. CASE Silence \/ TimePasses \/ JudgePreBoot \/ Mute \/ MuteEnds
            \/ \E to \in {"off", "on"} : Set(to)
  BY <1>1, <1>10 DEF Silence, TimePasses, JudgePreBoot, Mute, MuteEnds, Set, cacheVars, history
<1>11. CASE UNCHANGED notifyVars
  BY <1>1, <1>11 DEF notifyVars, cacheVars, history
<1> QED BY <1>2, <1>3, <1>4, <1>5, <1>6, <1>7, <1>8, <1>9, <1>10, <1>11 DEF NotifyNext

LEMMA RecordsStep == HandlerInv /\ [NotifyNext]_notifyVars => RecordsOK'
<1> USE DEF connVars, cacheVars, callVars, history, RecordsOK
<1> SUFFICES ASSUME CallsOK, RecordsOK, [NotifyNext]_notifyVars PROVE RecordsOK'
  BY Split
<1>t. Trouble => troubles' \in Nat
  BY DEF Trouble
<1>r. RowOK'
  BY RowStep
<1>1. ASSUME NEW p \in Proc, Ignore(p) PROVE RecordsOK'
  BY <1>r, <1>1 DEF Ignore
<1>2. ASSUME NEW p \in Proc, GoesOffline(p) \/ GoesOnline(p) PROVE RecordsOK'
  <2>1. entry' \in Entry
    BY <1>2, EntryCalls DEF Kept
  <2>2. torn' \in BOOLEAN /\ owed' \in BOOLEAN
    BY <1>2 DEF GoesOffline, GoesOnline, Meets
  <2> QED BY <1>r, <1>2, <2>1, <2>2 DEF GoesOffline, GoesOnline
<1>3. ASSUME NEW p \in Proc, SendOnline(p) \/ ClearMarkers(p) PROVE RecordsOK'
  <2>1. CASE SendOnline(p)
    <3>1. troubles' \in Nat /\ told' \in {"none", "offline", "online"} /\ owed' = FALSE
      BY <1>t, <2>1 DEF SendOnline
    <3>2. UNCHANGED <<signal, config, cacheVars, muted, entry, lapsed, late, torn>>
      BY <2>1 DEF SendOnline
    <3> QED BY <1>r, <3>1, <3>2
  <2>2. CASE ClearMarkers(p)
    BY <1>r, <2>2 DEF ClearMarkers
  <2> QED BY <1>3, <2>1, <2>2
<1>4. ASSUME NEW p \in Proc, Forget(p) PROVE RecordsOK'
  <2>1. lapsed' \in BOOLEAN /\ late' \in BOOLEAN
    BY <1>4 DEF Forget, Dropped
  <2> QED BY <1>r, <1>4, <2>1 DEF Forget
<1>5. CASE NotifyTick \/ Postpone \/ TimePasses
  <2>1. entry' \in Entry \cup {Absent}
    BY <1>5, EntryTicks DEF Kept
  <2> QED BY <1>r, <1>5, <2>1 DEF NotifyTick, Postpone, TimePasses
<1>6. CASE DropCandidate
  <2>1. lapsed' \in BOOLEAN /\ late' \in BOOLEAN
    BY <1>6 DEF DropCandidate, Dropped
  <2> QED BY <1>r, <1>6, <2>1 DEF DropCandidate
<1>7. CASE Alarm
  <2>1. torn' \in BOOLEAN
    BY <1>7 DEF Alarm, Meets
  <2> QED BY <1>r, <1>7, <2>1 DEF Alarm
<1>8. CASE SendOffline \/ SendOfflineFails \/ MarkNotified
  <2>1. CASE SendOffline
    BY <1>r, <2>1 DEF SendOffline
  <2>2. CASE SendOfflineFails
    BY <1>r, <1>t, <2>2 DEF SendOfflineFails
  <2>3. CASE MarkNotified
    BY <1>r, <2>3 DEF MarkNotified
  <2> QED BY <1>8, <2>1, <2>2, <2>3
<1>9. CASE RecordNotified
  BY <1>r, <1>9, EntryRecords DEF RecordNotified
<1>10. ASSUME NEW c \in Conn, Bind(c) \/ Hear(c) \/ Unbind(c) PROVE RecordsOK'
  <2>1. CASE Bind(c)
    BY <1>r, <2>1 DEF Bind
  <2>2. CASE Hear(c)
    BY <1>r, <2>2 DEF Hear
  <2>3. CASE Unbind(c)
    BY <1>r, <2>3 DEF Unbind
  <2> QED BY <1>10, <2>1, <2>2, <2>3
<1>11. CASE Silence
  <2>1. torn' \in BOOLEAN
    BY <1>11 DEF Silence
  <2> QED BY <1>r, <1>11, <2>1 DEF Silence
<1>12. CASE JudgePreBoot
  <2>1. preBoot' \in BOOLEAN
    BY <1>12 DEF JudgePreBoot
  <2> QED BY <1>r, <1>12, <2>1 DEF JudgePreBoot
<1>13. ASSUME NEW to \in {"off", "on"}, Set(to) PROVE RecordsOK'
  <2>1. late' \in BOOLEAN
    BY <1>13 DEF Set
  <2> QED BY <1>r, <1>t, <1>13, <2>1 DEF Set
<1>14. CASE Mute \/ MuteEnds \/ UNCHANGED notifyVars
  <2>1. CASE Mute
    BY <1>r, <1>t, <2>1 DEF Mute
  <2>2. CASE MuteEnds
    <3>1. muted' \in BOOLEAN /\ UNCHANGED <<signal, config, cacheVars, entry, history, troubles>>
      BY <2>2 DEF MuteEnds
    <3> QED BY <1>r, <3>1
  <2>3. CASE UNCHANGED notifyVars
    BY <1>r, <2>3 DEF notifyVars
  <2> QED BY <1>14, <2>1, <2>2, <2>3
<1>15. CASE Restart
  <2>1. lapsed' \in BOOLEAN /\ late' \in BOOLEAN /\ torn' \in BOOLEAN
    BY <1>15 DEF Restart, Dropped
  <2>2. /\ signal' = FALSE /\ marker' = markerRow /\ preBoot' = FALSE /\ judged' = FALSE
        /\ muted' = FALSE /\ entry' = Absent /\ UNCHANGED <<config, told, owed>>
    BY <1>15 DEF Restart
  <2>3. markerRow \in BOOLEAN /\ troubles' \in Nat
    BY <1>t, <1>15 DEF Restart, RowOK
  <2> QED BY <1>r, <2>1, <2>2, <2>3
<1>18. CASE EditReads \/ EditSaves
  BY <1>r, <1>t, <1>18 DEF EditReads, EditSaves
<1>16. ASSUME NEW p \in Proc, Step(p) PROVE RecordsOK'
  BY <1>r, <1>1, <1>2, <1>3, <1>4, <1>16 DEF Step
<1>17. CASE Watch
  BY <1>r, <1>5, <1>6, <1>7, <1>8, <1>9, <1>17 DEF Watch
<1> QED BY <1>5, <1>10, <1>11, <1>12, <1>13, <1>14, <1>15, <1>16, <1>17, <1>18 DEF NotifyNext

LEMMA HandlerStep == HandlerInv /\ [NotifyNext]_notifyVars => HandlerInv'
<1> SUFFICES ASSUME HandlerInv, [NotifyNext]_notifyVars PROVE HandlerInv'
  OBVIOUS
<1>1. CallsOK /\ RecordsOK
  BY Split
<1>2. CallsOK' /\ RecordsOK'
  BY <1>1, CallsStep, RecordsStep
<1> QED BY <1>2 DEF HandlerInv, NotifyTypeOK, CallsOK, RecordsOK, RowOK, Places, CallPlaces
-----------------------------------------------------------------------------
(* Most steps neither tell nor drop anything, and leave the goroutine of the *)
(* ticks where it is or within its call.                                     *)
LEMMA ToldKept ==
  ASSUME ToldInv, UNCHANGED <<told, lapsed, candidate>>,
         entry' = entry \/ Kept(entry, entry'),
         ~candidate => \/ pc'[Ticker] = pc[Ticker]
                       \/ {pc[Ticker], pc'[Ticker]} \subseteq CallPlaces
  PROVE  ToldInv'
<1> SUFFICES ASSUME told = "offline", ~lapsed
             PROVE  /\ ~candidate
                    /\ \/ pc'[Ticker] \in {"mark", "sent"}
                       \/ /\ pc'[Ticker] \in CallPlaces
                          /\ entry' # Absent /\ entry'.last = "offline"
  BY DEF ToldInv, CallPlaces
<1>1. ~candidate
  BY DEF ToldInv
<1>2. CASE pc[Ticker] \in {"mark", "sent"}
  BY <1>1, <1>2 DEF CallPlaces
<1>3. CASE pc[Ticker] \in CallPlaces /\ entry # Absent /\ entry.last = "offline"
  <2>1. entry' # Absent /\ entry'.last = "offline"
    BY <1>3, AbsentAssumption DEF Kept
  <2> QED BY <1>1, <1>3, <2>1
<1> QED BY <1>1, <1>2, <1>3 DEF ToldInv, CallPlaces

LEMMA ToldStep == HandlerInv /\ ToldInv /\ [NotifyNext]_notifyVars => ToldInv'
<1> SUFFICES ASSUME HandlerInv, ToldInv, [NotifyNext]_notifyVars PROVE ToldInv'
  OBVIOUS
<1>0. CallsOK /\ RecordsOK
  BY Split
<1>1. ASSUME NEW p \in Proc, Ignore(p) \/ GoesOffline(p) PROVE ToldInv'
  <2>1. pc[p] = "change" /\ Return(p) /\ UNCHANGED <<registered, candidate, told, lapsed>>
    BY <1>1 DEF Ignore, GoesOffline, history
  <2>2. pc'[Ticker] = (IF p # Ticker THEN pc[Ticker] ELSE IF candidate THEN "due" ELSE "idle")
    BY <1>0, <2>1, ReturnOK
  <2>3. entry' = entry \/ Kept(entry, entry')
    BY <1>0, <1>1, EntryCalls DEF Ignore
  <2> QED BY <2>1, <2>2, <2>3, ToldKept DEF CallPlaces
<1>2. ASSUME NEW p \in Proc, GoesOnline(p) \/ ClearMarkers(p) PROVE ToldInv'
  <2>1. PICK place \in CallPlaces : pc' = [pc EXCEPT ![p] = place]
    BY <1>2 DEF GoesOnline, ClearMarkers, CallPlaces
  <2>2. pc[p] \in CallPlaces /\ UNCHANGED <<candidate, told, lapsed>>
    BY <1>2 DEF GoesOnline, ClearMarkers, CallPlaces, history
  <2>3. entry' = entry \/ Kept(entry, entry')
    BY <1>0, <1>2, EntryCalls DEF ClearMarkers
  <2>4. pc'[Ticker] = (IF p = Ticker THEN place ELSE pc[Ticker])
    BY <1>0, <2>1, ProcMembers DEF CallsOK
  <2> QED BY <2>2, <2>3, <2>4, ToldKept
<1>3. ASSUME NEW p \in Proc, SendOnline(p) PROVE ToldInv'
  <2>1. CASE told' = "online"
    BY <2>1 DEF ToldInv
  <2>2. CASE told' = told
    <3>1. pc' = [pc EXCEPT ![p] = pc'[p]] /\ pc'[p] \in CallPlaces /\ pc[p] \in CallPlaces
      BY <1>0, <1>3 DEF SendOnline, CallsOK, CallPlaces
    <3>2. UNCHANGED <<entry, candidate, lapsed>>
      BY <1>3 DEF SendOnline
    <3>3. pc'[Ticker] = (IF p = Ticker THEN pc'[p] ELSE pc[Ticker])
      BY <1>0, <3>1, ProcMembers DEF CallsOK
    <3> QED BY <2>2, <3>1, <3>2, <3>3, ToldKept
  <2> QED BY <1>3, <2>1, <2>2 DEF SendOnline
<1>4. CASE (\E p \in Proc : Forget(p)) \/ DropCandidate \/ Restart
  <2>1. Dropped /\ told' = told
    BY <1>4 DEF Forget, DropCandidate, Restart
  <2> QED BY <2>1 DEF Dropped, ToldInv
<1>5. CASE NotifyTick
  <2>1. entry' = entry \/ Kept(entry, entry')
    BY <1>0, <1>5, EntryTicks DEF NotifyTick
  <2>2. UNCHANGED <<told, lapsed>> /\ pc[Ticker] = "idle"
    BY <1>5 DEF NotifyTick, history
  <2>3. candidate' = (IsDue /\ entry.last # "offline")
    BY <1>5 DEF NotifyTick
  <2>4. ~candidate' => pc'[Ticker] \in {"idle", "change"}
    BY <1>0, <1>5, ProcMembers DEF NotifyTick, Call, CallsOK
  <2> SUFFICES ASSUME told = "offline", ~lapsed
               PROVE  /\ ~candidate' /\ pc'[Ticker] \in {"idle", "change"}
                      /\ entry' # Absent /\ entry'.last = "offline"
    BY <2>2 DEF ToldInv
  <2>5. entry # Absent /\ entry.last = "offline"
    BY <2>2 DEF ToldInv
  <2> QED BY <2>1, <2>3, <2>4, <2>5, AbsentAssumption DEF Kept
<1>6. CASE Postpone \/ Alarm \/ SendOfflineFails
  <2>1. pc[Ticker] \in {"due", "alarm"} /\ UNCHANGED <<told, lapsed>>
    BY <1>6 DEF Postpone, Alarm, SendOfflineFails, history
  <2> QED BY <2>1 DEF ToldInv
<1>7. CASE SendOffline
  <2>1. candidate' = candidate /\ pc'[Ticker] = "mark"
    BY <1>0, <1>7, ProcMembers DEF SendOffline, CallsOK
  <2>2. ~candidate
    BY <1>0, <1>7 DEF SendOffline, CallsOK
  <2> QED BY <2>1, <2>2 DEF ToldInv
<1>8. CASE MarkNotified
  <2>1. pc[Ticker] = "mark" /\ pc'[Ticker] = "sent" /\ UNCHANGED <<told, lapsed, candidate>>
    BY <1>0, <1>8, ProcMembers DEF MarkNotified, CallsOK
  <2> QED BY <2>1 DEF ToldInv
<1>9. CASE RecordNotified
  <2>1. pc[Ticker] \in {"sent", "failed"} /\ pc'[Ticker] = "idle" /\ UNCHANGED <<told, lapsed, candidate>>
    BY <1>0, <1>9, ProcMembers DEF RecordNotified, CallsOK, history
  <2>2. entry' \in Entry /\ (pc[Ticker] = "sent" => entry'.last = "offline")
    BY <1>0, <1>9, EntryRecords
  <2> QED BY <2>1, <2>2, AbsentAssumption DEF ToldInv
<1>10. ASSUME NEW c \in Conn, Bind(c) \/ Hear(c) \/ Unbind(c) PROVE ToldInv'
  <2>1. UNCHANGED <<entry, candidate, told, lapsed>>
    BY <1>10 DEF Bind, Hear, Unbind, callVars, history
  <2>2. pc'[Ticker] = pc[Ticker]
    BY <1>0, <1>10, ProcMembers DEF Bind, Hear, Unbind, Call, callVars, CallsOK
  <2> QED BY <2>1, <2>2, ToldKept
<1>11. ASSUME NEW to \in {"off", "on"}, Set(to) PROVE ToldInv'
  <2>1. UNCHANGED <<entry, candidate, told, lapsed>>
    BY <1>11 DEF Set
  <2>2. pc'[Ticker] = pc[Ticker]
    BY <1>0, <1>11, ProcMembers DEF Set, Call, CallsOK
  <2> QED BY <2>1, <2>2, ToldKept
<1>12. CASE TimePasses
  <2>1. UNCHANGED <<pc, candidate, told, lapsed>> /\ entry # Absent
    BY <1>12 DEF TimePasses, callVars, history
  <2>2. Kept(entry, entry')
    BY <1>0, <1>12, <2>1, EntryTicks
  <2> QED BY <2>1, <2>2, ToldKept
<1>13. CASE Silence \/ JudgePreBoot \/ Mute \/ MuteEnds \/ EditReads \/ EditSaves
            \/ UNCHANGED notifyVars
  <2>1. UNCHANGED <<entry, pc, candidate, told, lapsed>>
    BY <1>13 DEF Silence, JudgePreBoot, Mute, MuteEnds, EditReads, EditSaves, notifyVars, callVars,
                 history
  <2> QED BY <2>1, ToldKept
<1>14. ASSUME NEW p \in Proc, Step(p) PROVE ToldInv'
  BY <1>1, <1>2, <1>3, <1>4, <1>14 DEF Step
<1>15. CASE Watch
  BY <1>4, <1>5, <1>6, <1>7, <1>8, <1>9, <1>15 DEF Watch
<1> QED BY <1>4, <1>10, <1>11, <1>12, <1>13, <1>14, <1>15 DEF NotifyNext
-----------------------------------------------------------------------------
(* Most steps tell and take back nothing, and no call begins to wait.        *)
LEMMA BackKept ==
  ASSUME BackInv, torn => torn', UNCHANGED <<told, marker, misled>>, preBoot => preBoot',
         entry' \in {entry, Absent} \/ Kept(entry, entry'),
         \A p \in Proc : pc'[p] = pc[p] \/ {pc[p], pc'[p]} \subseteq Quiet
  PROVE  BackInv'
<1> SUFFICES ASSUME ~torn' PROVE (Alone /\ SendKnows /\ MarkersKnow /\ EntryKnows /\ TickKnows)'
  BY DEF BackInv
<1>1. Alone /\ SendKnows /\ MarkersKnow /\ EntryKnows /\ TickKnows
  BY DEF BackInv
<1>2. Alone'
  BY <1>1 DEF Alone
<1>3. SendKnows'
  BY <1>1 DEF SendKnows, Quiet
<1>4. MarkersKnow'
  BY <1>1 DEF MarkersKnow, Quiet
<1>5. EntryKnows'
  <2>1. entry' # Absent /\ entry'.last = "offline" => entry # Absent /\ entry.last = "offline"
    BY DEF Kept
  <2> QED BY <1>1, <2>1 DEF EntryKnows, Quiet
<1>6. TickKnows'
  BY <1>1, ProcMembers DEF TickKnows, Quiet
<1> QED BY <1>2, <1>3, <1>4, <1>5, <1>6

(* A goroutine that waits, or that begins to while no other does, is alone.  *)
LEMMA AloneKept ==
  ASSUME pc \in [Proc -> Places], Alone, NEW p \in Proc, NEW place, pc' = [pc EXCEPT ![p] = place],
         \/ pc[p] \notin Quiet
         \/ \A q \in Proc \ {p} : pc[q] \in Quiet
  PROVE  Alone' /\ pc'[p] = place /\ \A q \in Proc \ {p} : pc'[q] = pc[q] /\ pc[q] \in Quiet
  BY DEF Alone

LEMMA BackStep == HandlerInv /\ BackInv /\ [NotifyNext]_notifyVars => BackInv'
<1> SUFFICES ASSUME HandlerInv, BackInv, [NotifyNext]_notifyVars PROVE BackInv'
  OBVIOUS
<1>0. CallsOK /\ RecordsOK /\ pc \in [Proc -> Places]
  BY Split DEF CallsOK
<1>k. ~torn => Alone /\ SendKnows /\ MarkersKnow /\ EntryKnows /\ TickKnows
  BY DEF BackInv
<1>1. ASSUME NEW p \in Proc, Ignore(p) \/ GoesOffline(p) PROVE BackInv'
  <2>1. pc[p] = "change" /\ Return(p) /\ UNCHANGED <<registered, candidate, told, marker, misled, preBoot>>
    BY <1>1 DEF Ignore, GoesOffline, history, cacheVars
  <2>2. \A q \in Proc : pc'[q] = pc[q] \/ {pc[q], pc'[q]} \subseteq Quiet
    BY <1>0, <2>1 DEF Return, Quiet
  <2>3. entry' = entry \/ Kept(entry, entry')
    BY <1>0, <1>1, EntryCalls DEF Ignore
  <2>4. torn => torn'
    BY <1>1 DEF Ignore, GoesOffline, Meets, history
  <2> QED BY <2>1, <2>2, <2>3, <2>4, BackKept
<1>2. ASSUME NEW p \in Proc, GoesOnline(p), ~torn' PROVE BackInv'
  <2>1. PICK place \in {"send", "clear", "forget"} :
          pc' = [pc EXCEPT ![p] = place] /\ (place # "forget" => NeedOnlineNotify)
    BY <1>2 DEF GoesOnline
  <2>2. ~torn /\ \A q \in Proc \ {p} : pc[q] \in {"idle", "change"}
    BY <1>2 DEF GoesOnline, Meets
  <2>3. pc[p] = "change" /\ UNCHANGED <<told, marker, misled, preBoot>> /\ Kept(entry, entry')
    BY <1>0, <1>2, EntryCalls DEF GoesOnline, cacheVars
  <2>4. Alone' /\ pc'[p] = place /\ \A q \in Proc \ {p} : pc'[q] = pc[q]
    BY <1>0, <1>k, <2>1, <2>2, AloneKept DEF Quiet
  <2>5. \A q \in Proc : pc[q] \in {"idle", "change"}
    BY <2>2, <2>3
  <2>6. /\ marker => told = "offline" \/ misled
        /\ entry # Absent /\ entry.last = "offline" => told = "offline"
    BY <1>k, <2>2, <2>5 DEF MarkersKnow, EntryKnows
  <2>7. SendKnows'
    <3>1. place = "send" => told = "offline" \/ preBoot \/ misled
      BY <2>1, <2>6 DEF NeedOnlineNotify
    <3> QED BY <2>3, <2>4, <2>5, <3>1 DEF SendKnows
  <2>8. MarkersKnow' /\ EntryKnows'
    BY <2>3, <2>6 DEF MarkersKnow, EntryKnows, Kept
  <2>9. TickKnows'
    BY <2>1, <2>4, <2>5, ProcMembers DEF TickKnows
  <2> QED BY <2>4, <2>7, <2>8, <2>9 DEF BackInv
<1>3. ASSUME NEW p \in Proc, SendOnline(p) \/ ClearMarkers(p), ~torn' PROVE BackInv'
  <2>1. /\ pc[p] \in {"send", "clear"} /\ ~torn /\ UNCHANGED entry
        /\ pc'[p] \in {"clear", "forget"} /\ pc' = [pc EXCEPT ![p] = pc'[p]]
    <3>1. /\ pc[p] \in {"send", "clear"} /\ UNCHANGED <<entry, torn>>
          /\ \E place \in {"clear", "forget"} : pc' = [pc EXCEPT ![p] = place]
      BY <1>3 DEF SendOnline, ClearMarkers
    <3> QED BY <1>0, <1>3, <3>1
  <2>2. Alone' /\ \A q \in Proc \ {p} : pc'[q] = pc[q] /\ pc[q] \in Quiet
    BY <1>0, <1>k, <2>1, AloneKept DEF Quiet
  <2>3. SendKnows' /\ EntryKnows'
    BY <2>1, <2>2 DEF SendKnows, EntryKnows, Quiet
  <2>4. TickKnows'
    BY <2>1, <2>2, ProcMembers DEF TickKnows, Quiet
  <2>5. MarkersKnow'
    <3>1. CASE ClearMarkers(p)
      BY <3>1 DEF ClearMarkers, MarkersKnow
    <3>2. CASE SendOnline(p)
      <4>1. pc[p] = "send" /\ UNCHANGED <<marker, misled>> /\ (pc'[p] = "clear" \/ told' = told)
        BY <1>0, <3>2 DEF SendOnline, cacheVars
      <4>2. marker => told = "offline" \/ misled
        BY <1>k, <2>1, <2>2, <4>1 DEF MarkersKnow, Quiet
      <4> QED BY <4>1, <4>2 DEF MarkersKnow
    <3> QED BY <1>3, <3>1, <3>2
  <2> QED BY <2>2, <2>3, <2>4, <2>5 DEF BackInv
<1>4. ASSUME NEW p \in Proc, Forget(p), ~torn' PROVE BackInv'
  <2>1. /\ pc[p] = "forget" /\ ~torn /\ entry' = Absent /\ UNCHANGED <<told, marker, misled, preBoot>>
        /\ pc'[p] \in {"idle", "due"} /\ pc' = [pc EXCEPT ![p] = pc'[p]]
    BY <1>0, <1>4 DEF Forget, Return, cacheVars
  <2>2. Alone' /\ \A q \in Proc \ {p} : pc'[q] = pc[q] /\ pc[q] \in Quiet
    BY <1>0, <1>k, <2>1, AloneKept DEF Quiet
  <2>3. SendKnows' /\ EntryKnows'
    BY <2>1, <2>2 DEF SendKnows, EntryKnows, Quiet
  <2>4. MarkersKnow'
    BY <1>k, <2>1, <2>2 DEF MarkersKnow, Quiet
  <2>5. TickKnows'
    BY <2>1, <2>2, ProcMembers DEF TickKnows, Quiet
  <2> QED BY <2>2, <2>3, <2>4, <2>5 DEF BackInv
<1>5. CASE NotifyTick \/ Postpone \/ DropCandidate \/ TimePasses
  <2>1. UNCHANGED <<told, torn, marker, misled, preBoot>>
    BY <1>5 DEF NotifyTick, Postpone, DropCandidate, TimePasses, history, cacheVars
  <2>2. \A q \in Proc : pc'[q] = pc[q] \/ {pc[q], pc'[q]} \subseteq Quiet
    BY <1>0, <1>5 DEF NotifyTick, Call, Postpone, DropCandidate, TimePasses, callVars, Quiet
  <2>3. entry' \in {entry, Absent} \/ Kept(entry, entry')
    BY <1>0, <1>5, EntryTicks DEF DropCandidate
  <2> QED BY <2>1, <2>2, <2>3, BackKept
<1>6. CASE (Alarm \/ SendOfflineFails) /\ ~torn'
  <2>1. /\ UNCHANGED <<told, marker, misled, preBoot, entry>> /\ ~torn
        /\ pc' = [pc EXCEPT ![Ticker] = pc'[Ticker]] /\ pc'[Ticker] \in {"alarm", "failed"}
        /\ pc[Ticker] \in {"due", "alarm"}
    <3>1. CASE Alarm
      <4>1. UNCHANGED <<told, marker, misled, preBoot, entry>> /\ pc[Ticker] = "due" /\ pc' = [pc EXCEPT ![Ticker] = "alarm"]
        BY <3>1 DEF Alarm, cacheVars
      <4>2. ~torn
        BY <1>6, <3>1 DEF Alarm, Meets
      <4> QED BY <1>0, <4>1, <4>2, ProcMembers
    <3>2. CASE SendOfflineFails
      <4>1. UNCHANGED <<told, marker, misled, preBoot, entry>> /\ pc[Ticker] = "alarm" /\ pc' = [pc EXCEPT ![Ticker] = "failed"]
        BY <3>2 DEF SendOfflineFails, cacheVars, history
      <4>2. ~torn
        BY <1>6, <3>2 DEF SendOfflineFails, history
      <4> QED BY <1>0, <4>1, <4>2, ProcMembers
    <3> QED BY <1>6, <3>1, <3>2
  <2>2. pc[Ticker] \notin Quiet \/ \A q \in Proc \ {Ticker} : pc[q] \in Quiet
    BY <1>6 DEF Alarm, SendOfflineFails, Meets, Quiet
  <2>3. Alone' /\ \A q \in Proc \ {Ticker} : pc'[q] = pc[q]
    BY <1>0, <1>k, <2>1, <2>2, ProcMembers, AloneKept
  <2>4. SendKnows' /\ MarkersKnow' /\ EntryKnows' /\ TickKnows'
    BY <1>k, <2>1, <2>3 DEF SendKnows, MarkersKnow, EntryKnows, TickKnows
  <2> QED BY <2>3, <2>4 DEF BackInv
<1>7. CASE (SendOffline \/ MarkNotified) /\ ~torn'
  <2>1. /\ pc[Ticker] \in {"alarm", "mark"} /\ ~torn
        /\ pc' = [pc EXCEPT ![Ticker] = pc'[Ticker]]
    <3>1. /\ pc[Ticker] \in {"alarm", "mark"} /\ UNCHANGED torn
          /\ \E place \in {"mark", "sent"} : pc' = [pc EXCEPT ![Ticker] = place]
      BY <1>7 DEF SendOffline, MarkNotified
    <3> QED BY <1>0, <1>7, <3>1, ProcMembers
  <2>2. told' = "offline"
    BY <1>7, <1>k, <2>1 DEF SendOffline, MarkNotified, TickKnows
  <2>3. Alone'
    BY <1>0, <1>k, <2>1, ProcMembers, AloneKept DEF Quiet
  <2> QED BY <2>2, <2>3 DEF BackInv, SendKnows, MarkersKnow, EntryKnows, TickKnows
<1>8. CASE RecordNotified /\ ~torn'
  <2>1. /\ pc[Ticker] \in {"sent", "failed"} /\ ~torn /\ UNCHANGED <<told, marker, misled, preBoot>>
        /\ pc' = [pc EXCEPT ![Ticker] = "idle"]
    BY <1>8 DEF RecordNotified, history, cacheVars
  <2>2. Alone' /\ pc'[Ticker] = "idle" /\ \A q \in Proc \ {Ticker} : pc'[q] = pc[q]
    BY <1>0, <1>k, <2>1, ProcMembers, AloneKept DEF Quiet
  <2>3. SendKnows' /\ MarkersKnow' /\ TickKnows'
    BY <1>k, <2>1, <2>2 DEF SendKnows, MarkersKnow, TickKnows
  <2>4. EntryKnows'
    <3>1. CASE pc[Ticker] = "sent"
      BY <1>k, <2>1, <3>1 DEF EntryKnows, TickKnows
    <3>2. CASE pc[Ticker] = "failed"
      <4>1. Kept(entry, entry')
        BY <1>0, <1>8, <3>2, EntryRecords
      <4> QED BY <1>k, <2>1, <2>2, <3>2, <4>1 DEF EntryKnows, Kept
    <3> QED BY <2>1, <3>1, <3>2
  <2> QED BY <2>2, <2>3, <2>4 DEF BackInv
<1>9. ASSUME NEW c \in Conn, Bind(c) \/ Hear(c) \/ Unbind(c) PROVE BackInv'
  <2>1. UNCHANGED <<entry, told, torn, marker, misled, preBoot>>
    BY <1>9 DEF Bind, Hear, Unbind, history, cacheVars
  <2>2. \A q \in Proc : pc'[q] = pc[q] \/ {pc[q], pc'[q]} \subseteq Quiet
    BY <1>0, <1>9 DEF Bind, Hear, Unbind, Call, callVars, Quiet
  <2> QED BY <2>1, <2>2, BackKept
<1>10. ASSUME NEW to \in {"off", "on"}, Set(to) PROVE BackInv'
  <2>1. UNCHANGED <<entry, told, torn, marker, misled, preBoot>>
    BY <1>10 DEF Set, cacheVars
  <2>2. \A q \in Proc : pc'[q] = pc[q] \/ {pc[q], pc'[q]} \subseteq Quiet
    BY <1>0, <1>10 DEF Set, Call, Quiet
  <2> QED BY <2>1, <2>2, BackKept
<1>11. CASE Silence \/ JudgePreBoot \/ Mute \/ MuteEnds \/ EditReads \/ EditSaves
            \/ UNCHANGED notifyVars
  <2>1. UNCHANGED <<entry, pc, told, marker, misled>> /\ (torn => torn') /\ (preBoot => preBoot')
    <3>1. CASE Silence
      <4>1. UNCHANGED <<entry, cacheVars, callVars, told, misled>>
        BY <3>1 DEF Silence
      <4>2. torn => torn'
        BY <3>1 DEF Silence
      <4> QED BY <4>1, <4>2 DEF cacheVars, callVars
    <3>2. CASE JudgePreBoot
      <4>1. UNCHANGED <<entry, callVars, history, marker>>
        BY <3>2 DEF JudgePreBoot
      <4>2. preBoot => preBoot'
        BY <3>2 DEF JudgePreBoot
      <4> QED BY <4>1, <4>2 DEF callVars, history
    <3>3. CASE Mute \/ MuteEnds
      BY <3>3 DEF Mute, MuteEnds, callVars, cacheVars, history
    <3>4. CASE UNCHANGED notifyVars
      BY <3>4 DEF notifyVars, callVars, cacheVars, history
    <3>5. CASE EditReads \/ EditSaves
      BY <3>5 DEF EditReads, EditSaves, callVars, history
    <3> QED BY <1>11, <3>1, <3>2, <3>3, <3>4, <3>5
  <2> QED BY <2>1, BackKept
<1>12. CASE Restart /\ ~torn'
  <2>1. ~torn /\ \A q \in Proc : pc[q] \in {"idle", "change"}
    BY <1>12 DEF Restart
  <2>2. /\ marker' = markerRow /\ entry' = Absent /\ \A q \in Proc : pc'[q] = "idle"
        /\ UNCHANGED told /\ (marker' => marker \/ misled') /\ (misled => misled')
    <3>1. /\ marker' = markerRow /\ entry' = Absent /\ \A q \in Proc : pc'[q] = "idle"
          /\ UNCHANGED told
      BY <1>12 DEF Restart
    <3>2. misled' = (misled \/ marker # markerRow)
      BY <1>12 DEF Restart
    <3>3. marker \in BOOLEAN /\ markerRow \in BOOLEAN /\ misled \in BOOLEAN
      BY <1>0 DEF RecordsOK, RowOK
    <3>4. (marker' => marker \/ misled') /\ (misled => misled')
      BY <3>1, <3>2, <3>3
    <3> QED BY <3>1, <3>4
  <2>3. Alone' /\ SendKnows' /\ EntryKnows'
    BY <2>2 DEF Alone, SendKnows, EntryKnows, Quiet
  <2>4. MarkersKnow'
    BY <1>k, <2>1, <2>2 DEF MarkersKnow
  <2>5. TickKnows'
    BY <2>2, ProcMembers DEF TickKnows
  <2> QED BY <2>3, <2>4, <2>5 DEF BackInv
<1>13. CASE torn'
  BY <1>13 DEF BackInv
<1>14. ASSUME NEW p \in Proc, Step(p) PROVE BackInv'
  BY <1>1, <1>2, <1>3, <1>4, <1>13, <1>14 DEF Step
<1>15. CASE Watch
  BY <1>5, <1>6, <1>7, <1>8, <1>13, <1>15 DEF Watch
<1> QED BY <1>5, <1>9, <1>10, <1>11, <1>12, <1>13, <1>14, <1>15 DEF NotifyNext
-----------------------------------------------------------------------------
LEMMA Reachable == NotifySpec => [](HandlerInv /\ ToldInv /\ BackInv)
<1>1. NotifyInit => HandlerInv /\ ToldInv /\ BackInv
  <2>1. NotifyInit => ToldInv
    BY DEF NotifyInit, ToldInv
  <2>2. NotifyInit => BackInv
    BY ProcMembers DEF NotifyInit, BackInv, Quiet, Alone, SendKnows, MarkersKnow, EntryKnows, TickKnows
  <2> QED BY <2>1, <2>2, HandlerInit
<1>2. (HandlerInv /\ ToldInv /\ BackInv) /\ [NotifyNext]_notifyVars => (HandlerInv /\ ToldInv /\ BackInv)'
  BY HandlerStep, ToldStep, BackStep
<1> QED BY <1>1, <1>2, PTL DEF NotifySpec

(* Every variable keeps its type: only the goroutine of the ticks announces  *)
(* an outage (notifyOfflineIfDue), and the registered connection is the one  *)
(* that is open.                                                             *)
THEOREM NotifyTypeCorrect == NotifySpec => []NotifyTypeOK
<1>1. HandlerInv => NotifyTypeOK
  BY DEF HandlerInv
<1> QED BY <1>1, Reachable, PTL

(* Nobody is told twice that the node is offline (notifyOfflineIfDue), for   *)
(* any number of connections and of settings, restarts and lost messages.    *)
THEOREM NeverRepeats == NotifySpec => NoRepeat
<1>1. HandlerInv /\ ToldInv /\ [NotifyNext]_notifyVars => [SendOffline => told # "offline" \/ lapsed]_notifyVars
  BY DEF SendOffline, ToldInv
<1> QED BY <1>1, Reachable, PTL DEF NotifySpec, NoRepeat

(* Nobody is told that the node is back who was not told that it is away     *)
(* (needOnlineNotify, clearNodeOfflineRecoveryMarkers), for any number of    *)
(* connections and of settings, restarts, lost messages, edits and failed    *)
(* writes, unless the panel started from a row that these had falsified.     *)
THEOREM NeverFalseRecovery == NotifySpec => NoFalseRecovery
<1>1. BackInv => [\A p \in Proc : SendOnline(p) => told = "offline" \/ preBoot \/ torn \/ misled]_notifyVars
  BY DEF BackInv, SendKnows, SendOnline
<1> QED BY <1>1, Reachable, PTL DEF NotifySpec, NoFalseRecovery
=============================================================================
