----------------------------- MODULE CronProofs -----------------------------
(***************************************************************************)
(* next_fire answers with the first matching minute, for every calendar      *)
(* whose months are intervals of days, every length of hour, day and week    *)
(* and every expression.                                                     *)
(*                                                                           *)
(* For the walk only the value sets of the fields matter; that the sets are  *)
(* the ones the syntax names is a matter of division, at the end.            *)
(***************************************************************************)
EXTENDS Cron, TLAPS

\* Every action moves the candidate over an interval of minutes; the lemmas say
\* which minutes the interval holds.

LEMMA HourMinuteZero == 0 \in Hours /\ 0 \in Minutes
BY CalendarAssumption DEF Hours, Minutes

LEMMA BeforeTransitive ==
    ASSUME NEW t \in Times, NEW u \in Times, NEW v \in Times,
           Before(t, u), Before(u, v)
    PROVE  Before(t, v)
BY DEF Before, Times, Hours, Minutes

LEMMA NotBeforeSelf ==
    ASSUME NEW t \in Times PROVE ~Before(t, t)
BY DEF Before, Times, Hours, Minutes

\* Up to the start of a later day.
LEMMA DayInterval ==
    ASSUME NEW t \in Times, NEW day \in Nat, day > t.day
    PROVE  /\ At(day, 0, 0) \in Times
           /\ Before(t, At(day, 0, 0))
           /\ \A u \in Times : ~Before(u, t) /\ Before(u, At(day, 0, 0))
                => /\ u.day \in t.day .. day - 1
                   /\ u.day = t.day => u.hour >= t.hour
                   /\ u.day = t.day /\ u.hour = t.hour => u.minute >= t.minute
BY HourMinuteZero DEF Before, Times, Hours, Minutes, At

LEMMA NextDayInterval ==
    ASSUME NEW t \in Times
    PROVE  /\ NextDay(t) \in Times
           /\ Before(t, NextDay(t))
           /\ \A u \in Times : ~Before(u, t) /\ Before(u, NextDay(t))
                => /\ u.day = t.day
                   /\ u.hour >= t.hour
                   /\ u.hour = t.hour => u.minute >= t.minute
<1>1. t.day \in Nat BY DEF Times
<1>2. t.day + 1 \in Nat /\ t.day + 1 > t.day BY <1>1
<1>3. \A u \in Times : u.day \in t.day .. (t.day + 1) - 1 => u.day = t.day BY <1>1 DEF Times
<1> QED BY <1>2, <1>3, DayInterval DEF NextDay

\* Up to a later hour of the same day.
LEMMA HourInterval ==
    ASSUME NEW t \in Times, NEW h \in Hours, h > t.hour
    PROVE  /\ At(t.day, h, 0) \in Times
           /\ Before(t, At(t.day, h, 0))
           /\ \A u \in Times : ~Before(u, t) /\ Before(u, At(t.day, h, 0))
                => /\ u.day = t.day
                   /\ u.hour \in t.hour .. h - 1
                   /\ u.hour = t.hour => u.minute >= t.minute
BY HourMinuteZero DEF Before, Times, Hours, Minutes, At

LEMMA NextHourInterval ==
    ASSUME NEW t \in Times
    PROVE  /\ NextHour(t) \in Times
           /\ Before(t, NextHour(t))
           /\ \A u \in Times : ~Before(u, t) /\ Before(u, NextHour(t))
                => u.day = t.day /\ u.hour = t.hour /\ u.minute >= t.minute
<1>1. t.hour \in Hours /\ t.hour \in Nat /\ HoursPerDay \in Nat
  BY CalendarAssumption DEF Times, Hours
<1>2. CASE t.hour + 1 < HoursPerDay
  <2>1. t.hour + 1 \in Hours /\ t.hour + 1 > t.hour BY <1>1, <1>2 DEF Hours
  <2>2. \A u \in Times : u.hour \in t.hour .. (t.hour + 1) - 1 => u.hour = t.hour
    BY <1>1 DEF Times, Hours
  <2> QED BY <1>2, <2>1, <2>2, HourInterval DEF NextHour
<1>3. CASE ~(t.hour + 1 < HoursPerDay)
  <2>1. \A u \in Times : u.hour >= t.hour => u.hour = t.hour
    BY <1>1, <1>3 DEF Times, Hours
  <2> QED BY <1>3, <2>1, NextDayInterval DEF NextHour
<1> QED BY <1>2, <1>3

\* Up to a later minute of the same hour.
LEMMA MinuteInterval ==
    ASSUME NEW t \in Times, NEW m \in Minutes, m > t.minute
    PROVE  /\ At(t.day, t.hour, m) \in Times
           /\ Before(t, At(t.day, t.hour, m))
           /\ \A u \in Times : ~Before(u, t) /\ Before(u, At(t.day, t.hour, m))
                => u.day = t.day /\ u.hour = t.hour /\ u.minute \in t.minute .. m - 1
BY DEF Before, Times, Hours, Minutes, At

LEMMA NextMinuteInterval ==
    ASSUME NEW t \in Times
    PROVE  /\ NextMinute(t) \in Times
           /\ Before(t, NextMinute(t))
           /\ \A u \in Times : ~(Before(t, u) /\ Before(u, NextMinute(t)))
<1>1. t.minute \in Minutes /\ t.minute \in Nat /\ MinutesPerHour \in Nat
  BY CalendarAssumption DEF Times, Minutes
<1>2. CASE t.minute + 1 < MinutesPerHour
  <2>1. t.minute + 1 \in Minutes /\ t.minute + 1 > t.minute BY <1>1, <1>2 DEF Minutes
  <2>2. \A u \in Times : Before(t, u) => ~Before(u, t)
    BY BeforeTransitive, NotBeforeSelf
  <2>3. \A u \in Times : u.day = t.day /\ u.hour = t.hour
                           /\ u.minute \in t.minute .. (t.minute + 1) - 1 => ~Before(t, u)
    BY <1>1 DEF Times, Hours, Minutes, Before
  <2> QED BY <1>2, <2>1, <2>2, <2>3, MinuteInterval DEF NextMinute
<1>3. CASE ~(t.minute + 1 < MinutesPerHour)
  <2>1. \A u \in Times : Before(t, u) => ~Before(u, t)
    BY BeforeTransitive, NotBeforeSelf
  <2>2. \A u \in Times : u.day = t.day /\ u.hour = t.hour => ~Before(t, u)
    BY <1>1, <1>3 DEF Times, Hours, Minutes, Before
  <2> QED BY <1>3, <2>1, <2>2, NextHourInterval DEF NextMinute
<1> QED BY <1>2, <1>3

-----------------------------------------------------------------------------
\* The inductive invariant: FirstMatch, with the minutes already passed taken
\* from all of Times.
NoMatchBefore ==
    \A t \in Times : Before(after, t) /\ Before(t, cand) => ~Matches(t)

IInv ==
    /\ TypeOK
    /\ Before(after, cand)
    /\ NoMatchBefore
    /\ pc = "found" => Matches(cand)
    /\ pc = "none" => ~ExpressionValid(expr) \/ ~Before(cand, horizon)

LEMMA InitIInv == Init => IInv
<1> SUFFICES ASSUME Init PROVE IInv OBVIOUS
<1>1. after \in Times BY CalendarAssumption DEF Init
<1>2. /\ cand \in Times
      /\ Before(after, cand)
      /\ \A u \in Times : ~(Before(after, u) /\ Before(u, cand))
  BY <1>1, NextMinuteInterval DEF Init
<1>3. horizon \in Times
  <2>1. Span \in Nat BY CalendarAssumption
  <2> QED BY <1>2, <2>1 DEF Init, Times
<1>4. pc \in {"walk", "none"} /\ (pc = "none" => ~ExpressionValid(expr)) BY DEF Init
<1> QED BY <1>1, <1>2, <1>3, <1>4 DEF IInv, TypeOK, NoMatchBefore

LEMMA MatchesSameExpression ==
    ASSUME expr' = expr, NEW t \in Times
    PROVE  Matches(t)' <=> Matches(t)
BY DEF Matches, MonthsOf, DayMatches, DomsOf, DowsOf, HoursOf, MinutesOf

\* What an action has to show: it moves forward over minutes that do not match.
LEMMA Jump ==
    ASSUME IInv, UNCHANGED <<expr, after, horizon>>, pc' \in {"walk", "found"},
           cand' \in Times,
           cand' = cand \/ Before(cand, cand'),
           \A u \in Times : ~Before(u, cand) /\ Before(u, cand') => ~Matches(u),
           pc' = "found" => Matches(cand')
    PROVE  IInv'
<1>1. TypeOK' BY DEF IInv, TypeOK
<1>2. Before(after, cand)'
  <2>1. Before(after, cand') BY BeforeTransitive DEF IInv, TypeOK
  <2> QED BY <2>1 DEF Before
<1>3. NoMatchBefore'
  <2> SUFFICES ASSUME NEW t \in Times, Before(after, t)', Before(t, cand)'
               PROVE  ~Matches(t)'
    BY DEF NoMatchBefore
  <2>1. Before(after, t) /\ Before(t, cand') BY DEF Before
  <2>2. ~Matches(t) BY <2>1 DEF IInv, NoMatchBefore
  <2> QED BY <2>2, MatchesSameExpression
<1>4. pc' = "found" => Matches(cand)'
  <2>1. Matches(cand)' <=> Matches(cand')
    BY DEF Matches, MonthsOf, DayMatches, DomsOf, DowsOf, HoursOf, MinutesOf
  <2> QED BY <2>1
<1> QED BY <1>1, <1>2, <1>3, <1>4 DEF IInv

\* The candidate's own fields, for the actions.
LEMMA CandTypes ==
    ASSUME IInv
    PROVE  /\ cand \in Times /\ cand.day \in Nat
           /\ cand.hour \in Hours /\ cand.minute \in Minutes
BY DEF IInv, TypeOK, Times

LEMMA SkipMonthIInv ==
    ASSUME MonthsAreIntervals(Nat), IInv, SkipMonth PROVE IInv'
<1> DEFINE next == NextMonthStart(cand.day)
<1>1. cand \in Times /\ cand.day \in Nat BY CandTypes
<1>2. /\ next \in Nat /\ next > cand.day
      /\ \A e \in cand.day .. next - 1 : Month(e) = Month(cand.day)
  BY <1>1 DEF MonthsAreIntervals
<1>3. /\ cand' \in Times /\ Before(cand, cand')
      /\ \A u \in Times : ~Before(u, cand) /\ Before(u, cand') => u.day \in cand.day .. next - 1
  BY <1>1, <1>2, DayInterval DEF SkipMonth, Move
<1>4. \A u \in Times : ~Before(u, cand) /\ Before(u, cand') => ~Matches(u)
  BY <1>2, <1>3 DEF SkipMonth, MonthFits, Matches
<1> QED BY <1>3, <1>4, Jump DEF SkipMonth, Walking, Move

LEMMA SkipDayIInv ==
    ASSUME IInv, SkipDay PROVE IInv'
<1>1. cand \in Times BY CandTypes
<1>2. /\ cand' \in Times /\ Before(cand, cand')
      /\ \A u \in Times : ~Before(u, cand) /\ Before(u, cand') => u.day = cand.day
  BY <1>1, NextDayInterval DEF SkipDay, Move
<1>3. \A u \in Times : u.day = cand.day => ~Matches(u)
  BY DEF SkipDay, DayFits, MonthFits, Matches
<1> QED BY <1>2, <1>3, Jump DEF SkipDay, Walking, Move

LEMMA SkipHourIInv ==
    ASSUME IInv, SkipHour PROVE IInv'
<1>1. cand \in Times /\ cand.hour \in Hours BY CandTypes
<1>2. \A u \in Times : u.hour = cand.hour => ~Matches(u)
  BY DEF SkipHour, HourFits, Matches
<1>3. UNCHANGED <<expr, after, horizon>> /\ pc' = "walk" BY DEF SkipHour, Walking, Move
<1>4. ASSUME NEW h \in Hours, IsLeast(h, Later(HoursOf(expr), cand.hour)),
             Move(At(cand.day, h, 0))
      PROVE  IInv'
  <2>1. h > cand.hour BY <1>4 DEF IsLeast, Later
  <2>2. /\ cand' \in Times /\ Before(cand, cand')
        /\ \A u \in Times : ~Before(u, cand) /\ Before(u, cand') => u.hour \in cand.hour .. h - 1
    BY <1>1, <1>4, <2>1, HourInterval DEF Move
  <2>3. \A u \in Times : u.hour \in cand.hour .. h - 1 => u.hour = cand.hour \/ ~Matches(u)
    <3> SUFFICES ASSUME NEW u \in Times, u.hour \in cand.hour .. h - 1, u.hour # cand.hour,
                        Matches(u)
                 PROVE  FALSE
      OBVIOUS
    <3>1. u.hour \in Hours /\ u.hour > cand.hour /\ u.hour < h
      BY <1>1 DEF Times, Hours
    <3>2. u.hour \in Later(HoursOf(expr), cand.hour) BY <3>1 DEF Matches, Later
    <3>3. h <= u.hour BY <1>4, <3>2 DEF IsLeast
    <3> QED BY <3>1, <3>3 DEF Hours
  <2> QED BY <1>2, <1>3, <2>2, <2>3, Jump
<1>5. ASSUME Later(HoursOf(expr), cand.hour) = {}, Move(NextDay(cand))
      PROVE  IInv'
  <2>1. /\ cand' \in Times /\ Before(cand, cand')
        /\ \A u \in Times : ~Before(u, cand) /\ Before(u, cand') => u.hour >= cand.hour
    BY <1>1, <1>5, NextDayInterval DEF Move
  <2>2. \A u \in Times : u.hour >= cand.hour => u.hour = cand.hour \/ ~Matches(u)
    <3> SUFFICES ASSUME NEW u \in Times, u.hour >= cand.hour, u.hour # cand.hour, Matches(u)
                 PROVE  FALSE
      OBVIOUS
    <3>1. u.hour > cand.hour BY <1>1 DEF Times, Hours
    <3> QED BY <1>5, <3>1 DEF Matches, Later
  <2> QED BY <1>2, <1>3, <2>1, <2>2, Jump
<1> QED BY <1>4, <1>5 DEF SkipHour

\* Every minute from the candidate on in its hour, up to the next one in the set.
LEMMA MinutesSkipped ==
    ASSUME IInv, NEW u \in Times,
           cand.minute \notin MinutesOf(expr), u.minute >= cand.minute, Matches(u)
    PROVE  u.minute \in Later(MinutesOf(expr), cand.minute)
<1>1. u.minute # cand.minute BY DEF Matches
<1>2. u.minute > cand.minute BY <1>1, CandTypes DEF Times, Minutes
<1> QED BY <1>2 DEF Matches, Later

LEMMA TakeMinuteIInv ==
    ASSUME IInv, TakeMinute PROVE IInv'
<1>1. cand \in Times /\ cand.hour \in Hours /\ cand.minute \in Minutes BY CandTypes
<1>2. CASE cand.minute \in MinutesOf(expr) /\ Return(cand)
  <2>1. Matches(cand)
    BY <1>2 DEF TakeMinute, HourFits, DayFits, MonthFits, Matches
  <2>2. cand' = cand /\ pc' = "found" /\ UNCHANGED <<expr, after, horizon>> BY <1>2 DEF Return
  <2> QED BY <1>1, <2>1, <2>2, Jump
<1>3. ASSUME cand.minute \notin MinutesOf(expr), NEW m \in Minutes,
             IsLeast(m, Later(MinutesOf(expr), cand.minute)),
             Return(At(cand.day, cand.hour, m))
      PROVE  IInv'
  <2>1. m > cand.minute /\ m \in MinutesOf(expr) BY <1>3 DEF IsLeast, Later
  <2>2. /\ cand' \in Times /\ Before(cand, cand')
        /\ \A u \in Times : ~Before(u, cand) /\ Before(u, cand')
             => u.minute \in cand.minute .. m - 1
    BY <1>1, <1>3, <2>1, MinuteInterval DEF Return
  <2>3. \A u \in Times : u.minute \in cand.minute .. m - 1 => ~Matches(u)
    <3> SUFFICES ASSUME NEW u \in Times, u.minute \in cand.minute .. m - 1, Matches(u)
                 PROVE  FALSE
      OBVIOUS
    <3>1. u.minute \in Minutes /\ u.minute >= cand.minute /\ u.minute < m
      BY <1>1 DEF Times, Minutes
    <3>2. m <= u.minute BY <1>3, <3>1, MinutesSkipped DEF IsLeast
    <3> QED BY <3>1, <3>2 DEF Minutes
  <2>4. cand'.day = cand.day /\ cand'.hour = cand.hour /\ cand'.minute = m
    BY <1>3 DEF Return, At
  <2>5. Matches(cand')
    BY <2>1, <2>4 DEF TakeMinute, HourFits, DayFits, MonthFits, Matches
  <2>6. pc' = "found" /\ UNCHANGED <<expr, after, horizon>> BY <1>3 DEF Return
  <2> QED BY <2>2, <2>3, <2>5, <2>6, Jump
<1> QED BY <1>2, <1>3 DEF TakeMinute

LEMMA SkipMinutesIInv ==
    ASSUME IInv, SkipMinutes PROVE IInv'
<1>1. cand \in Times BY CandTypes
<1>2. /\ cand' \in Times /\ Before(cand, cand')
      /\ \A u \in Times : ~Before(u, cand) /\ Before(u, cand') => u.minute >= cand.minute
  BY <1>1, NextHourInterval DEF SkipMinutes, Move
<1>3. \A u \in Times : u.minute >= cand.minute => ~Matches(u)
  BY MinutesSkipped DEF SkipMinutes
<1> QED BY <1>2, <1>3, Jump DEF SkipMinutes, Walking, Move

LEMMA GiveUpIInv ==
    ASSUME IInv, GiveUp PROVE IInv'
<1>1. TypeOK' /\ Before(after, cand)' BY DEF IInv, TypeOK, GiveUp, Before
<1>2. NoMatchBefore'
  BY MatchesSameExpression DEF IInv, NoMatchBefore, GiveUp, Before
<1>3. pc' = "none" /\ ~Before(cand, horizon)' BY DEF GiveUp, Before
<1> QED BY <1>1, <1>2, <1>3 DEF IInv

LEMMA StutterIInv ==
    ASSUME IInv, UNCHANGED vars PROVE IInv'
<1>1. Matches(cand)' <=> Matches(cand)
  BY DEF vars, Matches, MonthsOf, DayMatches, DomsOf, DowsOf, HoursOf, MinutesOf
<1>2. NoMatchBefore' BY MatchesSameExpression DEF IInv, NoMatchBefore, vars, Before
<1>3. TypeOK' /\ Before(after, cand)' /\ (Before(cand, horizon)' <=> Before(cand, horizon))
  BY DEF IInv, TypeOK, vars, Before
<1>4. ExpressionValid(expr)' <=> ExpressionValid(expr)
  BY DEF vars, ExpressionValid
<1> QED BY <1>1, <1>2, <1>3, <1>4 DEF IInv, vars

LEMMA StepIInv ==
    ASSUME MonthsAreIntervals(Nat) PROVE IInv /\ [Next]_vars => IInv'
<1> SUFFICES ASSUME IInv, [Next]_vars PROVE IInv' OBVIOUS
<1>1. CASE SkipMonth BY <1>1, SkipMonthIInv
<1>2. CASE SkipDay BY <1>2, SkipDayIInv
<1>3. CASE SkipHour BY <1>3, SkipHourIInv
<1>4. CASE TakeMinute BY <1>4, TakeMinuteIInv
<1>5. CASE SkipMinutes BY <1>5, SkipMinutesIInv
<1>6. CASE GiveUp BY <1>6, GiveUpIInv
<1>7. CASE UNCHANGED vars BY <1>7, StutterIInv
<1> QED BY <1>1, <1>2, <1>3, <1>4, <1>5, <1>6, <1>7 DEF Next

LEMMA IInvFirstMatch == IInv => TypeOK /\ FirstMatch
<1> SUFFICES ASSUME IInv PROVE TypeOK /\ FirstMatch OBVIOUS
<1>1. \A t \in Passed : t \in Times
  <2>1. after.day \in Nat /\ cand.day \in Nat BY DEF IInv, TypeOK, Times
  <2> QED BY <2>1 DEF Passed, Times
<1> QED BY <1>1 DEF IInv, NoMatchBefore, FirstMatch, Passed

\* Whatever the calendar, as long as its months are intervals of days: what
\* next_fire (cron.py:132) returns is the first minute after its argument whose
\* month, day, hour and minute are in the sets the fields expand to, and it
\* returns None only for an invalid expression or at the four-year horizon.
THEOREM FirstMatchAlways ==
    ASSUME MonthsAreIntervals(Nat)
    PROVE  Spec => [](TypeOK /\ FirstMatch)
<1>1. Init => IInv BY InitIInv
<1>2. IInv /\ [Next]_vars => IInv' BY StepIInv
<1>3. IInv => TypeOK /\ FirstMatch BY IInvFirstMatch
<1> QED BY <1>1, <1>2, <1>3, PTL DEF Spec

-----------------------------------------------------------------------------
(* The expansion of the fields is the syntax.                                *)

LEMMA Multiples ==
    ASSUME NEW n \in Nat, NEW step \in Nat \ {0}
    PROVE  n % step = 0 <=> \E k \in 0 .. n : n = k * step
<1>1. ASSUME n % step = 0 PROVE \E k \in 0 .. n : n = k * step
  <2>1. n = step * (n \div step) + (n % step) /\ n \div step \in Nat
    OBVIOUS
  <2>2. n \div step <= n
    BY <2>1
  <2>3. n \div step \in 0 .. n /\ n = (n \div step) * step
    BY <1>1, <2>1, <2>2
  <2> QED BY <2>3
<1>2. ASSUME NEW k \in 0 .. n, n = k * step PROVE n % step = 0
  <2>1. k \in Nat
    OBVIOUS
  <2> QED BY <1>2, <2>1
<1> DEFINE multiple == \E k \in 0 .. n : n = k * step
<1>3. multiple => n % step = 0 BY <1>2
<1>4. n % step = 0 => multiple BY <1>1
<1> HIDE DEF multiple
<1>5. n % step = 0 <=> multiple BY <1>3, <1>4
<1> QED BY <1>5 DEF multiple

\* range(begin, end + 1, step), and what the syntax says of it.
Reached(a, b, step, v, high) ==
    (a <= v /\ v <= b) /\ \E k \in 0 .. high : v = a + k * step
Kept(a, b, step, v) == (a <= v /\ v <= b) /\ (v - a) % step = 0

LEMMA RangeNames ==
    ASSUME NEW a \in Nat, NEW b \in Nat, NEW high \in Nat, b <= high,
           NEW step \in Nat \ {0}, NEW v \in Nat
    PROVE  Kept(a, b, step, v) <=> Reached(a, b, step, v, high)
<1>1. CASE a <= v /\ v <= b
  <2>1. v - a \in Nat /\ v - a <= high BY <1>1
  <2>2. (v - a) % step = 0 <=> \E k \in 0 .. v - a : v - a = k * step BY <2>1, Multiples
  <2>3. ASSUME NEW k \in 0 .. v - a, v - a = k * step
        PROVE  \E j \in 0 .. high : v = a + j * step
    <3>1. k \in 0 .. high /\ k * step \in Nat BY <2>1
    <3>2. v = a + k * step BY <1>1, <2>3, <3>1
    <3> QED BY <3>1, <3>2
  <2>4. ASSUME NEW k \in 0 .. high, v = a + k * step
        PROVE  \E j \in 0 .. v - a : v - a = j * step
    <3>1. k * step \in Nat /\ k <= k * step BY SMT
    <3>2. v - a = k * step BY <2>4, <3>1
    <3>3. k \in 0 .. v - a BY <3>1, <3>2
    <3> QED BY <3>2, <3>3
  <2> DEFINE far == \E k \in 0 .. v - a : v - a = k * step
             named == \E k \in 0 .. high : v = a + k * step
  <2>5. far => named BY <2>3
  <2>6. named => far BY <2>4
  <2> HIDE DEF named
  <2>7. (v - a) % step = 0 <=> named BY <2>2, <2>5, <2>6
  <2> QED BY <1>1, <2>7 DEF named, Kept, Reached
<1>2. CASE ~(a <= v /\ v <= b)
  BY <1>2 DEF Kept, Reached
<1> QED BY <1>1, <1>2

LEMMA PartNames ==
    ASSUME NEW low \in Nat, NEW high \in Nat, NEW part \in Part, PartValid(part, low, high),
           NEW v \in low .. high
    PROVE  v \in PartValues(part, low, high) <=> Names(part, v, low, high)
<1>1. /\ part.form \in {"star", "range", "value"}
      /\ part.a \in Nat /\ part.b \in Nat /\ part.step \in Nat \ {0}
  BY DEF Part, PartValid
<1>2. v \in Nat /\ v <= high BY DEF Part
<1> DEFINE between(a, b) == a <= v /\ v <= b /\ \E k \in 0 .. high : v = a + k * part.step
           from(a, b) == {w \in a .. b : (w - a) % part.step = 0}
<1>3. ASSUME NEW a \in Nat, NEW b \in Nat, b <= high
      PROVE  v \in from(a, b) <=> between(a, b)
  <2>1. part.step \in Nat \ {0} /\ v \in Nat BY <1>1, <1>2
  <2>2. Kept(a, b, part.step, v) <=> Reached(a, b, part.step, v, high)
    BY <1>3, <2>1, RangeNames, Zenon
  <2>3. v \in from(a, b) <=> Kept(a, b, part.step, v)
    BY <2>1 DEF Kept
  <2>4. between(a, b) <=> Reached(a, b, part.step, v, high)
    BY DEF Reached
  <2> HIDE DEF between, from
  <2> QED BY <2>2, <2>3, <2>4, Zenon
<1> HIDE DEF between, from
<1>4. CASE part.form = "star"
  <2>1. PartValues(part, low, high) = from(low, high) BY <1>4 DEF PartValues, from
  <2>2. Names(part, v, low, high) <=> between(low, high) BY <1>4 DEF Names, between
  <2> QED BY <1>3, <2>1, <2>2
<1>5. CASE part.form = "range"
  <2>1. PartValues(part, low, high) = from(part.a, part.b) BY <1>5 DEF PartValues, from
  <2>2. Names(part, v, low, high) <=> between(part.a, part.b) BY <1>5 DEF Names, between
  <2>3. part.b <= high BY <1>5 DEF PartValid
  <2> QED BY <1>1, <1>3, <2>1, <2>2, <2>3
<1>6. CASE part.form = "value" /\ part.step > 1
  <2>1. PartValues(part, low, high) = from(part.a, high) BY <1>6 DEF PartValues, from
  <2>2. Names(part, v, low, high) <=> between(part.a, high) BY <1>6 DEF Names, between
  <2> QED BY <1>1, <1>3, <2>1, <2>2
<1>7. CASE part.form = "value" /\ ~(part.step > 1)
  <2>1. PartValues(part, low, high) = {part.a} BY <1>7 DEF PartValues
  <2>2. part.step = 1 BY <1>1, <1>7
  <2>3. Names(part, v, low, high) <=> v = part.a BY <1>7, <2>2 DEF Names
  <2> QED BY <2>1, <2>3
<1> QED BY <1>1, <1>4, <1>5, <1>6, <1>7

LEMMA FieldExpands ==
    ASSUME NEW low \in Nat, NEW high \in Nat, NEW field, IsField(field),
           FieldValid(field, low, high), NEW v \in low .. high
    PROVE  v \in ParseField(field, low, high) <=> FieldNames(field, v, low, high)
<1>1. \A part \in field.parts :
         v \in PartValues(part, low, high) <=> Names(part, v, low, high)
  BY PartNames DEF IsField, FieldValid
<1> QED BY <1>1 DEF ParseField, FieldNames

\* "*" names every value.
LEMMA BareNames ==
    ASSUME NEW low \in Nat, NEW high \in Nat, NEW field, IsField(field), field.bare,
           FieldValid(field, low, high), NEW v \in low .. high
    PROVE  FieldNames(field, v, low, high)
<1>1. PICK part \in field.parts : part.form = "star" /\ part.step = 1
  BY DEF IsField, FieldValid
<1>2. v - low \in 0 .. high /\ v = low + (v - low) * 1
  OBVIOUS
<1>3. Names(part, v, low, high)
  BY <1>1, <1>2 DEF Names
<1> QED BY <1>3 DEF FieldNames

\* The minutes the walk looks for are the minutes the expression names.
LEMMA MatchesTheSyntax ==
    ASSUME DaysInRange(Nat), expr \in Expressions, ExpressionValid(expr), NEW t \in Times
    PROVE  Matches(t) <=> CronMatches(expr, t)
<1> DEFINE day == t.day
           dom == FieldNames(expr.dom, Dom(day), 1, MaxDay)
           dow == \/ FieldNames(expr.dow, Dow(day), 0, DaysPerWeek)
                  \/ Dow(day) = 0 /\ FieldNames(expr.dow, DaysPerWeek, 0, DaysPerWeek)
<1>1. /\ Month(day) \in 1 .. MonthsPerYear /\ Dom(day) \in 1 .. MaxDay
      /\ Dow(day) \in 0 .. DaysPerWeek - 1
      /\ t.hour \in 0 .. HoursPerDay - 1 /\ t.minute \in 0 .. MinutesPerHour - 1
  BY DEF DaysInRange, Times, Hours, Minutes
<1>2. /\ IsField(expr.minute) /\ IsField(expr.hour) /\ IsField(expr.dom)
      /\ IsField(expr.month) /\ IsField(expr.dow)
  BY ExpressionAssumption
<1>3. /\ {HoursPerDay, MinutesPerHour, DaysPerWeek, MonthsPerYear, MaxDay} \subseteq Nat \ {0}
      /\ HoursPerDay - 1 \in Nat /\ MinutesPerHour - 1 \in Nat
  BY CalendarAssumption
<1>4. t.minute \in MinutesOf(expr) <=> FieldNames(expr.minute, t.minute, 0, MinutesPerHour - 1)
  BY <1>1, <1>2, <1>3, FieldExpands DEF MinutesOf, ExpressionValid
<1>5. t.hour \in HoursOf(expr) <=> FieldNames(expr.hour, t.hour, 0, HoursPerDay - 1)
  BY <1>1, <1>2, <1>3, FieldExpands DEF HoursOf, ExpressionValid
<1>6. Month(day) \in MonthsOf(expr) <=> FieldNames(expr.month, Month(day), 1, MonthsPerYear)
  BY <1>1, <1>2, <1>3, FieldExpands DEF MonthsOf, ExpressionValid
<1>7. Dom(day) \in DomsOf(expr) <=> dom
  BY <1>1, <1>2, <1>3, FieldExpands DEF DomsOf, ExpressionValid
<1>8. Dow(day) \in DowsOf(expr) <=> dow
  <2> DEFINE values == ParseField(expr.dow, 0, DaysPerWeek)
  <2>1. /\ Dow(day) \in 0 .. DaysPerWeek /\ DaysPerWeek \in 0 .. DaysPerWeek
        /\ Dow(day) # DaysPerWeek
    BY <1>1, <1>3
  <2>2. /\ Dow(day) \in values <=> FieldNames(expr.dow, Dow(day), 0, DaysPerWeek)
        /\ DaysPerWeek \in values <=> FieldNames(expr.dow, DaysPerWeek, 0, DaysPerWeek)
    BY <1>2, <1>3, <2>1, FieldExpands DEF ExpressionValid
  <2>3. Dow(day) \in NormalizeDow(values)
          <=> Dow(day) \in values \/ (Dow(day) = 0 /\ DaysPerWeek \in values)
    BY <2>1 DEF NormalizeDow
  <2> QED BY <2>2, <2>3 DEF DowsOf
<1>9. expr.dom.bare => dom
  BY <1>1, <1>2, <1>3, BareNames DEF ExpressionValid
<1>10. expr.dow.bare => dow
  <2>1. Dow(day) \in 0 .. DaysPerWeek BY <1>1, <1>3
  <2> QED BY <1>2, <1>3, <2>1, BareNames DEF ExpressionValid
<1>11. DayMatches(expr, day)
         <=> IF expr.dom.bare \/ expr.dow.bare THEN dom /\ dow ELSE dom \/ dow
  BY <1>7, <1>8, <1>9, <1>10 DEF DayMatches
<1> QED BY <1>4, <1>5, <1>6, <1>11 DEF Matches, CronMatches

Given == expr \in Expressions

\* next_fire agrees with the five-field syntax, for every valid expression and
\* every calendar whose months are intervals of days: the answer is the first
\* minute the expression names, lists, ranges, steps and both Sundays included,
\* and None means that it names no minute of the four years (cron.py:3).
THEOREM NextFireIsExact ==
    ASSUME MonthsAreIntervals(Nat), DaysInRange(Nat)
    PROVE  Spec => []Exact
<1>1. Init => IInv /\ Given BY InitIInv DEF Init, Given
<1>2. IInv /\ [Next]_vars => IInv' BY StepIInv
<1>3. Given /\ [Next]_vars => Given'
  BY DEF Given, Next, vars, SkipMonth, SkipDay, SkipHour, TakeMinute, SkipMinutes, GiveUp, Move, Return
<1>4. IInv /\ Given => Exact
  <2> SUFFICES ASSUME IInv, expr \in Expressions, ExpressionValid(expr)
               PROVE  /\ \A t \in Passed : ~CronMatches(expr, t)
                      /\ pc = "found" => CronMatches(expr, cand)
    BY DEF Exact, Given
  <2>1. \A t \in Times : Matches(t) <=> CronMatches(expr, t) BY MatchesTheSyntax
  <2>2. \A t \in Passed : t \in Times
    <3>1. after.day \in Nat /\ cand.day \in Nat BY DEF IInv, TypeOK, Times
    <3> QED BY <3>1 DEF Passed, Times
  <2>3. FirstMatch /\ cand \in Times BY IInvFirstMatch DEF TypeOK
  <2> QED BY <2>1, <2>2, <2>3 DEF FirstMatch
<1> QED BY <1>1, <1>2, <1>3, <1>4, PTL DEF Spec

=============================================================================
