-------------------------------- MODULE Cron --------------------------------
(***************************************************************************)
(* Five-field cron expressions (aegisx_agent/scheduler/cron.py): what a      *)
(* field expands to, and next_fire's walk over the calendar, one action per *)
(* iteration of its loop.                                                    *)
(*                                                                           *)
(* A minute is a record [day, hour, minute]; day counts days, and the        *)
(* calendar is given by operators, so that a short one can be checked and    *)
(* any one is covered by the proofs.                                         *)
(***************************************************************************)
EXTENDS Naturals

CONSTANTS
    HoursPerDay, MinutesPerHour, DaysPerWeek,
    MonthsPerYear, MaxDay,   \* MaxDay: the upper bound of day-of-month
    Span,                    \* days in the four years next_fire looks ahead
    Month(_), Dom(_),        \* month and day of month of a day
    Dow(_),                  \* day of week, Sunday = 0
    NextMonthStart(_),       \* the first day of the following month
    Expressions, Afters      \* the inputs

\* What the walk needs of the calendar.
MonthsAreIntervals(days) ==
    \A d \in days :
        /\ NextMonthStart(d) \in Nat /\ NextMonthStart(d) > d
        /\ \A e \in d .. NextMonthStart(d) - 1 : Month(e) = Month(d)

DaysInRange(days) ==
    \A d \in days :
        Month(d) \in 1 .. MonthsPerYear /\ Dom(d) \in 1 .. MaxDay /\ Dow(d) \in 0 .. DaysPerWeek - 1

Hours == 0 .. HoursPerDay - 1
Minutes == 0 .. MinutesPerHour - 1
Times == [day : Nat, hour : Hours, minute : Minutes]

ASSUME CalendarAssumption ==
    /\ {HoursPerDay, MinutesPerHour, DaysPerWeek, MonthsPerYear, MaxDay, Span}
          \subseteq Nat \ {0}
    /\ Afters \subseteq Times

Before(x, y) ==
    \/ x.day < y.day
    \/ x.day = y.day /\ x.hour < y.hour
    \/ x.day = y.day /\ x.hour = y.hour /\ x.minute < y.minute

-----------------------------------------------------------------------------
(* Fields.  A part is one item of the comma list: "*", "a-b" or "a", each    *)
(* with an optional step; bare says the whole field is the text "*".         *)

\* Numbers are strings of digits; a bare field has one part.
Part == [form : {"star", "range", "value"}, a : Nat, b : Nat, step : Nat]

IsField(field) ==
    /\ field.parts \subseteq Part
    /\ field.bare => \A part \in field.parts : part.form = "star" /\ part.step = 1

ASSUME ExpressionAssumption ==
    \A e \in Expressions :
        \A field \in {e.minute, e.hour, e.dom, e.month, e.dow} : IsField(field)

\* _parse_value and the checks of _parse_field.
PartValid(part, low, high) ==
    /\ part.step >= 1
    /\ part.form = "range" => low <= part.a /\ part.a <= part.b /\ part.b <= high
    /\ part.form = "value" => low <= part.a /\ part.a <= high

\* The values range(begin, end + 1, step) adds to the set.
PartValues(part, low, high) ==
    LET from(a, b) == {v \in a .. b : (v - a) % part.step = 0}
    IN CASE part.form = "star"  -> from(low, high)
         [] part.form = "range" -> from(part.a, part.b)
         [] part.form = "value" -> IF part.step > 1 THEN from(part.a, high) ELSE {part.a}

FieldValid(field, low, high) ==
    field.parts # {} /\ \A part \in field.parts : PartValid(part, low, high)

ParseField(field, low, high) ==
    UNION {PartValues(part, low, high) : part \in field.parts}

\* Both 0 and DaysPerWeek (7) mean Sunday.
NormalizeDow(values) == {IF v = DaysPerWeek THEN 0 ELSE v : v \in values}

ExpressionValid(e) ==
    /\ FieldValid(e.minute, 0, MinutesPerHour - 1)
    /\ FieldValid(e.hour, 0, HoursPerDay - 1)
    /\ FieldValid(e.dom, 1, MaxDay)
    /\ FieldValid(e.month, 1, MonthsPerYear)
    /\ FieldValid(e.dow, 0, DaysPerWeek)

MinutesOf(e) == ParseField(e.minute, 0, MinutesPerHour - 1)
HoursOf(e) == ParseField(e.hour, 0, HoursPerDay - 1)
DomsOf(e) == ParseField(e.dom, 1, MaxDay)
MonthsOf(e) == ParseField(e.month, 1, MonthsPerYear)
DowsOf(e) == NormalizeDow(ParseField(e.dow, 0, DaysPerWeek))

\* Mutant: the two day fields always have to agree.
DayMatchesBoth(e, day) == Dom(day) \in DomsOf(e) /\ Dow(day) \in DowsOf(e)

\* _day_matches: two restricted day fields are alternatives.
DayMatches(e, day) ==
    LET domHit == Dom(day) \in DomsOf(e)
        dowHit == Dow(day) \in DowsOf(e)
    IN CASE e.dom.bare /\ e.dow.bare   -> TRUE
         [] ~e.dom.bare /\ ~e.dow.bare -> domHit \/ dowHit
         [] ~e.dom.bare /\ e.dow.bare  -> domHit
         [] e.dom.bare /\ ~e.dow.bare  -> dowHit

-----------------------------------------------------------------------------
(* The walk.                                                                 *)

VARIABLES
    expr,    \* the parsed expression
    after,   \* the argument of next_fire, cut to its minute
    cand,    \* candidate
    horizon, \* candidate at the start, four years later
    pc       \* "walk", "found" (cand is returned) or "none" (None is returned)

vars == <<expr, after, cand, horizon, pc>>

At(day, hour, minute) == [day |-> day, hour |-> hour, minute |-> minute]

\* Mutant: back to midnight without the day added.
NextDayMidnight(t) == At(t.day, 0, 0)

NextDay(t) == At(t.day + 1, 0, 0)

NextHour(t) == IF t.hour + 1 < HoursPerDay THEN At(t.day, t.hour + 1, 0) ELSE NextDay(t)

NextMinute(t) ==
    IF t.minute + 1 < MinutesPerHour THEN At(t.day, t.hour, t.minute + 1) ELSE NextHour(t)

Init ==
    /\ expr \in Expressions /\ after \in Afters
    /\ cand = NextMinute(after)
    /\ horizon = [cand EXCEPT !.day = @ + Span]
    /\ pc = IF ExpressionValid(expr) THEN "walk" ELSE "none"

IsLeast(v, values) == v \in values /\ \A w \in values : v <= w

Later(values, v) == {w \in values : w > v}

Walking == pc = "walk" /\ Before(cand, horizon)
MonthFits == Month(cand.day) \in MonthsOf(expr)
DayFits == MonthFits /\ DayMatches(expr, cand.day)
HourFits == DayFits /\ cand.hour \in HoursOf(expr)

Move(t) == cand' = t /\ UNCHANGED <<expr, after, horizon, pc>>

Return(t) == cand' = t /\ pc' = "found" /\ UNCHANGED <<expr, after, horizon>>

\* _first_of_next_allowed_month, one month at a time: a month that is not
\* allowed is left again by the next iteration.
SkipMonth ==
    /\ Walking /\ ~MonthFits
    /\ Move(At(NextMonthStart(cand.day), 0, 0))

SkipDay ==
    /\ Walking /\ MonthFits /\ ~DayFits
    /\ Move(NextDay(cand))

\* Mutant: the minute of the old candidate survives the jump.
SkipHourKeepingMinute ==
    /\ Walking /\ DayFits /\ ~HourFits
    /\ \/ \E h \in Hours : IsLeast(h, Later(HoursOf(expr), cand.hour))
                           /\ Move(At(cand.day, h, cand.minute))
       \/ Later(HoursOf(expr), cand.hour) = {} /\ Move(NextDay(cand))

SkipHour ==
    /\ Walking /\ DayFits /\ ~HourFits
    /\ \/ \E h \in Hours : IsLeast(h, Later(HoursOf(expr), cand.hour))
                           /\ Move(At(cand.day, h, 0))
       \/ Later(HoursOf(expr), cand.hour) = {} /\ Move(NextDay(cand))

TakeMinute ==
    /\ Walking /\ HourFits
    /\ \/ cand.minute \in MinutesOf(expr) /\ Return(cand)
       \/ /\ cand.minute \notin MinutesOf(expr)
          /\ \E m \in Minutes : IsLeast(m, Later(MinutesOf(expr), cand.minute))
                                /\ Return(At(cand.day, cand.hour, m))

SkipMinutes ==
    /\ Walking /\ HourFits
    /\ cand.minute \notin MinutesOf(expr) /\ Later(MinutesOf(expr), cand.minute) = {}
    /\ Move(NextHour(cand))

GiveUp ==
    /\ pc = "walk" /\ ~Before(cand, horizon)
    /\ pc' = "none"
    /\ UNCHANGED <<expr, after, cand, horizon>>

Next == SkipMonth \/ SkipDay \/ SkipHour \/ TakeMinute \/ SkipMinutes \/ GiveUp

Spec == Init /\ [][Next]_vars

\* next_fire is a sequential function: it runs until it returns.
FairSpec == Spec /\ WF_vars(Next)

-----------------------------------------------------------------------------
\* The minutes an expression names, as the walk's expansion of its fields gives
\* them.
Matches(t) ==
    /\ Month(t.day) \in MonthsOf(expr) /\ DayMatches(expr, t.day)
    /\ t.hour \in HoursOf(expr) /\ t.minute \in MinutesOf(expr)

TypeOK ==
    /\ cand \in Times /\ after \in Times /\ horizon \in Times
    /\ pc \in {"walk", "found", "none"}

\* The minutes between the argument and the candidate.
Passed ==
    {t \in [day : after.day .. cand.day, hour : Hours, minute : Minutes] :
        Before(after, t) /\ Before(t, cand)}

\* The walk answers with the first matching minute after the argument: it only
\* moves forward, no minute that it passes matches, what it returns matches, and
\* it gives up only on an invalid expression or at the horizon.  The month, day
\* and hour jumps of next_fire skip nothing.
FirstMatch ==
    /\ Before(after, cand)
    /\ \A t \in Passed : ~Matches(t)
    /\ pc = "found" => Matches(cand)
    /\ pc = "none" => ~ExpressionValid(expr) \/ ~Before(cand, horizon)

-----------------------------------------------------------------------------
(* A definition of the syntax that does not go through the expansion.        *)

\* A part names low, low + step, ... up to its end.
Names(part, v, low, high) ==
    LET between(a, b) == a <= v /\ v <= b /\ \E k \in 0 .. high : v = a + k * part.step
    IN \/ part.form = "star" /\ between(low, high)
       \/ part.form = "range" /\ between(part.a, part.b)
       \/ part.form = "value" /\ part.step > 1 /\ between(part.a, high)
       \/ part.form = "value" /\ part.step = 1 /\ v = part.a

FieldNames(field, v, low, high) == \E part \in field.parts : Names(part, v, low, high)

\* Two restricted day fields are alternatives, else both apply; Sunday has two
\* numbers.
CronMatches(e, t) ==
    LET dom == FieldNames(e.dom, Dom(t.day), 1, MaxDay)
        dow == \/ FieldNames(e.dow, Dow(t.day), 0, DaysPerWeek)
               \/ Dow(t.day) = 0 /\ FieldNames(e.dow, DaysPerWeek, 0, DaysPerWeek)
    IN /\ FieldNames(e.minute, t.minute, 0, MinutesPerHour - 1)
       /\ FieldNames(e.hour, t.hour, 0, HoursPerDay - 1)
       /\ FieldNames(e.month, Month(t.day), 1, MonthsPerYear)
       /\ IF e.dom.bare \/ e.dow.bare THEN dom /\ dow ELSE dom \/ dow

\* next_fire agrees with the documented syntax (cron.py:3): the answer is the
\* first minute the expression names, and None is the answer only when there is
\* no such minute in the four years.
Exact ==
    pc # "walk" /\ ExpressionValid(expr) =>
        /\ \A t \in Passed : Before(t, horizon) => ~CronMatches(expr, t)
        /\ pc = "found" => CronMatches(expr, cand)

\* next_fire returns: every jump makes progress towards the horizon.
Terminates == <>(pc # "walk")

=============================================================================
