------------------------------- MODULE MCCron -------------------------------
(***************************************************************************)
(* A calendar of two months a year and four days a week, in which every      *)
(* second year is a leap year whose second month has a third day, so that    *)
(* day 3 is the 29th of February and day 4 the 30th.                         *)
(***************************************************************************)
EXTENDS Cron, Sequences

MCMonths == <<1, 1, 2, 2, 1, 1, 2, 2, 2>>
MCDoms == <<1, 2, 1, 2, 1, 2, 1, 2, 3>>

MCMonth(d) == MCMonths[(d % 9) + 1]
MCDom(d) == MCDoms[(d % 9) + 1]
MCDow(d) == d % 4
MCNextMonthStart(d) ==
    CHOOSE e \in d + 1 .. d + 3 : MCDom(e) = 1 /\ \A f \in d + 1 .. e - 1 : MCDom(f) # 1

ASSUME MonthsAreIntervals(0 .. 60) /\ DaysInRange(0 .. 60)

star == [form |-> "star", a |-> 0, b |-> 0, step |-> 1]
every(n) == [star EXCEPT !.step = n]
value(v) == [form |-> "value", a |-> v, b |-> v, step |-> 1]
from(v, n) == [value(v) EXCEPT !.step = n]
range(v, w, n) == [form |-> "range", a |-> v, b |-> w, step |-> n]

anything == [parts |-> {star}, bare |-> TRUE]
list(parts) == [parts |-> parts, bare |-> FALSE]

MCExpressions ==
    [minute : {anything, list({every(2)}), list({value(1)}), list({from(1, 2), value(0)}),
               list({value(4)}), list({range(2, 1, 1)}), list({every(0)})},
     hour : {anything, list({value(1)}), list({range(0, 1, 1)}), list({from(0, 2)})},
     dom : {anything, list({value(1)}), list({every(2)}), list({value(3)}), list({value(4)})},
     month : {anything, list({value(1)}), list({value(2)})},
     dow : {anything, list({value(4)}), list({range(1, 3, 2)})}]

MCAfters == [day : 0 .. 8, hour : {0, 1}, minute : {0, 2}]

=============================================================================
