SPECIFICATION FairSpec
CONSTANTS
    HoursPerDay = 2
    MinutesPerHour = 4
    DaysPerWeek = 4
    MonthsPerYear = 2
    MaxDay = 4
    Span = 9
    Month <- MCMonth
    Dom <- MCDom
    Dow <- MCDow
    NextMonthStart <- MCNextMonthStart
    Expressions <- MCExpressions
    Afters <- MCAfters
INVARIANTS FirstMatch Exact
PROPERTY Terminates
CHECK_DEADLOCK FALSE
