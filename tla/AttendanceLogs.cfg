\* Four verdicts over two days, pages of one row; local time is one tick, half a
\* day, ahead of UTC.
CONSTANTS
    c1 = c1  c2 = c2  c3 = c3  c4 = c4
    Check <- MCChecks
    Limit = 1
    Day = 2
    Offset = 1
    Filters <- MCFilters
    Unset = Unset
    MaxTime = 2
    MaxFails = 1
CHECK_DEADLOCK FALSE
SYMMETRY MCSymmetry
SPECIFICATION Spec
INVARIANTS TypeOK PagesShowAll StatsOff
