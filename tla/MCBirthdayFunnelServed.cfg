\* Two users with one birthday.
CONSTANTS
    u1 = u1
    u2 = u2
    Users <- MCUsers
    YearDays = 3
    DaysBefore = 1
    LastDay = 3
SYMMETRY Symmetry
SPECIFICATION Spec
INVARIANTS
    EveryDueUserServed

