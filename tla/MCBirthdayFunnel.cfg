\* Two users competing for the key of one year of three days.
CONSTANTS
    u1 = u1
    u2 = u2
    Users <- MCUsers
    YearDays = 3
    DaysBefore = 1
    LastDay = 2
SYMMETRY Symmetry
SPECIFICATION Spec
INVARIANTS
    EventsAgreeWithHistory
    GiftGoesToItsOwner
PROPERTIES
    OneAttemptPerYear
