SPECIFICATION Spec
CONSTANTS
    d1 = d1
    d2 = d2
    t1 = t1
    None = None
    Dates <- MCDates
    Times <- MCTimes
    Capacity = 1
    Attempts = 2
    Faults = FALSE
INVARIANTS
    CheckedIsBooked
