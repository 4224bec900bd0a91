SPECIFICATION Spec
SYMMETRY Days
CONSTANTS
    d1 = d1
    d2 = d2
    t1 = t1
    None = None
    Dates <- MCDates
    Times <- MCTimes
    Capacity = 1
    Attempts = 2
    Faults = TRUE
INVARIANTS
    OneKnownRecordPerChoice
    EveryWayOutUnlocks
    SuccessIsTrue
    LatestCardIsBooked
