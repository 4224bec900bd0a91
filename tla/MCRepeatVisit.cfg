\* Two visits, with room for the delay and the interval after each.
SPECIFICATION FairSpec
CONSTANTS
    Delay = 1
    Interval = 1
    Last = 2
    LastDay = 4
    Stops = 1
INVARIANTS
    InvitedOnce
    EventsAreTrue
PROPERTIES
    AwayIsServed
