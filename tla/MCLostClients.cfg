\* Two visits; both thresholds and an interval fit into the days after the first.
SPECIFICATION LostSpec
CONSTANTS
    Thresholds = {1, 3}
    Cooldown = 1
    Last = 2
    LastDay = 6
    Slips = 2
INVARIANTS
    RepeatsAreSlips
PROPERTIES
    ThresholdsClimb
