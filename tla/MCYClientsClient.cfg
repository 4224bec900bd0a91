\* The window is twice the cooldown, as in the code; two requests can fill it.
SPECIFICATION ClientFairSpec
CONSTANTS
    t1 = t1
    t2 = t2
    e1 = e1
    e2 = e2
    Tasks <- MCTasks
    Endpoints <- MCEndpoints
    RequestAttempts = 2
    Threshold = 3
    Window = 4
    Cooldown = 2
    Limits = {1, 2}
INVARIANTS
    ClientTypeOK
    WindowIsBounded
PROPERTIES
    CooldownsAreEarned
    RequestsEnd
