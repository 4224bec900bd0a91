\* Two users, a real and a test key, two tasks, the sender's three attempts; no
\* symmetry, since there are action and liveness properties.
CONSTANTS
    u1 = u1
    u2 = u2
    k1 = k1
    k2 = k2
    t1 = t1
    t2 = t2
    Users <- MCUsers
    Keys <- MCKeys
    Tasks <- MCTasks
    TestKeys <- MCTestKeys
    MaxAttempts = 3
SPECIFICATION FairSpec
INVARIANTS
    OneOwner
    PendingIsOwned
PROPERTIES
    CallsEnd
    PromiseSpec
    DecisionsAreFinal
