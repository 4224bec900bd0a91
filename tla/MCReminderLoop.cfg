\* One booking that is made, moved and cancelled; scans that take time; windows
\* longer than the pause and two scans, so that none may be missed.
CONSTANTS
    u1 = u1
    r1 = r1
    Users <- MCUsers
    Records <- OneRecord
    Owner <- MCOwner
    Times = {3, 7, 8}
    Soon = 5
    Fallback = 6
    Confirm = 7
    Interval = 1
    Limit = 1
    MaxScan = 1
    Horizon = 8
SPECIFICATION Spec
INVARIANTS
    OneScanPerReminder
    SoonDecidedInTime
    ConfirmationAt6h
PROPERTIES
    StaleOnlyWithinScan
    PromiseSpec
CHECK_DEADLOCK FALSE
