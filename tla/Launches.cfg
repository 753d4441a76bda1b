SPECIFICATION LaunchesSpec
CONSTANTS
    Members = {a, b}
    Limit = 2
    MaxLimit = 4
    MaxPauses = 2
    MaxOwner = 1
    MaxFaults = 2
    Plans = {{k1, k2}, {k1, k3}}
    Settings = {"s1", "s2"}
    Launches = {l1, l2}
    MaxRevision = 6
    MaxSession = 3
    MaxRestarts = 1
    Bodies = {1, 2}
    MaxEpoch = 2
    Requests <- AllRequests
INVARIANTS PreservedByCurrentPause ActiveIsThePlan
PROPERTIES ResumedAfterQuiet FailureIsTold
SYMMETRY Symmetry
CHECK_DEADLOCK FALSE
