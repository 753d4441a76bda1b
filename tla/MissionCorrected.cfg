SPECIFICATION CorrectedSpec
CONSTANTS
    MaxCalls = 5
    Missions <- AllMissions
    k1 = k1  k2 = k2  k3 = k3
INVARIANT OutputsAreThePlans
CHECK_DEADLOCK FALSE
