SPECIFICATION MissionSpec
CONSTANTS
    MaxCalls = 5
    Missions <- AllMissions
    k1 = k1  k2 = k2  k3 = k3
INVARIANTS Serial RestsOnAccepted DeliversAcceptedContent
PROPERTIES StallDiagnosed HangToldOnce CallsAnswered MergedWorkFenced
CHECK_DEADLOCK FALSE
