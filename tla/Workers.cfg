SPECIFICATION WorkersSpec
CONSTANTS
    Members = {a, b}
    Charges = {1, 2}
    MaxTotal = 3
    MaxGen = 2
    Legacy = {b}
    NS = 5  NR = 4  FailLimit = 3  MaxOwner = 3  MaxFaults = 3
INVARIANTS NeverOvercharged AcceptedSurvives OneHandle
CHECK_DEADLOCK FALSE
