SPECIFICATION NoticesSpec
CONSTANTS
    Questions = {q1, q2}
    Contents = {c1}
    MaxNudges = 1
    MaxControls = 1
    MaxCrashes = 1
    NM = 2  NR = 2  NP = 2  Passes = {1}
    NF = 4  ND = 4  Restating = {4}
    WakeBudget = 1  Followups = 1
    MaxChanges = 1  MaxTurns = 2  MaxIntervals = 2
INVARIANTS AnswerQueuedOnce ToldOnce
PROPERTY TurnAccountsForSeen
SYMMETRY Symmetry
CHECK_DEADLOCK FALSE
