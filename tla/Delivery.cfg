SPECIFICATION DeliverySpec
CONSTANTS
    Members = {a, b, c}
    Limit = 1
    Commands = 2
    MaxRuns = 1
    MaxCrashes = 1
    None = None
    e1 = e1  e2 = e2  h1 = h1  h2 = h2
    Checks = 1
    Failures = {"assertion", "infrastructure"}
    MaxVerifications = 2
    MaxAttempts = 2
    MaxRestarts = 0
    Epochs = 4
    Documented = FALSE
    Files = 2
    MaxSaves = 2
    MaxApplications = 2
    MaxDeaths = 1
    w1 = w1  w2 = w2  t1 = t1  t2 = t2  d1 = d1  v1 = v1
SYMMETRY Symmetry
INVARIANTS StartsFromItsWork SlotsAccounted VerdictFounded EditsSurvive
CHECK_DEADLOCK FALSE
