SPECIFICATION PartsSpec
CONSTANTS
    None = None
    Members = {a, b}
    MaxTasks = 2
    MaxRework = 1
    Checks = 1
    MaxChecks = 2
    Commits = {1, 2}
    Claims = {1}
    Outcomes = {TRUE, FALSE}
    MaxDisputes = 1
    MaxEpoch = 3
INVARIANTS BasisIsCurrent ReworkIsReviewed OneAutomaticReview
PROPERTY KeepsContract
CHECK_DEADLOCK FALSE
SYMMETRY Symmetry
