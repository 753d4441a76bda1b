CONSTANTS
    Tasks = {t1}
    Members = {a, b}
    None = None
    MaxEpoch = 3
    MaxRecovery = 1
    MaxIdleCloseouts = 0
    PrepareLimit = 1
    StartFailureLimit = 1
    Targets = {None}
    Allowances = {1}
SPECIFICATION Spec
SYMMETRY Symmetry
INVARIANTS StopNeverOrphaned HandleQuiescence
PROPERTIES QuiescentRelease ImplementsTaskOwnership
