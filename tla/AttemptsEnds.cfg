CONSTANTS
    Tasks = {t1}
    Members = {a}
    None = None
    MaxEpoch = 2
    MaxRecovery = 1
    MaxIdleCloseouts = 2
    PrepareLimit = 1
    StartFailureLimit = 1
    Targets = {None}
    Allowances = {0, 1}
SPECIFICATION FairSpec
PROPERTIES StopSettles IdleAttemptClosedOut LapsedLeaseRecovered ExhaustedStaysBlocked
