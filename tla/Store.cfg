SPECIFICATION StoreSpec
CONSTANTS
    Writers = {1, 2}
    Rows = {1, 2}
    MaxWrites = 4
    MaxBusy = 1
    Hosts = {1, 2}  h1 = 1
    Copies = {1, 2, 3, 4}  Keep = 2
    MaxCommits = 2  MaxSnapshots = 2  MaxRequests = 2
    MaxCrashes = 1  MaxFaults = 2
    Owners = {o1, o2}  o1 = o1  Missions = {m1, m2}  History = 1
    MaxChanges = 3  MaxLosses = 1  MaxMoves = 1
INVARIANTS NoLostUpdate OpenedWhole WatchesWake
CHECK_DEADLOCK FALSE
