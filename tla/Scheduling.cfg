SPECIFICATION SchedulingSpec
CONSTANTS
    MaxTeam = 3
    Bound = 1
    Grace = 1
    MaxFailures = 2
    MaxPauses = 2
    a = a
    b = b
    None = None
INVARIANTS NothingUnpublished NoSilence
PROPERTIES WholeRotation MembersReached
CHECK_DEADLOCK FALSE
