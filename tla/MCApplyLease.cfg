SPECIFICATION LeaseFairSpec
CONSTANTS
    o1 = o1
    o2 = o2
    o3 = o3
    Owners <- MCOwners
    NoOwner = NoOwner
    TTL = 2
    MaxTime = 5
INVARIANTS LeaseExclusive LeaseBacked
PROPERTIES CrashedLeaseEnds OnlyOwnerEndsLiveLease
CHECK_DEADLOCK FALSE
