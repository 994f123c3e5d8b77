SPECIFICATION FairSpec
CONSTANTS
    o1 = o1
    o2 = o2
    a = a
    b = b
    m1 = m1
    s1 = s1
    s2 = s2
    Owners <- MCOwners
    Nodes <- MCNodes
    Mtus <- MCMtus
    Services <- MCServices
    MemberLists <- MCMemberLists
    InitialIntents <- MCServedIntents
    OutsideViews <- MCOutsideViews
    NoOwner = NoOwner
    NoService = NoService
    NoPort = NoPort
    AlteredPort = AlteredPort
    NoView = NoView
    NoCall = NoCall
    TTL = 1
    MaxTime = 1
    MaxTroubles = 1
PROPERTY EveryApplyEnds
CHECK_DEADLOCK FALSE
