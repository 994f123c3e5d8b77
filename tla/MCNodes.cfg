SPECIFICATION FairSpec
CONSTANTS
    Nodes = {n1}
    Tokens = {t1}
    Agents = {a1, a2}
    NoAgent = NoAgent
    NoRow = NoRow
    Idle = Idle
    Jobs = {j1, j2}
    Reapers = {r1}
    Requests <- AllRequests
    TokenTTL = 1
    StaleAfter = 1
    OfflineAfter = 2
    MaxTime = 3
    LastRequest = 1
    MaxFaults = 1
INVARIANTS TypeOK OnlyRedeemersOnline RedeemedTokenIsSpent
PROPERTIES EnrolledStaysEnrolled SilentNodeGoesOffline
CHECK_DEADLOCK FALSE
