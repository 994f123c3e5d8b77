SPECIFICATION Spec
CONSTANTS
    Nodes = {n1}
    Tokens = {t1}
    Agents = {a1, a2}
    NoAgent = NoAgent
    NoRow = NoRow
    Idle = Idle
    Jobs = {j1, j2}
    Reapers = {r1}
    Requests <- EnrollmentOnly
    TokenTTL = 2
    StaleAfter = 1
    OfflineAfter = 2
    MaxTime = 1
    LastRequest = 1
    MaxFaults = 0
INVARIANT TokenRedeemedOnce
CHECK_DEADLOCK FALSE
