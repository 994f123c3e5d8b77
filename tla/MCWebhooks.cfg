SPECIFICATION FairSpec
CONSTANTS
    network = network
    node = node
    Writers = {w1}
    Kinds <- MCKinds
    Filter <- MCFilter
    Idle = Idle
    NoRow = NoRow
    SerialInserts = TRUE
    Subs = {s1}
    BatchSize = 2
    MaxFailures = 2
    SecretsSurvive = FALSE
    MaxChanges = 3
    MaxFaults = 1
INVARIANTS TypeOK CursorHonest DedupByMaxIsSafe DisabledIsEarned
PROPERTY DeliveredOrDisabled
CHECK_DEADLOCK FALSE
