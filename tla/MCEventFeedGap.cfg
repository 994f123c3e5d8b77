SPECIFICATION FeedSpec
CONSTANTS
    network = network
    node = node
    Writers = {w1, w2}
    Kinds <- MCKinds
    NetworkKinds <- MCNetworkKinds
    Idle = Idle
    SerialInserts = FALSE
    PageLimit = 2
    MaxChanges = 2
    MaxResyncs = 0
INVARIANT NothingMissed
CHECK_DEADLOCK FALSE
