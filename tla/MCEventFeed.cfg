SPECIFICATION FairFeedSpec
CONSTANTS
    network = network
    node = node
    Writers = {w1, w2}
    Kinds <- MCKinds
    NetworkKinds <- MCNetworkKinds
    Idle = Idle
    SerialInserts = TRUE
    PageLimit = 1
    MaxChanges = 3
    MaxResyncs = 1
INVARIANTS FeedTypeOK NothingMissed CaughtUpIsCurrent
PROPERTY PublishedBecomesKnown
CHECK_DEADLOCK FALSE
