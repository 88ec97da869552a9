SPECIFICATION FairSpec
CONSTANTS
    Assets = {btc}
    MaxQueue = 1
    FeedMax = 2
    HistoryMax = 1
    MaxOpens = 2
INVARIANTS
    TypeOK
    OwnAnchor
    AnchoredOnce
    CompleteMeansAnchored
    PendingExplained
PROPERTIES
    KeepsLedger
    KeepsServing
    ShutdownEnds
