SPECIFICATION FeedSpec
CONSTANTS
    Coins = {btc, eth}
    Poller = poller
    Callers <- Threads
    Nobody = nobody
    TTL = 2
    MaxTime = 2
    MaxWorkers = 2
    Sources = {"rest", "ws"}
    Punctual = FALSE
CHECK_DEADLOCK FALSE
INVARIANTS
    FeedTypeOK
    OneRequest
    BoardFresh
PROPERTIES
    Atomic
    RoundsEnd
    CloseEnds
