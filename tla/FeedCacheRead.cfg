SPECIFICATION FeedSpec
CONSTANTS
    Coins = {btc}
    Poller = poller
    Callers <- Threads
    Nobody = nobody
    TTL = 5
    MaxTime = 6
    MaxWorkers = 1
    Sources = {"ws"}
    Punctual = TRUE
CHECK_DEADLOCK FALSE
INVARIANTS
    FetchIsCacheRead
