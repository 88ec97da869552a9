SPECIFICATION Spec
CONSTANTS
    Assets = {btc}
    MaxQueue = 1
    FeedMax = 3
    HistoryMax = 1
    MaxOpens = 1
INVARIANT
    LatestRowVerifies
