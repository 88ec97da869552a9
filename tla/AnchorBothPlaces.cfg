SPECIFICATION Spec
CONSTANTS
    Assets = {btc, eth}
    MaxQueue = 1
    FeedMax = 3
    HistoryMax = 1
    MaxOpens = 2
SYMMETRY AssetSymmetry
INVARIANT
    BothPlaces
