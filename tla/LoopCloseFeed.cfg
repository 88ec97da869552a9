SPECIFICATION Spec
CONSTANTS
    Bps = 1
    TakerBps = 0
    Assets = {btc}
    Marks = {4, 6}
    Times = {0}
    Rates = {0}
    Slips = {0}
    Plans <- UnitPlan
    MaxPositions = 1
    MaxNotional = 12
    MaxExposure = 14
    StartingBalance = 0
    HistoryMax = 2
    MaxDecisions = 2
    MaxOpens = 2
INVARIANT
    ClosesSurface
