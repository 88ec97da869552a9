SPECIFICATION Spec
CONSTANTS
    Bps = 10
    TakerBps = 1
    Assets = {btc}
    Marks = {4, 6}
    Times = {0, 1}
    Rates <- SignedRates
    Slips = {1}
    Plans <- UnitPlan
    MaxPositions = 1
    MaxNotional = 12
    MaxExposure = 14
    StartingBalance = 0
    HistoryMax = 2
    MaxDecisions = 1
    MaxOpens = 2
INVARIANTS
    TradeRowsAddUp
    FundingChargedOnce
PROPERTY
    TradingCosts
