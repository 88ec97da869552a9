SPECIFICATION Spec
CONSTANTS
    Bps = 1
    TakerBps = 0
    Assets = {btc, eth}
    Marks = {4, 6}
    Times = {0}
    Rates = {0}
    Slips = {0}
    Plans <- UnitOrStandDown
    MaxPositions = 2
    MaxNotional = 12
    MaxExposure = 10
    StartingBalance = 0
    HistoryMax = 2
    MaxDecisions = 2
    MaxOpens = 2
SYMMETRY AssetSymmetry
INVARIANTS
    TypeOK
    BooksAgree
    TradesAccountedFor
    InsideLevels
    AnswerKnowsBook
PROPERTY
    ExposureWithinCap
