SPECIFICATION Spec
CONSTANTS
    Assets = {btc, eth, sol}
    Kinds = {"rule", "gemini"}
    MaxFills = 6
CHECK_DEADLOCK FALSE
INVARIANTS
    TypeOK
    EntersFresh
PROPERTIES
    OnlyShrinks
    LoopRuns
    CallsEnd
    OneInstant
