SPECIFICATION Spec
CONSTANTS
    Assets = {btc, eth}
    Kinds = {"gemini"}
    MaxFills = 4
CHECK_DEADLOCK FALSE
INVARIANTS
    CoherentView
