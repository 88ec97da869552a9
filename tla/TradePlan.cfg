SPECIFICATION Spec
CONSTANTS
    Assets <- Coins
    Tier <- TierOf
    Venue <- VenueOf
    Rates <- SomeRates
    Atrs <- SomeAtrs
    Scales <- SomeScales
    Equities <- SomeEquities
    HoldHours = 24
    MaxLeverages <- SomeCeilings
CHECK_DEADLOCK FALSE
INVARIANTS
    TypeOK
    CrisisStandsDown
    StopBeforeLiquidation
    DragBounded
