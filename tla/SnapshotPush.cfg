SPECIFICATION Spec
CONSTANTS
    MaxStarts = 2
CHECK_DEADLOCK FALSE
INVARIANTS
    TypeOK
    NeverPartial
    TradeFlushed
PROPERTIES
    Published
    ShutdownEnds
