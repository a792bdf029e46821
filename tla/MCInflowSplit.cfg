CONSTANTS
    Scale = 4
    NoCap = NoCap
    MaxAmount = 240
    Balances = {0, 3}
    Rooms = {0, 1, 4}
SPECIFICATION SweepSpec
INVARIANTS
    SplitConserves
    CapsRespected
    SharesNearest
    OperatingSharePositive
CHECK_DEADLOCK FALSE
