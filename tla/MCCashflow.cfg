\* The Mother's session beside the seed script's.
CONSTANTS
    m1 = m1
    seed = seed
    NoCap = NoCap
    Scale = 1
    Sessions <- MotherAndSeed
    Writers <- OneWriter
    Floor = 2
    Amounts = {1, 2}
    Inflows = {4}
    SignedTransfers = {1}
    ReserveCaps <- MaybeCapped
    TrailingRevenues = {0, 10}
    MaxBalance = 4
SPECIFICATION Spec
INVARIANTS
    TypeOK
    GrowthNeverNegative
    LedgerBalanced
PROPERTIES
    OperatingFloorHeld
    
