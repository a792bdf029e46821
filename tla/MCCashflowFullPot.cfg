\* Inflows that meet a pot above its cap.
CONSTANTS
    m1 = m1
    seed = seed
    NoCap = NoCap
    Scale = 1
    Sessions <- OneWriter
    Writers <- OneWriter
    Floor = 2
    Amounts = {1}
    Inflows = {4}
    SignedTransfers = {}
    ReserveCaps <- MaybeCapped
    TrailingRevenues = {0, 10}
    MaxBalance = 8
SPECIFICATION Spec
INVARIANTS
    EveryInflowBalanced
