\* Two calls in flight against the same balance.
CONSTANTS
    m1 = m1
    c1 = c1
    c2 = c2
    NoCap = NoCap
    NoBudget = NoBudget
    Unlimited = Unlimited
    Idle = Idle
    Scale = 1
    Sessions <- MotherOnly
    Writers <- MotherOnly
    Floor = 50
    LowWater = 100
    Amounts = {80}
    Inflows = {}
    SignedTransfers = {}
    ReserveCaps = {}
    TrailingRevenues = {}
    MaxBalance = 120
    Callers <- TwoCallers
    ClientSession = m1
    SessionShared = FALSE
    Requests <- SmallRequests
    Answers <- ExpectedAnswers
    Budgets <- NoBudgets
    MaxBilled = 30
SPECIFICATION LLMSpec
INVARIANTS
    PaidForAboveFloor
