\* Two tasks and the rest of the process share the session; rows hold even amounts.
CONSTANTS
    m1 = m1
    c1 = c1
    c2 = c2
    NoCap = NoCap
    NoBudget = NoBudget
    Unlimited = Unlimited
    Idle = Idle
    Scale = 2
    Sessions <- MotherOnly
    Writers <- MotherOnly
    Floor = 50
    LowWater = 100
    Amounts = {60}
    Inflows = {}
    SignedTransfers = {}
    ReserveCaps = {}
    TrailingRevenues = {}
    MaxBalance = 120
    Callers <- TwoCallers
    ClientSession = m1
    SessionShared = TRUE
    Requests <- OpusRequests
    Answers <- LongAnswers
    Budgets <- SomeBudgets
    MaxBilled = 12
SYMMETRY CallerSymmetry
SPECIFICATION LLMSpec
INVARIANTS
    LLMTypeOK
PROPERTIES
    RefusalsExplained
