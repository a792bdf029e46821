\* Two children, of whom one lives up to the day after its thirtieth, with refunds.
CONSTANTS
    Children = {c1, c2}
    Sweepers = {k1}
    Days = {0, 14, 30, 31}
    Spends <- SpendAndRefund
    Revenues <- RevenueAndRefund
    MaxMoney = 2
    MonthlyBudget = 2
    Deadline = 14
    Day30Target = 2
    MaxBurn = 1
    NoChild = NoChild
SYMMETRY ChildSymmetry
CONSTRAINT PolicyOrSweep
SPECIFICATION Spec
INVARIANTS
    TypeOK
    SweepComplete
    OrdersStand
