\* Three children, two channels, a revenue for the first rung and one for the third.
\* The lives of the children are one day long: the gate does not look at them.
CONSTANTS
    polar = polar
    stripe = stripe
    Children = {c1, c2, c3}
    Sweepers = {}
    Days = {0}
    Spends = {}
    Revenues = {}
    MaxMoney = 0
    MonthlyBudget = 1
    Deadline = 14
    Day30Target = 1
    MaxBurn = 1
    NoChild = NoChild
    Channels = {polar, stripe}
    Clients <- TwoClients
    JsonClients = {polar}
    Cycles = {k1, k2}
    RevenueLevels = {50, 500}
    NoChannel = NoChannel
SYMMETRY ChildCycleSymmetry
SPECIFICATION ExpansionSpec
INVARIANTS
    ExpansionTypeOK
PROPERTIES
    CapByOverlapOnly
    TwoShareAtMost
    TwoChannelsAnswered
