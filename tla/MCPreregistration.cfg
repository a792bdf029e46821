\* Two preregistrations and two sessions, with a threshold that the column rounds.
CONSTANTS
    Ids = {p1, p2}
    Sessions = {s1, s2}
    Thresholds = {10, 14}
    Observations = {12}
    Quantum = 10
    Encoders = {first, second}
    MaxEdits = 2
    None = None
\* When every preregistration is deleted and no change is left, nothing can happen.
CHECK_DEADLOCK FALSE
SPECIFICATION Spec
INVARIANTS
    TypeOK
    RowsAsRegistered
    ValidMeansRegistered
    AlarmExplained
