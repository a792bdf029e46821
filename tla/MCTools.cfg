\* Two tools, one of high risk by its own account and one that the policy escalates.
CONSTANTS
    q1 = q1
    q2 = q2
    Requests = {q1, q2}
    Ask <- Asked
    Decisions = {"approve", "reject"}
    None = None
SPECIFICATION Spec
INVARIANTS
    TypeOK
    RegisteredHasCode
    RunsTestedCode
    HighRiskReviewed
