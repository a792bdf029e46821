\* Everything the service promises, with a restart and a prompt that is replaced.
CONSTANTS
    Reviewers = {r1, r2, r3}
    Subjects = {s1}
    Prompts = {p1, p2}
    Replies = {"approve", "reject", "no JSON"}
    MaxRestarts = 1
    None = None
SPECIFICATION FairSpec
INVARIANTS
    TypeOK
    SingleFlight
    RejectedNotConsulted
PROPERTIES
    PromiseKept
    RejectFinal
    EveryReviewEnds
