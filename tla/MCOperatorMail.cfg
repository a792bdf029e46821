\* Four mails, with pushes delivered again, failures and crashes.
CONSTANTS
    m1 = m1
    m2 = m2
    m3 = m3
    m4 = m4
    Mails = {m1, m2, m3, m4}
    Text <- Letters
SPECIFICATION FairSpec
INVARIANTS
    TypeOK
    HandedOnce
    LostByFailureOnly
    NothingAddedToSubject
PROPERTIES
    EveryMailRead
CHECK_DEADLOCK FALSE
