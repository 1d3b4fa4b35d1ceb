SPECIFICATION FairSpec
CONSTANTS
    c1 = c1
    c2 = c2
    m1 = m1
    Nobody = Nobody
    Copies = {c1, c2}
    Messages = {m1}
    MessageFacts <- SomeKinds
    MaxSends = 2
    MaxParts = 2
INVARIANTS TypeOK NoSilentDrop AuditIsTrue
PROPERTIES HeardIsAnswered KeepsPromise
CHECK_DEADLOCK FALSE
