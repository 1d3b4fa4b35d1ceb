SPECIFICATION Spec
CONSTANTS
    c1 = c1
    c2 = c2
    m1 = m1
    Nobody = Nobody
    Copies = {c1, c2}
    Messages = {m1}
    MessageFacts <- MentionOnly
    MaxSends = 2
    MaxParts = 1
INVARIANTS NeverDropped
CHECK_DEADLOCK FALSE
