SPECIFICATION Spec
CONSTANTS
    general = general
    radio = radio
    ann = ann
    bob = bob
    cat = cat
    s1 = s1
    s2 = s2
    s3 = s3
    NoPlay = NoPlay
    Nothing = Nothing
    Conversations = {general, radio}
    Users = {ann, bob, cat}
    Songs = {s1, s2}
    SkipThreshold = 2
    Levels <- SomeLevels
    Overlapping = TRUE
    Failing = TRUE
    MaxToken = 1
SYMMETRY Interchangeable
INVARIANTS TypeOK TokensAreUnique OnlyErrorsStall NoSongTwice VotesAreForCurrent
CHECK_DEADLOCK FALSE
