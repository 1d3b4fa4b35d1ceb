SPECIFICATION FairSpec
CONSTANTS
    general = general
    radio = radio
    ann = ann
    bob = bob
    cat = cat
    s1 = s1
    s2 = s2
    s3 = s3
    NoPlay = NoPlay
    Nothing = Nothing
    Conversations = {general}
    Users = {ann, bob}
    Songs = {s1, s2, s3}
    SkipThreshold = 1
    Levels <- NoLevels
    Overlapping = FALSE
    Failing = TRUE
    MaxToken = 2
PROPERTIES PlaysInTurn QueuedIsHeard
CHECK_DEADLOCK FALSE
