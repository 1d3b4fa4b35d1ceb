SPECIFICATION FairSpec
CONSTANTS
    After = 10
    Lifetime = 10
    Refresh = 5
    Pause = 2
    MaxCall = 2
    MaxPhases = 2
INVARIANTS TypeOK PauseIsSeen NeverLapses
PROPERTY CheckpointIsServed
