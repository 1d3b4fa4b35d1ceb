SPECIFICATION FairSpec
CONSTANTS
    t1 = t1
    Turns = {t1}
    Kinds <- BothKinds
    Timeout = 6
    Reserve = 3
    FlushMax = 2
    StartMax = 1
    ReadTimeout = 8
    ReadyPolls = 2
INVARIANTS TypeOK NeverAbandons ChatReturns
PROPERTIES KeepsDispatch EveryTurnEnds
CHECK_DEADLOCK FALSE
