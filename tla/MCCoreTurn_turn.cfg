SPECIFICATION FairSpec
CONSTANTS
    Chains <- SomeChains
    MaxCalls = 2
INVARIANTS TypeOK ModelSeesTheTail GivesUpLate FreshCardWins
PROPERTY EveryTurnAnswered
CHECK_DEADLOCK FALSE
