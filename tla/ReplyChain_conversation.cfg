SPECIFICATION Spec
CONSTANTS
    MaxTurns = 2
    MaxMessages = 4
    MaxParts = 2
INVARIANTS TypeOK HistoryIsTheChain HarnessAgrees
CHECK_DEADLOCK FALSE
