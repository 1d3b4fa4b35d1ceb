SPECIFICATION Spec
CONSTANTS
    Calls = {call}
    Words = {cat, dog}
    Scores <- SomeScores
    Names <- SomeNames
    UsCode <- AnUsCode
    UsStates <- SomeUsStates
    MaxResults = 2
    MaxBits = 3
    MaxDepth = 3
INVARIANTS AsAsked ToldWhatHappened PlaceIsBest IntegersStaySmall
PROPERTY ImplementsLookups
CHECK_DEADLOCK FALSE
