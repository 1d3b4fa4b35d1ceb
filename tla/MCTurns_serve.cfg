SPECIFICATION FairSpec
CONSTANTS
    Calls = {a, b}
    MaxRedirects = 2
    Providers = 2
    Difficulties = {any}
    MaxList = 2
    MaxDraws = 3
    Limit = 3
    MaxLength = 7
    Texts <- SomeTexts
INVARIANTS TypeOK FetchIsBounded SearchIsHonest StaleCountCorrectsItself PartsAreTheAnswer
PROPERTY DeferredIsFollowedUp
