\* Both events are the user's, of different types; one retry makes up to four
\* documents; a page may be full or not, and the secondary behind or not.
SPECIFICATION FairApiSpec
CONSTANTS
    Events = {1, 2}
    MaxRetries = 1
    Mine = {1, 2}
    Questions = {1}
    WithConcepts = {2}
    Sufficient = 2
    NaN = NaN
    PageSize = 3
INVARIANTS
    ApiTypeOK
    CountBounds
PROPERTIES
    ReadinessAnswers
    ReadyForGood
    StatsWithinPage
    EveryRequestAnswered
