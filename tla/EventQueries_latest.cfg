SPECIFICATION ApiSpec
CONSTANTS
    Events = {1, 2}
    MaxRetries = 1
    Mine = {1, 2}
    Questions = {1}
    WithConcepts = {2}
    Sufficient = 2
    NaN = NaN
    PageSize = 1
PROPERTIES
    LatestAreLatest
