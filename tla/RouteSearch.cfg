SPECIFICATION Spec
CONSTANTS
    StopCounts = {0, 2}
    PlaceQueries = 1
    MaxResults = 2
    MaxCandidates = 3
    MaxRouteProviderCalls = 4
    MaxHttpAttempts = 12
    MaxConcurrent = 2
    MaxAttempts = 2
    Width = 2
    Height = 3
    Unit = 2
    NearWater = 1
    NearBuilt = 1
    Gap = 3
    MaxSamples = 5
    Target = 10
    MaxOverlaps = {82}
    Grids <- MCGrids
    Geometries <- MCGeometries
    Preferences <- MCPreferences
    Searches <- MCSearches
    RouteSets <- MCRouteSets
    Overlaps <- MCOverlaps
INVARIANTS
    PoolSound
    CompleteIsComplete
    FailureJustified
PROPERTIES
    FeaturesExact
    ChoicesBest
    AbandonedPlansSendNothing
    RefusedOnlyAfterRetry
    AbortedPlanReportsAbort
    PlanEnds
