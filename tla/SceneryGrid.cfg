SPECIFICATION Spec
CONSTANTS
    Plans <- MCPlans
    Ids <- MCIds
    Choices <- MCChoices
    Windows = {"A", "B", "C"}
    Asks <- MCAsks
    Disturbed = {"p"}
    Deployments = {TRUE, FALSE}
    RequestTtl = 1
    MaxRequestGrids = 2
    CacheTtl = 2
    MaxCachedGrids = 2
    BucketTtl = 1
    MaxTime <- MCMaxTime
INVARIANTS
    TypeOK
    PlansIsolated
    AgeBounded
PROPERTIES
    OneGridPerPlan
    FreshWindowNotReread
