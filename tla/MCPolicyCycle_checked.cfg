CONSTANTS
    r1 = r1
    r2 = r2
    none = none
    Planners <- MCPlanners
    Rules <- MCRules
    NoRules = none
    MaxUpdates = 2
    MaxFailures = 2
    EnforceFaults = FALSE
    LastUpdatedCheck = TRUE
SPECIFICATION Spec
PROPERTY
    PolicyCacheConverges
