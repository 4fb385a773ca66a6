CONSTANTS
    c1 = c1
    c2 = c2
    a1 = a1
    a2 = a2
    noRules = noRules
    Containers <- MCContainers
    ASGRules <- MCASGRules
    NoRules = noRules
    NoChain = 0
    HasGuid <- MCHasGuid
    MaxGen = 3
    MaxUpdates = 2
    MaxFailures = 2
SPECIFICATION Spec
INVARIANTS
    TypeOK
    BookkeepingMatchesKernel
    AppLogsAnnounceInstalledRules
PROPERTIES
    ASGConverges
