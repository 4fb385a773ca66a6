CONSTANTS
    i1 = i1
    i2 = i2
    l1 = l1
    l2 = l2
    none = none
    Instances <- MCInstances
    Leases <- MCLeases
    NoCIDR = none
    Custom <- MCCustom
    MaxAttempts = 5
    MaxCalls = 2
    MaxChanges = 1
    MaxFailures = 5
SPECIFICATION Spec
\* A plugin invocation ends after its calls: the system stops.
CHECK_DEADLOCK FALSE
INVARIANTS
    TypeOK
    GivesUpOnlyAfterMaxAttempts
