CONSTANTS
    AddrBits = 5
    h1 = h1
    h2 = h2
    h3 = h3
    none = none
    Hosts <- MCHosts
    Single <- MCSingle
    Configs <- MCConfigs
    InitConfig <- C1
    None = none
    MaxRetries = 1
    MaxChanges = 1
    MaxFaults = 2
SPECIFICATION Spec
INVARIANTS
    TypeOK
    RunningDaemonsDisjoint
PROPERTIES
    DaemonsRunOnTheirLeases
