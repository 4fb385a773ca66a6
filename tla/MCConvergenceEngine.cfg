CONSTANTS
    hL = hL
    hA = hA
    hB = hB
    sL = sL
    s1 = s1
    s2 = s2
    s3 = s3
    s4 = s4
    n1 = n1
    n2 = n2
    outside = outside
    fr = fr
    Hosts <- MCHosts
    Subnets <- MCSubnets
    LocalSubnet = sL
    NetOf <- MCNetOf
    Outside = outside
    SingleIP <- MCSingleIP
    Foreign <- MCForeign
    Lists <- MCLists
    InitKernels <- MCInitKernels
    MaxChanges = 2
    MaxFaults = 2
SPECIFICATION Spec
INVARIANTS
    TypeOK
PROPERTIES
    EventuallyConverged
