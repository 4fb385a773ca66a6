CONSTANTS
    AddrBits = 5
    RangeAddrs = {0, 3, 8, 16, 24}
    e1 = e1
    e2 = e2
    ip1 = ip1
    ip2 = ip2
    bad = bad
    noName = noName
    err = err
    Ifaces <- MCIfaces
    IPs <- MCIPs
    Bad = bad
    NoName = noName
    Err = err
SPECIFICATION Spec
INVARIANTS
    BlockPoolSizeMatchesReference
    SingleIPPoolSizeMatchesReference
    PoolCandidatesDisjointAndInside
    LocateMatchesReference
