CONSTANTS
    p1 = p1
    p2 = p2
    a = a
    b = b
    rej = rej
    c1 = c1
    c2 = c2
    absent = absent
    nobody = nobody
    none = none
    Clients <- MCClients
    Rules <- MCRules
    Reject = rej
    Absent = absent
    Builtins = 3
    NoClient = nobody
    NoResult = none
    MaxCalls = 2
    MaxFailures = 1
    Names <- MCOneChain
    InitTables <- MCLongChain
    Ops <- MCOps
SPECIFICATION Spec
INVARIANT
    DeleteAfterRuleNumNeverPanics
