SPECIFICATION FairSpec
CONSTANTS
    n1 = n1
    n2 = n2
    w1 = w1
    w2 = w2
    m1 = m1
    m2 = m2
    Msgs = {m1, m2}
    Nodes = {n1}
    Workers = {w1}
    NoMsg = NoMsg
    Configured <- Both
    Logged <- ApnsOnly
    Redeliver = TRUE
    Limit = 2
    ManualRedelivery = FALSE
    MapRaces <- NoRaces
    MaxTries = 3
    MaxIdent = 6
    MaxFaults = 0
INVARIANTS
    LimitInv
    TriesWithinLimit
PROPERTIES
    EventuallySettled
