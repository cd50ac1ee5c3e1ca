SPECIFICATION Spec
CONSTANTS
    n1 = n1
    n2 = n2
    w1 = w1
    w2 = w2
    m1 = m1
    m2 = m2
    Msgs = {m1, m2}
    Nodes = {n1}
    Workers = {w1, w2}
    NoMsg = NoMsg
    Configured <- Both
    Logged <- ApnsOnly
    Redeliver = TRUE
    Limit = 2
    ManualRedelivery = TRUE
    MapRaces <- NoRaces
    MaxTries = 3
    MaxIdent = 6
    MaxFaults = 0
INVARIANTS
    AloneInv
    MainNeverDies
    NothingLost
SYMMETRY SymmetricMsgs
