SPECIFICATION Spec
CONSTANTS
    n1 = n1
    n2 = n2
    w1 = w1
    w2 = w2
    m1 = m1
    m2 = m2
    Msgs = {m1}
    Nodes = {n1, n2}
    Workers = {w1}
    NoMsg = NoMsg
    Configured <- ApnsOnly
    Logged <- ApnsOnly
    Redeliver = TRUE
    Limit = 2
    ManualRedelivery = FALSE
    MapRaces <- NoRaces
    MaxTries = 4
    MaxIdent = 4
    MaxFaults = 0
PROPERTIES
    TakenIsSkipped
