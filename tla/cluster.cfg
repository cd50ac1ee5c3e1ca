SPECIFICATION Spec
CONSTANTS
    n1 = n1
    n2 = n2
    w1 = w1
    w2 = w2
    m1 = m1
    m2 = m2
    Msgs = {m1}
    Nodes = {n1, n2}
    Workers = {w1}
    NoMsg = NoMsg
    Configured <- Uneven
    Logged <- Both
    Redeliver = TRUE
    Limit = 2
    ManualRedelivery = TRUE
    MapRaces <- NoRaces
    MaxTries = 3
    MaxIdent = 3
    MaxFaults = 2
INVARIANTS
    TypeOK
    SingleOwner
    OwnerFindsRecord
    FailedIsLive
    CountInv
PROPERTIES
    ImplementsLedger
    OnlyDeathLoses
    NotGivenUpEarly
