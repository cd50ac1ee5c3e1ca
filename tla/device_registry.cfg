SPECIFICATION Spec
CONSTANTS
    d1 = d1
    d2 = d2
    x1 = x1
    x2 = x2
    b1 = b1
    b2 = b2
    w1 = w1
    w2 = w2
    f1 = f1
    f2 = f2
    Stranger = Stranger
    NoText = NoText
    Devices = {d1, d2}
    Tokens = {x1, x2}
    Texts = {x1, x2, b1, b2}
    Base64 <- Encoded
    UuidTexts = {b2}
    Workers = {w1, w2}
    Feeds = {f1}
    Deregister = {}
    Logged = {}
    MaxFaults = 1
INVARIANTS
    TypeOK
    RegistryInv
    OwnTokenOnly
PROPERTIES
    RemovedWhenAnswered
    LeaversListed
SYMMETRY SymmetricThreads
