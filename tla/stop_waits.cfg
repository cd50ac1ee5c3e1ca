SPECIFICATION Spec
CONSTANTS
    c1 = c1
    c2 = c2
    Conns = {c1, c2}
    Uuids = {"u1", "u2"}
    Strings = {"u1", "u2", "text", "uuid", "msg", "tag"}
    Characters <- CharactersUsed
    Words <- WordsUsed
    Requests <- SomeRequests
    Garbled <- OneRequest
    Fragile = {c2}
    MaxBegun = 1
    ApiWorkers = 2
    BufferSize = 6
    Sizes = 64
    NoRequest = NoRequest
INVARIANTS
    StopWaits
CHECK_DEADLOCK FALSE
