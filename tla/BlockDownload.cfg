SPECIFICATION Spec
CONSTANTS
    Nodes = {a, b}
    LocalNodes = {b}
    Hashes = {h1, h2}
    h1 = h1
    Ancestors <- MCAncestors
    NoNode = none
    MaxInTransit = 1
    MaxQueue = 1
    BanScore = 2
INVARIANTS
    Bookkeeping
    NoDoubleRequest
PROPERTIES
    WantedUntilReceived
