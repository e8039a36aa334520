SPECIFICATION FairSpec
CONSTANTS
    Nodes = {a}
    LocalNodes = {}
    Hashes = {h1, h2, h3}
    h1 = h1
    Ancestors <- MCAncestors
    NoNode = none
    MaxInTransit = 2
    MaxQueue = 2
    BanScore = 1
PROPERTIES
    QueuedIsServed
    StallerIsDropped
