SPECIFICATION FairSpec
CONSTANTS
    o = o  p1 = p1  p2 = p2
    Nodes <- Line
    Owner = o
    Peers <- LinePeers
    MinDsee = 1
    MinDseep = 2
    Expiration = 7
    Removal = 8
    MaxFaults = 2
INVARIANTS
    NeverFresherThanSigned
    LiveNeverExpires
PROPERTIES
    SilentLeaves
    LiveIsKnown
