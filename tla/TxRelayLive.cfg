SPECIFICATION RelayFairSpec
CONSTANTS
    g = g  h = h  t1 = t1  t2 = t2  t3 = t3  u1 = u1  u2 = u2
    Txs = {g, t1}
    NoTx = notx
    NullHash = nullhash
    Inputs <- MCInputs
    Confirmed = {g}
    Peers = {p, q}
    Retry = 1
    MaxDue = 1
    MAX_ORPHAN_TRANSACTIONS = 1
PROPERTIES
    AnnouncedIsAsked
