SPECIFICATION RelaySpec
CONSTANTS
    g = g  h = h  t1 = t1  t2 = t2  t3 = t3  u1 = u1  u2 = u2
    Txs = {g, h, t1, t2, t3, u1, u2}
    NoTx = notx
    NullHash = nullhash
    Inputs <- MCInputs
    Confirmed = {g, h}
    Peers = {}
    Retry = 1
    MaxDue = 1
    MAX_ORPHAN_TRANSACTIONS = 2
INVARIANTS
    PoolIndexExact
    OrphanIndexExact
