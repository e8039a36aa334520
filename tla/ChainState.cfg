SPECIFICATION Spec
CONSTANTS
    g = g  x = x  a1 = a1  a2 = a2  a3 = a3  b1 = b1  b2 = b2  b3 = b3  c2 = c2
    c0 = c0  ca = ca  t1 = t1  t2 = t2  t3 = t3  s1 = s1  s2 = s2
    Blocks <- MCBlocks
    Genesis = g
    NoBlock = noblock
    Parent <- MCParent
    Chain <- MCChain
    Height <- MCHeight
    Trust <- MCHeight
    Txs <- MCTxs
    NoTx = notx
    BlockTxs <- MCBlockTxs
    Inputs <- MCInputs
    Generated = {c0, ca}
    Maturity = 1
    Malformed = {}
    Unacceptable = {}
    WrongPayee = {a2}
    Stake <- MCStake
    NoStake = nostake
    BlockTime <- MCHeight
    Span = 1
    MaxOrphans = 1
    Lockable <- MCLockable
INVARIANTS
    LedgerReplaysBestChain
    LinksFollowChain
    EveryTxOnce
    MemoryMatchesDatabase
    HeaviestIsBest
    NoStuckOrphan
    OrphanStakesLive
    PoolConsistent
PROPERTIES
    Resurrection
    CommitsOneChain
