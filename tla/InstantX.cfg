SPECIFICATION FairSpec
CONSTANTS
    r1 = r1  r2 = r2  o1 = o1  o2 = o2  m1 = m1  m2 = m2  m3 = m3
    Txs = {r1, r2}
    NoTx = notx
    Outpoints = {o1, o2}
    Inputs <- MCInputs
    LockHeight <- MCLockHeight
    Alphanodes = {m1, m3}
    Score <- MCScore
    Self = m3
    Votes <- MCVotes
    Required = 1
    Total = 1
    Own = {r1}
INVARIANTS
    VotesCountedOnce
    DecidedOnce
    AcceptedLockHasQuorum
PROPERTIES
    CompletedLocksAll
    LocksAreATable
    AcceptedLocksEnd
