SPECIFICATION FairSpec
CONSTANTS
    c1 = c1  c2 = c2  c3 = c3
    Clients <- MCClients
    PoolMax = 2
    QueueTimeout = 2
    SigningTimeout = 1
    Lag = 1
    Preemption = FALSE
    MaxStarts = 3
    MaxFaults = 1
CONSTRAINTS
    InOrder
    FailsInCompany
INVARIANTS
    TypeOK
    SignedMeansLocked
    HonestNotCharged
PROPERTIES
    SessionsEnd
    CoinsComeBack
