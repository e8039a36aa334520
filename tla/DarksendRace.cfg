SPECIFICATION Spec
CONSTANTS
    c1 = c1  c2 = c2  c3 = c3
    Clients <- MCClients
    PoolMax = 2
    QueueTimeout = 2
    SigningTimeout = 1
    Lag = 1
    Preemption = TRUE
    MaxStarts = 3
    MaxFaults = 1
CONSTRAINT InOrder
INVARIANTS
    HonestNotCharged
