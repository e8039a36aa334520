SPECIFICATION Spec
CONSTANTS
    a1 = a1  a2 = a2
    Nodes = {m, n}
    Master = m
    Alphanodes = {a1, a2}
    Donors = {a1}
    Score <- MCScore
    Ahead = 1
    Behind = 1
    Further = 2
    MaxHeight = 4
    MaxArriving = 0
    MaxFaults = 2
INVARIANTS
    WinnerIsFurthest
    PayeesAgree
    NobodyForgotten
