SPECIFICATION PolledSpec
CONSTANTS
    w1 = w1
    w2 = w2
    a1 = a1
    a2 = a2
    b1 = b1
    MaxJob = 2
    Workers = {w1}
    Lanes = {a1}
    WorkerOf <- OneLane
    Pollers = {p1}
    Shas = {s1}
    NoSha = NoSha
    GuardAfter = 1
    StaleAfter = 1
PROPERTIES
    QueuedEnds
    EveryJobEnds
