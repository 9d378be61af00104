SPECIFICATION Spec
CONSTANTS
    w1 = w1
    w2 = w2
    a1 = a1
    a2 = a2
    b1 = b1
    MaxJob = 1
    Workers = {w1}
    Lanes = {a1}
    WorkerOf <- OneLane
    Pollers = {}
    Shas = {s1}
    NoSha = NoSha
    GuardAfter = 0
    StaleAfter = 0
INVARIANTS
    CommittedStaysCompleted
