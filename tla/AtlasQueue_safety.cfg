SPECIFICATION Spec
CONSTANTS
    w1 = w1
    w2 = w2
    a1 = a1
    a2 = a2
    b1 = b1
    MaxJob = 2
    Workers = {w1, w2}
    Lanes = {a1, b1}
    WorkerOf <- LanePerWorker
    Pollers = {p1}
    Shas = {s1}
    NoSha = NoSha
    GuardAfter = 0
    StaleAfter = 0
INVARIANTS
    QueueInvariant
    ExclusiveExecution
    TimedOutNeverRan
    CompletedHasResult
PROPERTIES
    UnheldOutcomeIsFinal
    ImplementsLifecycle
