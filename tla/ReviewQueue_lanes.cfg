SPECIFICATION Spec
CONSTANTS
    w1 = w1
    w2 = w2
    a1 = a1
    b1 = b1
    j1 = j1
    j2 = j2
    NoJob = NoJob
    JobIds = {j1, j2}
    Workers = {w1, w2}
    Lanes = {a1, b1}
    WorkerOf <- LanePerWorker
    Pollers = {}
    Shas = {s1, s2}
    NoSha = NoSha
    GuardAfter = 0
    StaleAfter = 0
INVARIANTS
    ReviewInvariant
    JobAgreesWithReview
    CommentTellsOutcome
PROPERTIES
    ImplementsLifecycle
SYMMETRY JobSymmetry
