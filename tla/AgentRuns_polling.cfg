\* One open section with two polls in flight, and three runs: safety, liveness.
SPECIFICATION FairSpec
CONSTANTS
    Clients = {c1}
    MaxRuns = 3
    MaxCalls = 2
INVARIANTS
    ShownHappened
PROPERTIES
    PollingEnds
CHECK_DEADLOCK FALSE
