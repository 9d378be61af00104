\* Two submissions, no link.
SPECIFICATION FairSpec
CONSTANTS
    MaxJob = 2
    MaxPolls = 3
    HasLink = FALSE
    None = None
    Linked = Linked
PROPERTIES
    EverySubmissionEnds
CHECK_DEADLOCK FALSE
