\* Two submissions, a link, every request failing or not.
SPECIFICATION FairSpec
CONSTANTS
    MaxJob = 2
    MaxPolls = 3
    HasLink = TRUE
    None = None
    Linked = Linked
INVARIANTS
    TrackedIsAwaited
    CompletedShowsReport
PROPERTIES
    SubmissionEnds
CHECK_DEADLOCK FALSE
