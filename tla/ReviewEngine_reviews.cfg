SPECIFICATION Spec
CONSTANTS
    Repos <- EdgeRepos
    Values <- EdgeValues
    MaxChanges = 3
CHECK_DEADLOCK FALSE
INVARIANTS
    SentencesTraced
    ReasonsMatchVerdict
    ReasonsHaveFixes
PROPERTIES
    PracticePays
