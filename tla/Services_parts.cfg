SPECIFICATION MCSpec
CONSTANTS
  FailureLists <- MCFailureLists
  PatchSizes = {4, 25, 250}
  EngineModes = {"suggest_only", "branch_patch", "auto_apply"}
  AutoApplySets = {{"format_violation", "lint_failure"}, {"renamed_symbol", "auth_logic", "broken_import"}}
  MaxProposals = 3
  Workers = {w1}
  Jobs = {j1, j2}
  StaleAfter = 1
  AlertAfter = 1
  GuardAfter = 1
  StaleJobAfter = 2
  FailureAlert = 2
  MaxTime = 3
  Calls = {c1, c2}
  BURST_LIMIT = 2
  BURST_WINDOW = 2
  DAILY_LIMIT = 3
  DAILY_WINDOW = 5
  MaxRequests = 6
SYMMETRY MCSymmetry
INVARIANTS
  AutoAppliedIsSafe
  ConfidenceIsEarned
  FreshIsRecent
  UnservedIsNoticed
  LimitsAreBounded
\* Each part may stop: everything is decided, gone, or asked.
CHECK_DEADLOCK FALSE
