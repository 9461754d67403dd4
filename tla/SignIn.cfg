SPECIFICATION Spec
CONSTANTS
  Profiles = {q1, q2}
  NoProfile = NoProfile
  Workers = {w1, w2}
  MaxAttempts = 2
  MaxCodes = 2
INVARIANTS AcceptedAtMostSent GuessBudget AccountWasOffered
PROPERTY LoginUnblocked
CHECK_DEADLOCK FALSE
