SPECIFICATION Spec
CONSTANTS
  s1 = s1
  s2 = s2
  b1 = b1
  b2 = b2
  b3 = b3
  Subs = {s1, s2}
  Backends = {b1, b2, b3}
  Free = Free
  MaxClaims = 2
  MaxRejudges = 1
SYMMETRY Symmetry
INVARIANTS
  CallbacksNeverDeadlock
  StatsFollowVerdicts
PROPERTIES
  AnnouncedIsDone
