SPECIFICATION Spec
CONSTANTS
  j1 = j1
  j2 = j2
  w1 = w1
  w2 = w2
  Jobs = {j1, j2}
  Judges = {w1, w2}
  Nobody = Nobody
  NoLease = NoLease
  Speaks <- MCSpeaks
  RunJobs = {j2}
  FullMarks = {j1}
  CaseCount = 2
  CaseVerdicts = {"AC", "WA", "IE"}
  MaxAttempts = 2
  LeaseTicks = 1
INVARIANTS
  SubmissionAgrees
  RowsFromOwner
PROPERTIES
  FinalStable
  ImplementsLifecycle
