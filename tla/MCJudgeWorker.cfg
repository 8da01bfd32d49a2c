SPECIFICATION WSpec
CONSTANTS
  j1 = j1
  w1 = w1
  w2 = w2
  Jobs = {j1}
  Judges = {w1, w2}
  Nobody = Nobody
  NoLease = NoLease
  NoJob = NoJob
  Speaks <- MCSpeaks
  RunJobs = {}
  FullMarks = {j1}
  CaseCount = 2
  CaseVerdicts = {"AC", "WA"}
  MaxAttempts = 2
  LeaseTicks = 1
  Upsets = {"crash", "restart", "fault", "rejudge"}
  MaxUpsets = 2
SYMMETRY Symmetry
INVARIANTS
  OneExecutionPerVerdict
  ClaimsAreExclusive
