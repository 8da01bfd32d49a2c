SPECIFICATION TimelySpec
CONSTANTS
  j1 = j1
  w1 = w1
  w2 = w2
  Jobs = {j1}
  Judges = {w1, w2}
  Nobody = Nobody
  NoLease = NoLease
  NoJob = NoJob
  Speaks <- MCSpeaks
  RunJobs = {}
  FullMarks = {j1}
  CaseCount = 1
  CaseVerdicts = {"AC", "WA"}
  MaxAttempts = 2
  LeaseTicks = 2
  Upsets = {"crash", "rejudge"}
  MaxUpsets = 3
CHECK_DEADLOCK FALSE
PROPERTIES
  EventuallySettled
  AbandonedIsFreed
