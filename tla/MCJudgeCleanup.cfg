SPECIFICATION MaintenanceSpec
CONSTANTS
  j1 = j1
  w1 = w1
  w2 = w2
  Jobs = {j1}
  Judges = {w1, w2}
  Nobody = Nobody
  NoLease = NoLease
  NoJob = NoJob
  Speaks <- MCSpeaks
  RunJobs = {}
  FullMarks = {j1}
  CaseCount = 1
  CaseVerdicts = {"AC"}
  MaxAttempts = 2
  LeaseTicks = 1
  Upsets = {"crash"}
  MaxUpsets = 2
CHECK_DEADLOCK FALSE
PROPERTIES
  OfflineSubmissionsRequeued
