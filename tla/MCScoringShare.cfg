SPECIFICATION GradeSpec
CONSTANTS
  CaseCounts = {1, 2, 3}
  GroupIds = {"a"}
  Omitted = Omitted
  Modes <- SumMode
  CasePoints <- OnlyOmitted
  GroupPoints <- OnlyHundred
  Above = {}
  FullPoints <- HundredPoints
  Reports <- WorkerReports
INVARIANTS
  AllAcceptedScoreFull
