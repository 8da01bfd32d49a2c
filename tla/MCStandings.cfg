SPECIFICATION StandingsSpec
CONSTANTS
  p1 = p1
  p2 = p2
  u1 = u1
  Participants = {u1}
  Verdicts <- MCVerdicts
  Allowance <- MCAllowance
  Duration = 3
  FreezeAt = 1
  ProblemList <- MCProblemList
  ProblemPoints <- MCProblemPoints
  Groups = {"a", "b"}
  GroupIds = {"a", "b"}
  CaseCounts = {2}
  Modes = {"sum", "min"}
  CasePoints <- MCCasePoints
  GroupPoints <- MCGroupPoints
  FullPoints <- MCFullPoints
  Above <- MCAbove
  Reports <- MCReports
  MaxCases = 200
  Archives <- MCArchives
  Programs <- MCPrograms
  JobKinds <- MCJobs
  BuildSpecs <- MCBuildSpecs
  MaxFaults = 3
  MaxCrashes = 1
  MaxJobs = 2
  WrongPenalty = 20
  Tries = 1
  Format = "ioi"
  Outcomes <- MCOutcomes
  MaxSubmissions <- MCLimits
  RefreshFails = TRUE
  Nobody = Nobody
  Unrated = Unrated
  Omitted = Omitted
CHECK_DEADLOCK FALSE
INVARIANTS
  FaultsDecideNothing
  PublishedIsComplete
  ModelSolutionPasses
  AcceptedIffFull
  SolvedIsSolved
  FrozenNeverOverstates
  NeverOvercredited
PROPERTIES
  AcceptingNeverCosts
