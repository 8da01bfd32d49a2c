SPECIFICATION Spec
CONSTANTS
  a = a
  b = b
  u = u
  v = v
  Contests = {a, b}
  Users = {u, v}
  StartOf <- MCStart
  EndOf <- MCEnd
  ByEnd <- MCByEnd
  Excluded = {}
  Lowest <- MCLowest
  Highest <- MCHighest
  Initial = 5
  Top = 99
  Elo <- MCElo
  SimpleElo <- MCSimpleElo
  Tasks = {"t1", "t2"}
  NoRating = NoRating
  FirstPoints <- MCPoints
  Horizon = 2
  MaxScore = 1
  MaxUpsets = 2
CHECK_DEADLOCK FALSE
INVARIANTS
  AnnouncedOnce
PROPERTIES
  RatingsAreFinal
  DueEnds
