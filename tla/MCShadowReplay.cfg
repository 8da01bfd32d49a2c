SPECIFICATION Spec
CONSTANTS
  r1 = r1
  w1 = w1
  w2 = w2
  Replays = {r1}
  Workers = {w1, w2}
  Nobody = Nobody
  NoReplay = NoReplay
  LeaseTicks = 1
  Upsets = {"crash", "fault", "slow"}
  MaxUpsets = 2
INVARIANTS
  OneExecutionPerReplay
  AttemptsAreExplained
PROPERTIES
  ReplaysEnd
