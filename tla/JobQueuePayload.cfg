SPECIFICATION Spec
CONSTANTS
  Workers = {w1, w2}
  Callers = {c1}
  Jobs = {j1, j2, j3}
  Asks <- RefreshAsks
  Offered <- RefreshOffered
  FollowUps <- RefreshFollowUps
  MaxAttempts = 2
  MaxFaults = 0
  MaxStops = 0
  NoJob = NoJob
  NoAsk = NoAsk
  NoOne = NoOne
INVARIANT NothingAskedIsLost
