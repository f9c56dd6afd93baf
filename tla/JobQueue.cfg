SPECIFICATION FairSpec
CONSTANTS
  Workers = {w1, w2}
  Callers = {c1}
  Jobs = {j1, j2}
  Asks <- CrawlAsks
  Offered <- CrawlOffered
  FollowUps <- CrawlFollowUps
  MaxAttempts = 2
  MaxFaults = 1
  MaxStops = 1
  NoJob = NoJob
  NoAsk = NoAsk
  NoOne = NoOne
INVARIANTS TypeOK ExclusiveRun AttemptsSpent KeysAreServed
PROPERTIES JobsSettle AsksAreServed
