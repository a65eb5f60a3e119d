CONSTANTS
  PollTimeout = 12
  Backoff = 1
  StartUp = 13
  Interval = 6
  Retries = 3
SPECIFICATION FairSpec
INVARIANTS TypeOK StaleMeansTwoFailures
PROPERTIES UnhealthyMeansTrouble ComesToTruth
