CONSTANTS
  JobTimeout = 14
  MaxWait = 3
  RequestTimeout = 5
  MinAttempt = 2
  Margin = 2
  MaxAttempts = 3
  BaseDelay = 1
  Slack = 1
SPECIFICATION FairSpec
INVARIANTS
  TypeOK
  ThreadStops
PROPERTIES
  ScoredReviewIsKept
  ThreadEnds
