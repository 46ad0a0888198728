CONSTANTS
  Downloads = {1, 2}
  Fetchers = {f1, f2}
  Ticker = ticker
  MaxConcurrent = 1
  MaxRetries = 1
  CancelTimesOut = FALSE
  Retention = FALSE
  MaxRequests = 0
  MaxRestarts = 1
SPECIFICATION FairPoolSpec
PROPERTY EveryDueSettles
