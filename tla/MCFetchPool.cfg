CONSTANTS
  Downloads = {1, 2}
  Fetchers = {f1, f2}
  Ticker = ticker
  MaxConcurrent = 1
  MaxRetries = 2
  CancelTimesOut = TRUE
  Retention = TRUE
  MaxRequests = 1
  MaxRestarts = 0
SPECIFICATION PoolSpec
SYMMETRY FetcherSymmetry
INVARIANTS PoolTypeOK PoolWithinLimit OneFetchPerDownload ReadyHasFiles CancelWaits
PROPERTY ImplementsSlots
