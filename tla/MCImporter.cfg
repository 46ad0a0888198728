CONSTANTS
  Downloads = {1}
  Fetchers = {f1}
  Ticker = ticker
  MaxConcurrent = 1
  MaxRetries = 2
  CancelTimesOut = FALSE
  Retention = FALSE
  MaxRequests = 0
  MaxRestarts = 1
  Life <- StallingLife
  FastPolls = TRUE
  Dated = TRUE
  StaleAnswers = TRUE
  Watchdog = TRUE
SPECIFICATION FairLateSpec
INVARIANT RefreshTypeOK
PROPERTIES EveryFinishedSettles OnlyRacesUndo
