CONSTANTS
  Names = {n1, n2, n3}
  Intervals = {0, 2}
  Keeps = {1}
  OnRequest = TRUE
  Restores = TRUE
  MaxUsed = 1
SPECIFICATION FairBackupSpec
INVARIANTS BackupTypeOK NoHistoryLost PruneTradesUp TimerFollowsInterval
PROPERTY BackupsGoOn
