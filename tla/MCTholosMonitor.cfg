CONSTANTS
  Deployments <- BothDeployments
  Lookback = 1
  FailuresBeforeAlert = 2
  MaxConcurrency = 2
  MaxAttempts = 2
  PageLimit = 1
  MaxPages = 2
  Retention = 3
  MaxLedger = 4
  MaxFaults = 3
SPECIFICATION Spec
INVARIANTS TypeOK NoSilentSkip NoRepeatAfterSave StreakAnnounced
PROPERTIES EveryEventAccounted RecoveryAnnounced
