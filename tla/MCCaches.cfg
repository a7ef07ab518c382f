CONSTANTS
  Parts = {"quota", "catalog", "version"}
  FiveHour = five
  Weekly = week
  Period <- MCPeriod
  Thresholds <- MCThresholds
  Steps = 2
  Ttl = 2
  Retry = 2
  FetchLimit = 1
  FallbackCool = 1
  MaxUsers = 1
  NoReading = NoReading
  Accounts = {a}
  Boot = boot
  Nothing = Nothing
  Allowed = {api, web}
  Foreign = {other}
  MaxRedirects = 3
  MaxRelease = 2
  NoVersion = NoVersion
SPECIFICATION Spec
INVARIANTS CachesSound
PROPERTIES QuotaIsHeeded BetterIsKept EveryoneGoesOn
CHECK_DEADLOCK FALSE
