SPECIFICATION Spec
CONSTANTS
  Parts = {"plugin", "agents", "login", "device", "config"}
  Invocations = {i1, i2}
  Enabled = {i1, i2}
  Interval = 2
  LongestRefresh = 5
  Horizon = 9
  NoOne = NoOne
  Sessions = {s}
  Turns = {t1, t2, t3}
  Lookups = {k1, k2, k3}
  MaxDeleted = 1
  None = None
  Logins = {l1, l2, l3}
  Hosts = {h1, h2}
  NoLogin = NoLogin
  Adverse = {}
  Intervals = {1, 2, 4, 8}
  LongestGap = 6
  Margin = 1
  Patience = 20
  HttpTimeout = 3
  Starts = {p1, p2}
  Nothing = Nothing
  Torn = Torn
  Template <- MCTemplate
  Documents <- MCDocuments
  Environments <- MCEnvironments
  MaxEdits = 1
CHECK_DEADLOCK FALSE
INVARIANTS
  ProcessSound
  LoginIsServed
PROPERTIES
  SchedulersServe
  DeviceKeepsTime
  NoStaleRole
  ConfigurationIsTheUsers
  LoginsSettle
