SPECIFICATION MCSpec
CONSTANTS
  A = A B = B dashboard = dashboard cli = cli web = web
  push1 = push1 close1 = close1
  None = None NoRun = NoRun NoCommit = NoCommit
  Releases = {A}
  Clients = {}
  LocalClients = {}
  Gated = {}
  NamedGates = {}
  AutoRollback = {}
  Cancellable = {}
  Handlers = {}
  Faults = {}
  MaxRollbacks = 0
  MaxOperations = 1
  LastSlot = 2
  MaxRuns = 2
  Tickers = {web}
  Commands = {cli}
  Plans <- MCPlans
  RunAttempts = 2
  CatchUpLimit = 10
  MaxMishaps = 0
  Commits = {A}
  Pushes = {push1}
  Closings = {close1}
  CommitOf <- MCCommitOf
  Callers = {web}
  MaxIncidents = 0
  MaxBackups = 1
  MaxPoints = 0
  KeepLast = 1
  KeepDays = 0
  DayOf <- MCDayOf
  Restorable = {}
  Dashboard = dashboard
  Shells = {}
  ShellAsks = {}
  MaxUpsets = 0
  Rules <- MCRules
  MaxSends = 1
  MaxSamples = 1
  MaxTouches = 0
PROPERTY DispatchIsDeduplicated
CHECK_DEADLOCK FALSE
