SPECIFICATION MCSpec
CONSTANTS
  A = A B = B dashboard = dashboard cli = cli web = web
  push1 = push1 close1 = close1
  None = None NoRun = NoRun NoCommit = NoCommit
  Releases = {A, B}
  Clients = {cli}
  LocalClients = {}
  Gated = {A}
  NamedGates = {A}
  AutoRollback = {B}
  Cancellable = {A}
  Handlers = {1, 2}
  Faults = {"crash", "resolver", "half_done"}
  MaxRollbacks = 1
  MaxOperations = 3
  LastSlot = 2
  MaxRuns = 2
  Tickers = {web}
  Commands = {cli}
  Plans <- MCPlans
  RunAttempts = 2
  CatchUpLimit = 10
  MaxMishaps = 1
  Commits = {A}
  Pushes = {push1}
  Closings = {close1}
  CommitOf <- MCCommitOf
  Callers = {web}
  MaxIncidents = 2
  MaxBackups = 3
  MaxPoints = 3
  KeepLast = 1
  KeepDays = 2
  DayOf <- MCDayOf
  Restorable = {1}
  Dashboard = dashboard
  Shells = {cli}
  ShellAsks = {"cleanup"}
  MaxUpsets = 1
  Rules <- MCRules
  MaxSends = 2
  MaxSamples = 4
  MaxTouches = 1
INVARIANTS TypeOK OneActive JobsTypeOK MarkedRunsAreQueued DeadIsFinal
INVARIANTS PreviewTypeOK DestroyedMeansGone AnsweredDeliveriesHaveWork
INVARIANTS BackupTypeOK RetainedPointsRemain AvailableIsStored
INVARIANTS AlertTypeOK IncidentsAreTold
PROPERTIES SuccessIsReal ProtectionHolds
CHECK_DEADLOCK FALSE
