SPECIFICATION Spec
CONSTANTS
  a = a b = b t = t l1 = l1 l2 = l2 c1 = c1 c2 = c2 w1 = w1 w2 = w2 k1 = k1
  project = project build = build
  NoOp = NoOp NoKey = NoKey NoWorker = NoWorker
  Ops = {a, t}
  Lanes = {l1, l2}
  Clients = {c1}
  Recoverers = {c1}
  Workers = {w1}
  WorkerOf <- OneWorker
  Keys = {k1}
  LockKey <- MCLockKey
  Scopes = {project}
  ScopesOf <- MCScopesOf
  Limit <- MCLimit1
  MaxAttempts <- MCMaxAttempts
  Rank <- MCRank
  Window = 1
  Requeue = {a}
  Retryable = {a}
  Keyed = {}
  Cancellable = {}
  Delayed = {a}
  Clearable = {a, t}
  Tracked = {t}
  Stalling = {l1, l2}
  Crashing = {}
CONSTRAINT HistoryUndisturbed
INVARIANTS TypeOK LeasedIffRunning LimitsRespected
PROPERTIES ImplementsLifecycle
CHECK_DEADLOCK FALSE
