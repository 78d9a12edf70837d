SPECIFICATION Spec
CONSTANTS
  a = a b = b t = t l1 = l1 l2 = l2 c1 = c1 c2 = c2 w1 = w1 w2 = w2 k1 = k1
  project = project build = build
  NoOp = NoOp NoKey = NoKey NoWorker = NoWorker
  Ops = {a, b}
  Lanes = {l1, l2}
  Clients = {c1, c2}
  Recoverers = {c1}
  Workers = {w1, w2}
  WorkerOf <- OwnWorker
  Keys = {k1}
  LockKey <- MCLockKey
  Scopes = {project}
  ScopesOf <- MCScopesOf
  Limit <- MCLimit2
  MaxAttempts <- MCMaxAttemptsA
  Rank <- MCRank
  Window = 2
  Requeue = {a}
  Retryable = {a}
  Keyed = {b}
  Cancellable = {a}
  Delayed = {}
  Clearable = {}
  Tracked = {}
  Stalling = {}
  Crashing = {w1, c1}
CONSTRAINT RetriesUndisturbed
INVARIANTS HandlersExclusive ExecutionIsCovered AttemptsBounded
PROPERTIES CancelledNeverStarts RecoveryKeepsCancellation
CHECK_DEADLOCK FALSE
