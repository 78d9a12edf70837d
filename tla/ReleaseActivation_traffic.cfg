SPECIFICATION Spec
CONSTANTS
  A = A B = B C = C dashboard = dashboard cli = cli
  None = None
  Releases = {A, B, C}
  Clients = {dashboard}
  LocalClients = {dashboard}
  Gated = {}
  NamedGates = {}
  AutoRollback = {}
  Cancellable = {}
  Handlers = {1}
  Faults = {}
  MaxRollbacks = 1
  MaxOperations = 4
INVARIANT TrafficIsRecorded
CHECK_DEADLOCK FALSE
