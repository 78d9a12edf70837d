SPECIFICATION MCSpec
CONSTANTS
  l0 = l0 l1 = l1 l2 = l2 j1 = j1 j2 = j2 j3 = j3 cap1 = cap1 cap2 = cap2 web = web cli = cli
  NoJob = NoJob Nobody = Nobody
  Lanes = {l0}
  Coordinator = l0
  Jobs = {j1}
  Remote = {}
  Limit = 1
  ClaimErrors = {}
  LateErrors = {}
  Caps = {cap1}
  Equipped = {}
  Loops = {web, cli}
  Unleased = {}
  Slow = {}
  RowIds = {1}
  MaxTroubles = 2
PROPERTY LiftedCapsReturn
CHECK_DEADLOCK FALSE
