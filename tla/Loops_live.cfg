SPECIFICATION MCSpec
CONSTANTS
  l0 = l0 l1 = l1 l2 = l2 j1 = j1 j2 = j2 j3 = j3 cap1 = cap1 cap2 = cap2 web = web cli = cli
  NoJob = NoJob Nobody = Nobody
  Lanes = {l0, l1, l2}
  Coordinator = l0
  Jobs = {j1, j2, j3}
  Remote = {j2, j3}
  Limit = 2
  ClaimErrors = {l0, l1, l2}
  LateErrors = {l0, l1, l2}
  Caps = {cap1, cap2}
  Equipped = {cap1}
  Loops = {web, cli}
  Unleased = {}
  Slow = {}
  RowIds = {1}
  MaxTroubles = 2
INVARIANTS TypeOK SpendTypeOK CyclesExclusive ActiveIsInForce
PROPERTIES DueWorkStarts StopSettles OverspendIsAnswered
CHECK_DEADLOCK FALSE
