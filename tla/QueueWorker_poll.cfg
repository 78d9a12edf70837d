SPECIFICATION Spec
CONSTANTS
  l0 = l0 l1 = l1 l2 = l2 a = a b = b c = c
  NoJob = NoJob
  Lanes = {l0, l1}
  Coordinator = l0
  Jobs = {a, b}
  Remote = {b}
  Limit = 2
  ClaimErrors = {}
  LateErrors = {}
INVARIANT IdleLanesPoll
CHECK_DEADLOCK FALSE
