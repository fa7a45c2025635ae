CONSTANTS
  u1 = u1
  u2 = u2
  u3 = u3
  PartPuts = {u2, u3}
  Completes = {c1, c2}
  Aborts = {}
  Janitors = {}
  PartNo <- MCPartNo
  Content <- MCContent
  Wants <- MCWants
  Parts = {1, 2}
  Faults = {}
  Old = Old
  None = None
SPECIFICATION Spec
INVARIANTS CompletionKeepsItsParts
CHECK_DEADLOCK FALSE
