CONSTANTS
  u1 = u1
  u2 = u2
  u3 = u3
  PartPuts = {u1, u2, u3}
  Completes = {c1}
  Aborts = {}
  Janitors = {j1}
  PartNo <- MCPartNo
  Content <- MCContent
  Wants <- MCWants
  Parts = {1, 2}
  Faults = {"body", "store", "disconnect", "crash"}
  Old = Old
  None = None
SPECIFICATION Spec
INVARIANTS TypeOK PreviousVersionIntact UndisturbedCompletionIsExact PartRowsAreStored
CHECK_DEADLOCK FALSE
