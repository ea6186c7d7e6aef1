SPECIFICATION Spec
CONSTANTS
  r1 = r1
  r2 = r2
  Value = {0, 1}
  NoValue = NoValue
  NotDone = 0
  Req = {r1}
  Requests <- ProjectForms
  MaxSent = 2
  Interruptible = FALSE
INVARIANTS
  ProjectHasStages
CHECK_DEADLOCK FALSE
