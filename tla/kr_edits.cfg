SPECIFICATION Spec
CONSTANTS
  r1 = r1
  r2 = r2
  Value = {0, 1}
  NoValue = NoValue
  NotDone = 0
  Req = {r1, r2}
  Requests <- AllRequests
  MaxSent = 4
  Interruptible = TRUE
SYMMETRY Slots
INVARIANTS
  TypeOK
  DataOfItsKind
PROPERTIES
  EditTakesEffect
  ProgressTakesEffect
  OnlyItsKeyResult
CHECK_DEADLOCK FALSE
