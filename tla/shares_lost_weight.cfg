SPECIFICATION MCSharedSpec
CONSTANTS
  r1 = r1
  r2 = r2
  t1 = t1
  t2 = t2
  t3 = t3
  Team <- MCTeam
  NoTeam = NoTeam
  NoShare = NoShare
  Weight = {0, 1}
  Status = {"in_progress"}
  Req = {r1, r2}
  Requests <- StaleRequests
  Interruptible = FALSE
PROPERTIES
  SharedEditIsolated
