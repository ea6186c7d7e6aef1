SPECIFICATION OneAtATimeSpec
CONSTANTS
  r1 = r1
  r2 = r2
  s1 = s1
  s2 = s2
  Item = {1, 2, 3, 4}
  Scope = {s1, s2}
  Unborn = Unborn
  Gone = Gone
  Req = {r1}
  NoReq = NoReq
  Creators = {}
  Transferable = TRUE
  Interruptible = FALSE
PROPERTIES
  NoChangeOnlyAtTheEdge
