SPECIFICATION Spec
CONSTANTS
  Team = {t1, t2, t3, t4, t5}
  Root = Root
  Unborn = Unborn
  Gone = Gone
  Req = {r1, r2}
  Editors = {r1}
SYMMETRY Symmetric
INVARIANTS
  ParentsLive
  Acyclic
  AllListed
  ChecksStillHold
  WalkFindsDescendants
PROPERTIES
  ImplementsForest
