SPECIFICATION Spec
CONSTANTS
  Team = {t1, t2, t3}
  Root = Root
  Unborn = Unborn
  Gone = Gone
  Req = {r1, r2}
  Editors = {r1, r2}
SYMMETRY Symmetric
INVARIANTS
  Acyclic
