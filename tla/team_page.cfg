SPECIFICATION SeededSpec
CONSTANTS
  t1 = t1
  t2 = t2
  r1 = r1
  Team = {t1, t2}
  Goal = {1, 2, 3}
  Unborn = Unborn
  Gone = Gone
  NoTeam = NoTeam
  NoPlace = NoPlace
  Req = {r1}
  MaxWrites = 2
INVARIANTS
  TypeOK
  ChoiceStands
  UntouchedShownExactly
  EditsReachTheirTeam
PROPERTIES
  OrderOnlyByMoves
  CreationForms
