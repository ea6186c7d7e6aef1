SPECIFICATION Spec
CONSTANTS
  Metric = {0, 1, 2, 4}
  KRPercent = {40, 70}
  StageWeight = {30, 80}
  Weights <- SomeWeights
  MaxCheckpoints = 2
  MaxStages = 2
INVARIANTS
  TypeOK
  ProgressBounded
  CheckpointsMet
  GoalInBetween
  FormKeepsMarks
PROPERTIES
  ProgressNeverLost
