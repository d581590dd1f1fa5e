SPECIFICATION Spec
CONSTANTS
  Manager = {m1, m2}
  Frame = {f1, f2, f3}
INVARIANTS
  QueueWhileNeeded
  AnsweredOnce
PROPERTY CutLeavesNothing
CHECK_DEADLOCK FALSE
