SPECIFICATION Spec
CHECK_DEADLOCK FALSE
CONSTANTS
  stranger = stranger
  common = common
  t1 = t1
  Subjects = {"simple", "advanced"}
INVARIANTS
  RestsUntilItEnds
  CountersAreResting
PROPERTIES
  QueueIsFair
