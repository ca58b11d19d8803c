SPECIFICATION FairSpec
CHECK_DEADLOCK FALSE
CONSTANTS
  Subjects = {"patient target", "refused target", "rate", "emergency", "tasks", "ticking", "backtest", "answering", "live"}
INVARIANTS
  NeverTooMuch
  AtMostLimit
  NoLateOrder
PROPERTIES
  TasksRunWhenDue
  EveryoneIsServed
