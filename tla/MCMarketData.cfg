SPECIFICATION Spec
CHECK_DEADLOCK FALSE
CONSTANTS
  Subjects = {"minutes", "bars", "order book", "dates", "times"}
INVARIANTS
  BarsAreMinutes
  LevelsAreOrders
  DaysAddUp
