SPECIFICATION FairSpec
CHECK_DEADLOCK FALSE
CONSTANTS
  x = x
  y = y
  z = z
  none = none
  Subjects = {"short ring", "drained", "crashing", "read", "answers", "stop", "delivery"}
PROPERTIES
  EverythingArrives
  CallsReturn
