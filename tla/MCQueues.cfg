SPECIFICATION Spec
CHECK_DEADLOCK FALSE
CONSTANTS
  x = x
  y = y
  z = z
  none = none
  Subjects = {"ring", "full", "overwriting", "paused", "crashing", "append", "merge", "pages", "stream", "links"}
INVARIANTS
  NoSharedSlot
  ReadsWhatWasWritten
  PagesAreCounted
PROPERTIES
  QueuesAreFifo
