SPECIFICATION FairSpec
CHECK_DEADLOCK FALSE
CONSTANTS
  Subjects = {"ctp orders", "ctp sessions", "ctp login", "xtp orders", "xtp fills", "stub", "ctp quotes", "xtp quotes", "ctp quote login"}
INVARIANTS
  ReportsAreSound
  CancelFindsOrder
  QuotesAreKept
PROPERTIES
  CallsReturn
