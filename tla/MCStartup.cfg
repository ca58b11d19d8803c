SPECIFICATION FairSpec
CHECK_DEADLOCK FALSE
CONSTANTS
  Subjects = {"ctp contracts", "xtp contracts", "ctp queries", "ctp errors", "xtp answered", "xtp queries", "restart", "failing store", "two restarts"}
INVARIANTS
  ContractsReachTable
  QueriesDoNotMix
  PositionsAreBrokers
  HoldingsAreRecovered
PROPERTIES
  StartupSettles
