SPECIFICATION Spec
CONSTANTS
  s1 = s1
  s2 = s2
  stranger = stranger
  common = common
  t1 = t1
  Strategies = {s1, s2}
  Foreign = stranger
  Common = common
  Tickers = {t1}
  MarginUnit <- MCMarginUnit
  Requests <- LedgerRequests
  TradePrices = {1, 2, 3}
  InitBook <- MCInitBook
  InitAccount <- MCInitAccount
  BrokerAccounts = {}
  SendMayFail = TRUE
  MaxOrders = 2
  RspRingSize = 2
  MaxAccepts = 1
  MaxVolume = 2
INVARIANT PositionAsserts
