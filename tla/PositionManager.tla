-------------------------- MODULE PositionManager --------------------------
(***************************************************************************)
(* PositionManager and the PositionCalculator it keeps for every strategy  *)
(* and for the common pool.  A position book maps a pool, a ticker and a   *)
(* side ("buy" is long_pos, "sell" is short_pos) to a PositionDetail.      *)
(* cost_price and float_pnl are valuation only and are left out.           *)
(***************************************************************************)
EXTENDS TradeMsg

CONSTANT Common   \* kCommonPosPool

ASSUME PoolAssumption == Common \notin StrategyIds /\ Foreign \notin Strategies

Pools == Strategies \union {Common}

PositionDetail ==
  [holdings : Int, yd : Int, openPending : Int, closePending : Int]

PositionBook == [Pools -> [Tickers -> [Directions -> PositionDetail]]]

(* FindCalculator: a strategy that is not configured shares the common     *)
(* pool, while GetPosition finds nothing for it.                           *)
FindCalculator(strategy) == IF strategy \in Strategies THEN strategy ELSE Common

PendingDetail(d, offset, changed) ==
  IF IsOffsetClose(offset)
  THEN [d EXCEPT !.closePending = @ + changed]
  ELSE [d EXCEPT !.openPending = @ + changed]

AtMost(a, b) == IF a <= b THEN a ELSE b

(* Fault: a closing trade forgets the pending volume.                      *)
TradedKeepsClosePending(d, offset, traded) ==
  IF IsOffsetClose(offset)
  THEN [d EXCEPT !.holdings = @ - traded]
  ELSE [d EXCEPT !.openPending = @ - traded, !.holdings = @ + traded]

(* Yesterday's holdings are used up first by a close or close_yesterday    *)
(* order, and never exceed what is left.                                   *)
TradedDetail(d, offset, traded) ==
  LET left == d.holdings - traded
      yd   == IF offset \in {"close", "close_yesterday"}
              THEN d.yd - AtMost(d.yd, traded) ELSE d.yd
  IN  IF IsOffsetClose(offset)
      THEN [d EXCEPT !.closePending = @ - traded, !.holdings = left,
                     !.yd = AtMost(left, yd)]
      ELSE [d EXCEPT !.openPending = @ - traded, !.holdings = @ + traded]

(* Fault: the side of a close order is not turned around.                  *)
UpdateTradedSameSide(book, req, traded) ==
  [book EXCEPT ![FindCalculator(req.strategy)][req.ticker][req.direction] =
     TradedDetail(@, req.offset, traded)]

UpdatePending(book, req, changed) ==
  [book EXCEPT ![FindCalculator(req.strategy)][req.ticker][SideOf(req)] =
     PendingDetail(@, req.offset, changed)]

UpdateTraded(book, req, traded) ==
  [book EXCEPT ![FindCalculator(req.strategy)][req.ticker][SideOf(req)] =
     TradedDetail(@, req.offset, traded)]

(* Fault: close orders under way are not counted.                          *)
AvailableHoldings(book, req) ==
  IF req.strategy \in Strategies
  THEN book[req.strategy][req.ticker][SideOf(req)].holdings ELSE 0

(* What PositionRisk may let a close order take: nothing when GetPosition  *)
(* does not know the strategy.                                             *)
Available(book, req) ==
  IF req.strategy \in Strategies
  THEN LET d == book[req.strategy][req.ticker][SideOf(req)]
       IN  d.holdings - d.closePending
  ELSE 0

(* The assertions at the end of UpdatePending and UpdateTraded.            *)
DetailAsserts(d) == d.holdings >= 0 /\ d.openPending >= 0 /\ d.closePending >= 0

=============================================================================
