------------------------------ MODULE RiskRules ------------------------------
(***************************************************************************)
(* The rules the risk management system runs for every order: fund,        *)
(* position and self trade, in the order of the configuration.  They read  *)
(* and write the account and the position book the trader owns, and read   *)
(* its order map.                                                          *)
(***************************************************************************)
EXTENDS PositionManager

CONSTANT MarginUnit   \* contract size times margin rate, by ticker and direction

ASSUME MarginAssumption == MarginUnit \in [Tickers -> [Directions -> Nat]]

Account == [totalAsset : Int, cash : Int, margin : Int, frozen : Int]

(* Money tied up by v lots of an order at price p.  The rate is that of    *)
(* the order's own direction, for close orders too.                        *)
MarginOf(req, v, p) == v * (p * MarginUnit[req.ticker][req.direction])

-----------------------------------------------------------------------------
(* FundRisk.  A close order neither freezes nor releases frozen money.     *)

FundAllows(account, req) ==
  IsOffsetClose(req.offset) \/ 11 * account.cash >= 10 * MarginOf(req, req.volume, req.price)

FundSent(account, req) ==
  LET changed == MarginOf(req, req.volume, req.price)
  IN  IF IsOffsetOpen(req.offset)
      THEN [account EXCEPT !.cash = @ - changed, !.frozen = @ + changed]
      ELSE account

(* Fault: what was frozen is released at the price of the trade.           *)
FundTradedAtTradePrice(account, req, volume, price) ==
  LET margin == MarginOf(req, volume, price)
  IN  IF IsOffsetOpen(req.offset)
      THEN [account EXCEPT !.frozen = @ - margin, !.margin = @ + margin]
      ELSE [account EXCEPT !.cash = @ + margin,
                           !.margin = IF @ - margin < 0 THEN 0 ELSE @ - margin]

FundTraded(account, req, volume, price) ==
  LET released == MarginOf(req, volume, req.price)
      margin   == MarginOf(req, volume, price)
  IN  IF IsOffsetOpen(req.offset)
      THEN [account EXCEPT !.frozen = @ - released, !.margin = @ + margin,
                           !.cash = @ + (released - margin)]
      ELSE [account EXCEPT !.cash = @ + margin,
                           !.margin = IF @ - margin < 0 THEN 0 ELSE @ - margin]

(* Fault: frozen money is released but not given back.                     *)
FundCanceledNoCash(account, req, canceled) ==
  IF IsOffsetOpen(req.offset)
  THEN [account EXCEPT !.frozen = @ - MarginOf(req, canceled, req.price)]
  ELSE account

FundCanceled(account, req, canceled) ==
  LET changed == MarginOf(req, canceled, req.price)
  IN  IF IsOffsetOpen(req.offset)
      THEN [account EXCEPT !.frozen = @ - changed, !.cash = @ + changed]
      ELSE account

-----------------------------------------------------------------------------
(* PositionRisk::CheckOrderRequest and SelfTradeRisk::CheckOrderRequest.   *)

(* Fault: only a plain close order is looked at.                           *)
PositionAllowsCloseOnly(book, req) ==
  req.offset = "close" => Available(book, req) >= req.volume

PositionAllows(book, req) ==
  IsOffsetClose(req.offset) => Available(book, req) >= req.volume

(* Fault: orders at the same price are taken not to meet.                  *)
WouldSelfTradeStrict(req, p) ==
  /\ p.ticker = req.ticker
  /\ p.direction = OppositeDirection(req.direction)
  /\ \/ req.direction = "buy"  /\ req.price > p.price
     \/ req.direction = "sell" /\ req.price < p.price

(* A resting order p the request would meet: at a price that crosses, or a *)
(* market order.  The request's own type is not looked at.                 *)
WouldSelfTrade(req, p) ==
  /\ p.ticker = req.ticker
  /\ p.direction = OppositeDirection(req.direction)
  /\ \/ p.price = 0
     \/ p.type = "market"
     \/ req.direction = "buy"  /\ req.price >= p.price
     \/ req.direction = "sell" /\ req.price <= p.price

(* RiskManagementSystem::CheckOrderRequest: every rule in turn, the first  *)
(* error wins.                                                             *)
CheckOrderRequest(account, book, pending, req) ==
  IF ~ FundAllows(account, req) THEN "FundNotEnough"
  ELSE IF ~ PositionAllows(book, req) THEN "PositionNotEnough"
  ELSE IF \E p \in pending : WouldSelfTrade(req, p) THEN "SelfTrade"
  ELSE "NoError"

=============================================================================
