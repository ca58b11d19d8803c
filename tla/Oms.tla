--------------------------------- MODULE Oms ---------------------------------
(***************************************************************************)
(* OrderManagementSystem: the life of an order from the command a strategy *)
(* wrote to its trade queue to the last response written to its response   *)
(* queue, with the positions and the account the risk rules keep.          *)
(*                                                                         *)
(* Every handler runs under spinlock_ from its first read to its last      *)
(* write, so a handler is one action.  The gateway's callback thread is    *)
(* the only producer of rspRing and the main loop its only consumer; the   *)
(* timer thread replaces the account.                                      *)
(* ProcessCmd and ProcessRsp alternate in the main loop; since commands    *)
(* come at any time, the actions interleave freely.                        *)
(*                                                                         *)
(* The exchange behind the gateway is external: it accepts, executes,      *)
(* cancels or rejects.  Executions and order events reach the gateway on   *)
(* different streams, so a cancel report may overtake trade reports.       *)
(***************************************************************************)
EXTENDS RiskRules, Sums, Sequences, FiniteSets

CONSTANTS
  Requests,        \* the order commands the strategies may write
  TradePrices,     \* the prices executions may have
  InitBook,        \* the positions InitPositions left
  InitAccount,     \* the account InitAccount read from the broker
  BrokerAccounts,  \* what the broker may answer when OnTimer asks
  SendMayFail,     \* may the gateway's SendOrder return false?
  MaxOrders,       \* bound: order ids given out
  RspRingSize,     \* bound: capacity of the response ring (1024 in the code)
  MaxAccepts       \* bound: accepted reports of one order

ASSUME OmsAssumption ==
  /\ Requests \subseteq OrderRequest
  /\ TradePrices \subseteq Nat
  /\ InitBook \in PositionBook
  /\ \A p \in Pools, t \in Tickers, d \in Directions :
       LET b == InitBook[p][t][d]
       IN  b.holdings >= 0 /\ b.openPending = 0 /\ b.closePending = 0
  /\ InitAccount \in Account
  /\ BrokerAccounts \subseteq Account
  /\ SendMayFail \in BOOLEAN
  /\ MaxOrders \in Nat
  /\ RspRingSize \in Nat \ {0}
  /\ MaxAccepts \in Nat

VARIABLES
  nextOrderId,   \* next_order_id_
  orderMap,      \* order_map_: the orders sent and not yet completed
  book,          \* pos_manager_
  account,       \* account_
  rspRing,       \* the gateway's order response ring
  rspMq,         \* the response queues, one per strategy
  cancelReq,     \* orders whose cancel request reached the exchange
  exchange,      \* external: what the exchange still has to do for an order
  baseline       \* history: what the last answer of the broker said

vars == <<nextOrderId, orderMap, book, account, rspRing, rspMq, cancelReq,
          exchange, baseline>>

OrderIds == 1 .. MaxOrders

OrderStatus == {"submitting", "accepted", "partTraded", "allTraded", "canceled"}

Order == [req : Requests, accepted : BOOLEAN, traded : Int, canceled : Int,
          status : OrderStatus]

(* What the gateway may put on the response ring.                          *)
GatewayRsp ==
  [kind : {"accepted", "rejected", "cancelRejected"}, id : OrderIds]
    \union [kind : {"traded"}, id : OrderIds, volume : Nat \ {0}, price : Nat]
    \union [kind : {"canceled"}, id : OrderIds, volume : Nat \ {0}]

Errors == {"NoError", "SelfTrade", "PositionNotEnough", "FundNotEnough",
           "SendFailed", "Rejected"}

OrderResponse ==
  [id : OrderIds, original : Nat \ {0}, traded : Int, thisTraded : Nat,
   completed : BOOLEAN, error : Errors]

(* open: volume neither executed nor cancelled; filled: volume executed;   *)
(* due: executed and not yet reported; accepts: accepted reports sent.     *)
ExchangeOrder ==
  [req : Requests, open : Nat, filled : Nat, due : Nat, accepts : Nat]

Live == DOMAIN orderMap

Pending == {orderMap[i].req : i \in Live}

(* The volume an order of the map may still trade.                         *)
Left(o) == o.req.volume - o.traded - o.canceled

(* The money the open orders of map m may still need at their own price.   *)
FrozenWeight(m, i) ==
  IF i \in DOMAIN m /\ IsOffsetOpen(m[i].req.offset)
  THEN MarginOf(m[i].req, Left(m[i]), m[i].req.price) ELSE 0

FrozenSum(m) == SumTo([i \in OrderIds |-> FrozenWeight(m, i)], MaxOrders)

(* What an answer of the broker says of all the money, and of frozen money *)
(* no order of the map accounts for.                                       *)
BaselineOf(a, m) ==
  [money |-> a.cash + a.margin + a.frozen, frozen |-> a.frozen - FrozenSum(m)]

-----------------------------------------------------------------------------
(* SendRspToStrategy                                                       *)

(* Faults: the total traded is the last trade; an error does not complete  *)
(* the order.                                                              *)
ResponseLastTrade(id, o, thisTraded, error) ==
  [id |-> id, original |-> o.req.volume, traded |-> thisTraded,
   thisTraded |-> thisTraded,
   completed |-> o.canceled + o.traded = o.req.volume \/ error # "NoError",
   error |-> error]

ResponseErrorOpen(id, o, thisTraded, error) ==
  [id |-> id, original |-> o.req.volume, traded |-> o.traded,
   thisTraded |-> thisTraded,
   completed |-> o.canceled + o.traded = o.req.volume,
   error |-> error]

Response(id, o, thisTraded, error) ==
  [id |-> id, original |-> o.req.volume, traded |-> o.traded,
   thisTraded |-> thisTraded,
   completed |-> o.canceled + o.traded = o.req.volume \/ error # "NoError",
   error |-> error]

SendRspToStrategy(o, rsps) ==
  rspMq' = [rspMq EXCEPT ![o.req.mq] = @ \o rsps]

(* Fault: the order is stored under the id after its own.                  *)
PutNext(id, order) ==
  [i \in Live \union {id + 1} |-> IF i = id + 1 THEN order ELSE orderMap[i]]

Put(id, order) ==
  [i \in Live \union {id} |-> IF i = id THEN order ELSE orderMap[i]]

Erase(id) ==
  [i \in Live \ {id} |-> orderMap[i]]

(* Faults: a cancel ends the order at once; only a full fill ends it.      *)
EraseOnCancel(id, o) ==
  orderMap' = IF o.traded = o.req.volume \/ o.canceled > 0 THEN Erase(id) ELSE Put(id, o)

EraseOnFullFill(id, o) ==
  orderMap' = IF o.traded = o.req.volume THEN Erase(id) ELSE Put(id, o)

(* The common end of the trade and the cancel handler.                     *)
StoreOrErase(id, o) ==
  orderMap' = IF o.traded + o.canceled = o.req.volume THEN Erase(id) ELSE Put(id, o)

-----------------------------------------------------------------------------
Init ==
  /\ nextOrderId = 1
  /\ orderMap = [i \in {} |-> {}]
  /\ book = InitBook
  /\ account = InitAccount
  /\ rspRing = <<>>
  /\ rspMq = [s \in Strategies |-> <<>>]
  /\ cancelReq = {}
  /\ exchange = [i \in {} |-> {}]
  /\ baseline = BaselineOf(InitAccount, orderMap)

-----------------------------------------------------------------------------
(* ExecuteCmd, kNewOrder: SendOrder.  Three ways out.                      *)

NewOrder(req) ==
  [req |-> req, accepted |-> FALSE, traded |-> 0, canceled |-> 0,
   status |-> "submitting"]

RiskError(req) ==
  IF req.withoutCheck THEN "NoError"
  ELSE CheckOrderRequest(account, book, Pending, req)

TakeOrderId ==
  /\ nextOrderId <= MaxOrders
  /\ nextOrderId' = nextOrderId + 1
  /\ UNCHANGED baseline

RefuseOrder(req) ==
  /\ TakeOrderId
  /\ RiskError(req) # "NoError"
  /\ SendRspToStrategy(NewOrder(req),
       <<Response(nextOrderId, NewOrder(req), 0, RiskError(req))>>)
  /\ UNCHANGED <<orderMap, book, account, rspRing, cancelReq, exchange>>

(* The gateway could not send: the risk rules are told the order was       *)
(* rejected although OnOrderSent was never called for it.                  *)
FailToSend(req) ==
  /\ SendMayFail
  /\ TakeOrderId
  /\ RiskError(req) = "NoError"
  /\ book' = UpdatePending(book, req, 0 - req.volume)
  /\ account' = FundCanceled(account, req, req.volume)
  /\ SendRspToStrategy(NewOrder(req),
       <<Response(nextOrderId, NewOrder(req), 0, "SendFailed")>>)
  /\ UNCHANGED <<orderMap, rspRing, cancelReq, exchange>>

SubmitOrder(req) ==
  /\ TakeOrderId
  /\ RiskError(req) = "NoError"
  /\ orderMap' = Put(nextOrderId, NewOrder(req))
  /\ book' = UpdatePending(book, req, req.volume)
  /\ account' = FundSent(account, req)
  /\ exchange' = [i \in DOMAIN exchange \union {nextOrderId} |->
                    IF i = nextOrderId
                    THEN [req |-> req, open |-> req.volume, filled |-> 0,
                          due |-> 0, accepts |-> 0]
                    ELSE exchange[i]]
  /\ UNCHANGED <<rspRing, rspMq, cancelReq>>

-----------------------------------------------------------------------------
(* ExecuteCmd, kCancelOrder, kCancelTicker and kCancelAll: DoCancelOrder   *)
(* for every order found.  No risk rule refuses a cancel; the gateway may  *)
(* fail to send it, which is only logged.                                  *)

DoCancelOrders(ids) ==
  /\ \E sent \in SUBSET ids : cancelReq' = cancelReq \union sent
  /\ UNCHANGED <<nextOrderId, orderMap, book, account, rspRing, rspMq, exchange,
                 baseline>>

CancelOrder(id) == DoCancelOrders({id} \intersect Live)

CancelForTicker(t) == DoCancelOrders({i \in Live : orderMap[i].req.ticker = t})

CancelAll == DoCancelOrders(Live)

-----------------------------------------------------------------------------
(* ProcessRsp: the handler of the response at the head of the ring.  A     *)
(* response for an order that is not in the map is only logged.            *)

(* Fault: the report stays at the head of the ring.                        *)
TakeRspKept(kind) ==
  /\ rspRing # <<>>
  /\ Head(rspRing).kind = kind
  /\ UNCHANGED <<rspRing, nextOrderId, cancelReq, exchange, baseline>>

TakeRsp(kind) ==
  /\ rspRing # <<>>
  /\ Head(rspRing).kind = kind
  /\ rspRing' = Tail(rspRing)
  /\ UNCHANGED <<nextOrderId, cancelReq, exchange, baseline>>

OnAccepted ==
  /\ TakeRsp("accepted")
  /\ UNCHANGED <<book, account>>
  /\ LET id == Head(rspRing).id
         o  == orderMap[id]
     IN  IF id \in Live /\ ~ o.accepted
         THEN LET a == [o EXCEPT !.accepted = TRUE, !.status = "accepted"]
              IN  /\ orderMap' = Put(id, a)
                  /\ SendRspToStrategy(o, <<Response(id, a, 0, "NoError")>>)
         ELSE UNCHANGED <<orderMap, rspMq>>

OnRejected ==
  /\ TakeRsp("rejected")
  /\ LET id == Head(rspRing).id
         o  == orderMap[id]
     IN  IF id \in Live
         THEN /\ book' = UpdatePending(book, o.req, 0 - o.req.volume)
              /\ account' = FundCanceled(account, o.req, o.req.volume)
              /\ SendRspToStrategy(o, <<Response(id, o, 0, "Rejected")>>)
              /\ orderMap' = Erase(id)
         ELSE UNCHANGED <<orderMap, book, account, rspMq>>

(* OnSecondaryMarketTraded: a trade also stands for an accepted report     *)
(* that has not come.                                                      *)
OnTraded ==
  /\ TakeRsp("traded")
  /\ LET r  == Head(rspRing)
         o  == orderMap[r.id]
         a  == [o EXCEPT !.accepted = TRUE]
         n  == o.traded + r.volume
         t  == [a EXCEPT !.traded = n,
                         !.status = IF n = o.req.volume THEN "allTraded"
                                    ELSE IF @ # "canceled" THEN "partTraded" ELSE @]
         accepted == IF o.accepted THEN <<>> ELSE <<Response(r.id, a, 0, "NoError")>>
     IN  IF r.id \in Live
         THEN /\ book' = UpdateTraded(book, o.req, r.volume)
              /\ account' = FundTraded(account, o.req, r.volume, r.price)
              /\ SendRspToStrategy(o, Append(accepted, Response(r.id, t, r.volume, "NoError")))
              /\ StoreOrErase(r.id, t)
         ELSE UNCHANGED <<orderMap, book, account, rspMq>>

OnCanceled ==
  /\ TakeRsp("canceled")
  /\ LET r == Head(rspRing)
         o == orderMap[r.id]
         c == [o EXCEPT !.canceled = r.volume, !.status = "canceled"]
     IN  IF r.id \in Live
         THEN /\ book' = UpdatePending(book, o.req, 0 - r.volume)
              /\ account' = FundCanceled(account, o.req, r.volume)
              /\ SendRspToStrategy(o, <<Response(r.id, c, 0, "NoError")>>)
              /\ StoreOrErase(r.id, c)
         ELSE UNCHANGED <<orderMap, book, account, rspMq>>

OnCancelRejected ==
  /\ TakeRsp("cancelRejected")
  /\ UNCHANGED <<orderMap, book, account, rspMq>>

ProcessRsp ==
  OnAccepted \/ OnRejected \/ OnTraded \/ OnCanceled \/ OnCancelRejected

-----------------------------------------------------------------------------
(* OnTimer: the broker's answer replaces the account the risk rules keep,  *)
(* whatever orders were sent and reports were handled since it was given.  *)
(* An answer with an error changes nothing.                                *)

OnAccount(a) ==
  /\ account' = a
  /\ baseline' = BaselineOf(a, orderMap)
  /\ UNCHANGED <<nextOrderId, orderMap, book, rspRing, rspMq, cancelReq, exchange>>

-----------------------------------------------------------------------------
(* The exchange and the gateway's callbacks (external).  OnOrderAccepted   *)
(* and its siblings wait while the ring is full (PutWithBlocking).         *)

OmsUnchanged == UNCHANGED <<nextOrderId, orderMap, book, account, rspMq, baseline>>

PushRsp(rsp) ==
  /\ Len(rspRing) < RspRingSize
  /\ rspRing' = Append(rspRing, rsp)
  /\ OmsUnchanged

(* An order still open is accepted; the report may come again, and after   *)
(* the first trades.                                                       *)
ExchangeAccept(id) ==
  /\ exchange[id].open > 0
  /\ exchange[id].accepts < MaxAccepts
  /\ exchange' = [exchange EXCEPT ![id].accepts = @ + 1]
  /\ PushRsp([kind |-> "accepted", id |-> id])
  /\ UNCHANGED cancelReq

(* Only an order nothing has happened to is rejected.                      *)
ExchangeReject(id) ==
  LET e == exchange[id]
  IN  /\ e.open = e.req.volume
      /\ e.accepts = 0
      /\ exchange' = [exchange EXCEPT ![id].open = 0]
      /\ PushRsp([kind |-> "rejected", id |-> id])
      /\ UNCHANGED cancelReq

(* v lots are executed; the reports follow on their own stream.            *)
ExchangeExecute(id, v) ==
  /\ exchange[id].open >= v
  /\ exchange' = [exchange EXCEPT ![id].open = @ - v, ![id].filled = @ + v,
                                  ![id].due = @ + v]
  /\ UNCHANGED <<rspRing, cancelReq>>
  /\ OmsUnchanged

Acceptable(req, p) ==
  \/ req.type = "market"
  \/ req.direction = "buy"  /\ p <= req.price
  \/ req.direction = "sell" /\ p >= req.price

ReportTrade(id, v, p) ==
  /\ exchange[id].due >= v
  /\ Acceptable(exchange[id].req, p)
  /\ exchange' = [exchange EXCEPT ![id].due = @ - v]
  /\ PushRsp([kind |-> "traded", id |-> id, volume |-> v, price |-> p])
  /\ UNCHANGED cancelReq

(* The open volume is cancelled: on request, or at once for an order that  *)
(* may not rest.  The report need not wait for the trades due.             *)
ExchangeCancel(id) ==
  /\ exchange[id].open > 0
  /\ id \in cancelReq \/ exchange[id].req.type # "limit"
  /\ exchange' = [exchange EXCEPT ![id].open = 0]
  /\ PushRsp([kind |-> "canceled", id |-> id, volume |-> exchange[id].open])
  /\ cancelReq' = cancelReq \ {id}

(* Too late: nothing is left to cancel.                                    *)
RejectCancel(id) ==
  /\ exchange[id].open = 0
  /\ id \in cancelReq
  /\ cancelReq' = cancelReq \ {id}
  /\ PushRsp([kind |-> "cancelRejected", id |-> id])
  /\ UNCHANGED exchange

Exchange(id) ==
  \/ ExchangeAccept(id) \/ ExchangeReject(id)
  \/ ExchangeCancel(id) \/ RejectCancel(id)
  \/ \E v \in 1 .. exchange[id].req.volume :
       \/ ExchangeExecute(id, v)
       \/ \E p \in TradePrices : ReportTrade(id, v, p)

-----------------------------------------------------------------------------
ExecuteCmd ==
  \/ \E req \in Requests : RefuseOrder(req) \/ FailToSend(req) \/ SubmitOrder(req)
  \/ \E id \in OrderIds : CancelOrder(id)
  \/ \E t \in Tickers : CancelForTicker(t)
  \/ CancelAll

Next ==
  \/ ExecuteCmd
  \/ ProcessRsp
  \/ \E a \in BrokerAccounts : OnAccount(a)
  \/ \E id \in DOMAIN exchange : Exchange(id)

Spec == Init /\ [][Next]_vars

(* The main loop never stops.  The exchange answers a request to cancel    *)
(* and reports what it executed; a callback blocked on a full ring retries *)
(* until it gets in, hence strong fairness.                                *)
MainLoopFairness == WF_vars(ProcessRsp)

ExchangeFairness ==
  \A id \in OrderIds :
    /\ SF_vars(id \in DOMAIN exchange /\ (ExchangeCancel(id) \/ RejectCancel(id)))
    /\ SF_vars(id \in DOMAIN exchange /\
         \E v \in 1 .. exchange[id].req.volume, p \in TradePrices : ReportTrade(id, v, p))

FairSpec == Spec /\ MainLoopFairness /\ ExchangeFairness

-----------------------------------------------------------------------------
TypeOK ==
  /\ nextOrderId \in 1 .. MaxOrders + 1
  /\ Live \subseteq OrderIds
  /\ orderMap \in [Live -> Order]
  /\ book \in PositionBook
  /\ account \in Account
  /\ rspRing \in Seq(GatewayRsp)
  /\ rspMq \in [Strategies -> Seq(OrderResponse)]
  /\ cancelReq \subseteq OrderIds
  /\ DOMAIN exchange \subseteq OrderIds
  /\ exchange \in [DOMAIN exchange -> ExchangeOrder]
  /\ baseline \in [money : Int, frozen : Int]

-----------------------------------------------------------------------------
(* What an order of map m still adds to one side of one pool's pending     *)
(* counter for these offsets, and what all of them add.                    *)
Weight(m, i, pool, t, d, offsets) ==
  IF /\ i \in DOMAIN m
     /\ FindCalculator(m[i].req.strategy) = pool
     /\ m[i].req.ticker = t
     /\ SideOf(m[i].req) = d
     /\ m[i].req.offset \in offsets
  THEN Left(m[i]) ELSE 0

Outstanding(m, pool, t, d, offsets) ==
  SumTo([i \in OrderIds |-> Weight(m, i, pool, t, d, offsets)], MaxOrders)

(* The pending counters PositionRisk keeps in small steps (sent, traded,   *)
(* cancelled, rejected) are at any time what the order map says: for every *)
(* pool, ticker and side the volume its live orders may still trade.       *)
PendingAccounted ==
  \A p \in Pools, t \in Tickers, d \in Directions :
    /\ book[p][t][d].openPending = Outstanding(orderMap, p, t, d, {"open"})
    /\ book[p][t][d].closePending = Outstanding(orderMap, p, t, d, CloseOffsets)

(* FundRisk freezes and releases money so that what is frozen is what the  *)
(* live open orders may still need at their own price, over what the last  *)
(* answer of the broker had frozen besides.                                *)
FrozenAccounted == account.frozen = baseline.frozen + FrozenSum(orderMap)

(* No order makes money vanish: cash, margin and frozen money add up to at *)
(* least what they were in the broker's last answer.  (More when           *)
(* OnOrderTraded cut a negative margin off to zero.)                       *)
AssetNotLost == account.cash + account.margin + account.frozen >= baseline.money

(* What the comment on struct Account says of frozen money: orders not yet *)
(* traded have money reserved for them.                                    *)
FrozenCoversOrders == account.frozen >= FrozenSum(orderMap)

(* What the comment on struct Account says of its fields.                  *)
AccountIdentity == account.totalAsset = account.cash + account.margin + account.frozen

(* The assertions of UpdatePending and UpdateTraded never fire.            *)
PositionAsserts ==
  \A p \in Pools, t \in Tickers, d \in Directions : DetailAsserts(book[p][t][d])

(* Close orders never ask for more than a strategy holds, however many are *)
(* under way: they cannot take another strategy's position.                *)
NoOverClose ==
  \A s \in Strategies, t \in Tickers, d \in Directions :
    book[s][t][d].closePending <= book[s][t][d].holdings

(* No two orders open at the exchange can trade with each other.           *)
NoSelfTrade ==
  \A i, j \in DOMAIN exchange :
    LET b == exchange[i].req
        a == exchange[j].req
    IN  /\ exchange[i].open > 0 /\ exchange[j].open > 0
        /\ b.ticker = a.ticker /\ b.direction = "buy" /\ a.direction = "sell"
        => b.type # "market" /\ a.type # "market" /\ b.price < a.price

-----------------------------------------------------------------------------
(* Lots in trade reports of an order that wait on the ring.                *)
InRing(id) ==
  SumTo([k \in 1 .. Len(rspRing) |->
           IF rspRing[k].kind = "traded" /\ rspRing[k].id = id
           THEN rspRing[k].volume ELSE 0], Len(rspRing))

(* Executions the main loop has already taken from the ring.               *)
Processed(id) == exchange[id].filled - exchange[id].due - InRing(id)

(* An order leaves the map only when nothing of it is outstanding at the   *)
(* exchange or on the ring, so no trade is dropped as "order not found";   *)
(* until then it has counted exactly the trades processed.                 *)
NoTradeLost ==
  \A i \in DOMAIN exchange :
    IF i \in Live
    THEN orderMap[i].traded = Processed(i)
    ELSE exchange[i].open = 0 /\ exchange[i].due = 0 /\ InRing(i) = 0

(* Holdings change by executions only: each pool holds what it started     *)
(* with, plus its processed opening and minus its processed closing trades.*)
HoldingsFollowTrades ==
  \A p \in Pools, t \in Tickers, d \in Directions :
    book[p][t][d].holdings = InitBook[p][t][d].holdings
      + SumTo([i \in OrderIds |->
                 IF /\ i \in DOMAIN exchange
                    /\ FindCalculator(exchange[i].req.strategy) = p
                    /\ exchange[i].req.ticker = t
                    /\ SideOf(exchange[i].req) = d
                 THEN IF IsOffsetOpen(exchange[i].req.offset)
                      THEN Processed(i) ELSE 0 - Processed(i)
                 ELSE 0], MaxOrders)

-----------------------------------------------------------------------------
(* Why the pending counters add up: they are given back once.              *)

Final(rsp) == rsp.kind \in {"rejected", "canceled"}

ExchangeCounts ==
  \A i \in DOMAIN exchange :
    /\ i < nextOrderId
    /\ exchange[i].open + exchange[i].filled <= exchange[i].req.volume
    /\ exchange[i].due <= exchange[i].filled

ReportsOnRing ==
  \A k \in 1 .. Len(rspRing) :
    LET r == rspRing[k]
        e == exchange[r.id]
    IN  /\ r.id \in DOMAIN exchange
        /\ r.kind = "traded" => e.filled > 0
        /\ r.kind = "rejected" => e.filled = 0
        /\ Final(r) => /\ e.open = 0
                       /\ r.id \in Live => orderMap[r.id].canceled = 0
                       /\ \A j \in 1 .. Len(rspRing) :
                            j # k => ~ (Final(rspRing[j]) /\ rspRing[j].id = r.id)

LiveOrders ==
  \A i \in Live :
    /\ i \in DOMAIN exchange
    /\ orderMap[i].canceled # 0 => exchange[i].open = 0
    /\ orderMap[i].traded # 0 => exchange[i].filled > 0

(* The end of an order, rejected or cancelled, reaches the handlers once   *)
(* while the order is live, and a rejection only before any of its trades. *)
FinalReportOnce == ExchangeCounts /\ ReportsOnRing /\ LiveOrders

-----------------------------------------------------------------------------
(* Once the exchange has reported all of an order, the OMS completes it.   *)
FinishedOrderCompletes ==
  \A i \in OrderIds :
    (i \in Live /\ exchange[i].open = 0 /\ exchange[i].due = 0) ~> i \notin Live

(* A cancel request that reached the exchange ends the order.              *)
CancelEndsOrder == \A i \in OrderIds : i \in cancelReq ~> i \notin Live

=============================================================================
