------------------------------ MODULE OmsProofs ------------------------------
(***************************************************************************)
(* Theorems about Oms for every value of its constants.  First its types   *)
(* and ledgers: the pending counters and the frozen money are what the     *)
(* live orders say, no execution is lost between the exchange and the      *)
(* order map, and the holdings are what the executions made of them.  Then *)
(* what it promises: what the risk rules guarantee of the account, the     *)
(* positions and the orders; that the responses about an order add up; and *)
(* that Oms implements OrderReports.                                       *)
(***************************************************************************)
EXTENDS OmsReports, SequenceTheorems, FiniteSetTheorems

-----------------------------------------------------------------------------
(* Types of the operators Oms is built from.                               *)

(* A request works on a side of a pool of the book.                        *)
LEMMA RequestType ==
  ASSUME NEW req \in Requests
  PROVE  /\ req \in OrderRequest
         /\ FindCalculator(req.strategy) \in Pools
         /\ SideOf(req) \in Directions
         /\ req.volume \in Nat /\ req.volume > 0 /\ req.price \in Nat
         /\ req.mq \in Strategies /\ req.ticker \in Tickers
         /\ req.offset \in Offsets /\ req.direction \in Directions
BY OmsAssumption DEF OrderRequest, FindCalculator, Pools, SideOf, Directions,
   OppositeDirection, StrategyIds

(* Money is an integer.                                                    *)
LEMMA MarginOfType ==
  ASSUME NEW req \in Requests, NEW v \in Int, NEW p \in Int
  PROVE  MarginOf(req, v, p) \in Int
<1>1. MarginUnit[req.ticker][req.direction] \in Nat
  BY RequestType, MarginAssumption
<1>2. p * MarginUnit[req.ticker][req.direction] \in Int
  BY <1>1
<1> QED
  BY <1>2 DEF MarginOf

(* Counting pending volume keeps the book a book.                          *)
LEMMA UpdatePendingType ==
  ASSUME NEW b \in PositionBook, NEW req \in Requests, NEW n \in Int
  PROVE  UpdatePending(b, req, n) \in PositionBook
<1>1. ASSUME NEW d \in PositionDetail
      PROVE  PendingDetail(d, req.offset, n) \in PositionDetail
  BY DEF PendingDetail, PositionDetail
<1> QED
  BY <1>1, RequestType DEF PositionBook, UpdatePending

(* A trade leaves a position detail a position detail.                     *)
LEMMA TradedDetailType ==
  ASSUME NEW d \in PositionDetail, NEW req \in Requests, NEW n \in Int
  PROVE  TradedDetail(d, req.offset, n) \in PositionDetail
<1> DEFINE left == d.holdings - n
           yd   == IF req.offset \in {"close", "close_yesterday"}
                   THEN d.yd - AtMost(d.yd, n) ELSE d.yd
<1>1. /\ d.closePending - n \in Int /\ d.openPending - n \in Int
      /\ d.holdings + n \in Int /\ left \in Int
  BY DEF PositionDetail
<1>2. yd \in Int
  BY DEF PositionDetail, AtMost
<1>3. AtMost(left, yd) \in Int
  BY <1>1, <1>2 DEF AtMost
<1> HIDE DEF left, yd
<1>4. [d EXCEPT !.closePending = @ - n, !.holdings = left, !.yd = AtMost(left, yd)]
        \in PositionDetail
  BY <1>1, <1>3 DEF PositionDetail
<1>5. [d EXCEPT !.openPending = @ - n, !.holdings = @ + n] \in PositionDetail
  BY <1>1 DEF PositionDetail
<1> QED
  BY <1>4, <1>5 DEF TradedDetail, left, yd

(* So a trade keeps the book a book.                                       *)
LEMMA UpdateTradedType ==
  ASSUME NEW b \in PositionBook, NEW req \in Requests, NEW n \in Int
  PROVE  UpdateTraded(b, req, n) \in PositionBook
BY TradedDetailType, RequestType DEF PositionBook, UpdateTraded

(* The fund rule keeps the account an account.                             *)
LEMMA FundType ==
  ASSUME NEW a \in Account, NEW req \in Requests, NEW n \in Int, NEW p \in Int
  PROVE  /\ FundSent(a, req) \in Account
         /\ FundTraded(a, req, n, p) \in Account
         /\ FundCanceled(a, req, n) \in Account
<1>1. /\ MarginOf(req, n, p) \in Int
      /\ MarginOf(req, n, req.price) \in Int
      /\ MarginOf(req, req.volume, req.price) \in Int
  BY MarginOfType, RequestType
<1>2. ASSUME NEW x \in Int, NEW y \in Int
      PROVE  /\ a.cash - x \in Int /\ a.cash + x \in Int /\ a.cash + (x - y) \in Int
             /\ a.frozen - x \in Int /\ a.frozen + x \in Int
             /\ a.margin - x \in Int /\ a.margin + x \in Int
  BY DEF Account
<1>3. FundSent(a, req) \in Account
  BY <1>1, <1>2 DEF Account, FundSent
<1>4. FundTraded(a, req, n, p) \in Account
  <2> DEFINE r == MarginOf(req, n, req.price)
             m == MarginOf(req, n, p)
             left == IF a.margin - m < 0 THEN 0 ELSE a.margin - m
  <2>1. r \in Int /\ m \in Int /\ left \in Int
    BY <1>1, <1>2
  <2> HIDE DEF r, m, left
  <2>2. [a EXCEPT !.frozen = @ - r, !.margin = @ + m, !.cash = @ + (r - m)] \in Account
    BY <1>2, <2>1 DEF Account
  <2>3. [a EXCEPT !.cash = @ + m, !.margin = left] \in Account
    BY <1>2, <2>1 DEF Account
  <2> QED
    BY <2>2, <2>3 DEF FundTraded, r, m, left
<1>5. FundCanceled(a, req, n) \in Account
  BY <1>1, <1>2 DEF Account, FundCanceled
<1> QED
  BY <1>3, <1>4, <1>5

(* What the orders of a map hold frozen is an integer.                     *)
LEMMA FrozenSumType ==
  ASSUME NEW m, DOMAIN m \subseteq OrderIds, m \in [DOMAIN m -> Order]
  PROVE  /\ \A i \in OrderIds : FrozenWeight(m, i) \in Int
         /\ FrozenSum(m) \in Int
<1> DEFINE f == [i \in OrderIds |-> FrozenWeight(m, i)]
<1>1. ASSUME NEW i \in OrderIds, i \in DOMAIN m
      PROVE  MarginOf(m[i].req, Left(m[i]), m[i].req.price) \in Int
  <2>1. m[i].req \in Requests /\ m[i].traded \in Int /\ m[i].canceled \in Int
    <3>1. m[i] \in Order
      BY <1>1
    <3> QED
      BY <3>1 DEF Order
  <2>2. Left(m[i]) \in Int /\ m[i].req.price \in Int
    BY <2>1, RequestType DEF Left
  <2> QED
    BY <2>1, <2>2, MarginOfType
<1>2. \A i \in OrderIds : FrozenWeight(m, i) \in Int
  BY <1>1 DEF FrozenWeight
<1>3. f \in [1 .. MaxOrders -> Int] /\ MaxOrders \in Nat
  BY <1>2, OmsAssumption DEF OrderIds
<1> HIDE DEF f
<1>4. SumTo(f, MaxOrders) \in Int
  BY <1>3, SumToInt
<1> QED
  BY <1>2, <1>4 DEF FrozenSum, f

(* So is what an answer of the broker says.                                *)
LEMMA BaselineType ==
  ASSUME NEW a \in Account, NEW m, DOMAIN m \subseteq OrderIds, m \in [DOMAIN m -> Order]
  PROVE  BaselineOf(a, m) \in [money : Int, frozen : Int]
<1>1. a.cash \in Int /\ a.margin \in Int /\ a.frozen \in Int
  BY DEF Account
<1>2. FrozenSum(m) \in Int
  BY FrozenSumType
<1> QED
  BY <1>1, <1>2 DEF BaselineOf

-----------------------------------------------------------------------------
(* Types of the order map and the response queues.                         *)

MapOK == Live \subseteq OrderIds /\ orderMap \in [Live -> Order]

MqOK == rspMq \in [Strategies -> Seq(OrderResponse)]

(* Storing and erasing an order keep the map a map.                        *)
LEMMA StoreType ==
  ASSUME MapOK, NEW id \in OrderIds, NEW o \in Order,
         \/ orderMap' = Put(id, o)
         \/ orderMap' = Erase(id)
         \/ StoreOrErase(id, o)
         \/ UNCHANGED orderMap
  PROVE  MapOK'
<1>1. CASE orderMap' = Put(id, o)
  BY <1>1 DEF MapOK, Live, Put
<1>2. CASE orderMap' = Erase(id)
  BY <1>2 DEF MapOK, Live, Erase
<1>3. CASE UNCHANGED orderMap
  BY <1>3 DEF MapOK, Live
<1> QED
  BY <1>1, <1>2, <1>3 DEF StoreOrErase

(* A response is a response.                                               *)
LEMMA ResponseType ==
  ASSUME NEW id \in OrderIds, NEW o \in Order, NEW n \in Nat, NEW e \in Errors
  PROVE  Response(id, o, n, e) \in OrderResponse
BY RequestType DEF Response, OrderResponse, Order

(* Writing responses keeps the queues queues.                              *)
LEMMA SendType ==
  ASSUME MqOK, NEW o \in Order, NEW rsps \in Seq(OrderResponse),
         SendRspToStrategy(o, rsps)
  PROVE  MqOK'
<1>1. o.req.mq \in Strategies
  BY RequestType DEF Order
<1>2. rspMq[o.req.mq] \o rsps \in Seq(OrderResponse)
  BY <1>1, ConcatProperties DEF MqOK
<1> QED
  BY <1>1, <1>2 DEF MqOK, SendRspToStrategy

(* The order SendOrder makes of a request.                                 *)
LEMMA NewOrderType ==
  ASSUME NEW req \in Requests
  PROVE  NewOrder(req) \in Order
BY DEF NewOrder, Order, OrderStatus

(* What the handlers write into an order leaves it an order.               *)
LEMMA OrderUpdates ==
  ASSUME NEW o \in Order, NEW n \in Int, NEW s \in OrderStatus
  PROVE  /\ o.req \in Requests /\ o.traded \in Int /\ o.canceled \in Int
         /\ o.accepted \in BOOLEAN /\ o.status \in OrderStatus
         /\ [o EXCEPT !.accepted = TRUE] \in Order
         /\ [o EXCEPT !.traded = n, !.status = s] \in Order
         /\ [o EXCEPT !.canceled = n, !.status = s] \in Order
BY DEF Order

(* What a report on the ring carries, and what is left behind it.          *)
LEMMA HeadType ==
  ASSUME TypeOK, rspRing # <<>>
  PROVE  /\ Head(rspRing) \in GatewayRsp
         /\ Tail(rspRing) \in Seq(GatewayRsp)
         /\ Head(rspRing).id \in OrderIds
         /\ Head(rspRing).kind = "traded" =>
              Head(rspRing).volume \in Nat /\ Head(rspRing).volume > 0 /\ Head(rspRing).price \in Nat
         /\ Head(rspRing).kind = "canceled" =>
              Head(rspRing).volume \in Nat /\ Head(rspRing).volume > 0
<1>1. Head(rspRing) \in GatewayRsp /\ Tail(rspRing) \in Seq(GatewayRsp)
  BY HeadTailProperties DEF TypeOK
<1> QED
  BY <1>1 DEF GatewayRsp

-----------------------------------------------------------------------------
(* Type correctness, action by action.                                     *)

(* The order id a command takes is one of OrderIds.                        *)
LEMMA TakeType ==
  ASSUME TypeOK, TakeOrderId
  PROVE  nextOrderId \in OrderIds /\ nextOrderId' \in 1 .. MaxOrders + 1
BY OmsAssumption DEF TypeOK, TakeOrderId, OrderIds

(* A one-element sequence of responses.                                    *)
LEMMA OneResponse ==
  ASSUME NEW id \in OrderIds, NEW o \in Order, NEW n \in Nat, NEW e \in Errors
  PROVE  <<Response(id, o, n, e)>> \in Seq(OrderResponse)
BY ResponseType

LEMMA RefuseType ==
  ASSUME TypeOK, NEW req \in Requests, RefuseOrder(req)
  PROVE  TypeOK'
<1>1. nextOrderId \in OrderIds /\ nextOrderId' \in 1 .. MaxOrders + 1
  BY TakeType DEF RefuseOrder
<1>2. RiskError(req) \in Errors
  BY DEF RiskError, CheckOrderRequest, Errors
<1>3. MqOK'
  BY <1>1, <1>2, NewOrderType, OneResponse, SendType DEF RefuseOrder, TypeOK, MqOK
<1> QED
  BY <1>1, <1>3 DEF RefuseOrder, TakeOrderId, TypeOK, MqOK, Live

LEMMA FailToSendType ==
  ASSUME TypeOK, NEW req \in Requests, FailToSend(req)
  PROVE  TypeOK'
<1>1. nextOrderId \in OrderIds /\ nextOrderId' \in 1 .. MaxOrders + 1
  BY TakeType DEF FailToSend
<1>2. MqOK'
  BY <1>1, NewOrderType, OneResponse, SendType DEF FailToSend, TypeOK, MqOK, Errors
<1>3. req.volume \in Int /\ 0 - req.volume \in Int
  BY RequestType
<1>4. book' \in PositionBook /\ account' \in Account
  BY <1>3, UpdatePendingType, FundType DEF FailToSend, TypeOK
<1> QED
  BY <1>1, <1>2, <1>4 DEF FailToSend, TakeOrderId, TypeOK, MqOK, Live

LEMMA SubmitType ==
  ASSUME TypeOK, NEW req \in Requests, SubmitOrder(req)
  PROVE  TypeOK'
<1>1. nextOrderId \in OrderIds /\ nextOrderId' \in 1 .. MaxOrders + 1
  BY TakeType DEF SubmitOrder
<1>2. MapOK'
  BY <1>1, NewOrderType, StoreType DEF SubmitOrder, TypeOK, MapOK
<1>3. book' \in PositionBook /\ account' \in Account
  BY RequestType, UpdatePendingType, FundType DEF SubmitOrder, TypeOK
<1>4. /\ DOMAIN exchange' \subseteq OrderIds
      /\ exchange' \in [DOMAIN exchange' -> ExchangeOrder]
  BY <1>1, RequestType DEF SubmitOrder, TypeOK, ExchangeOrder
<1> QED
  BY <1>1, <1>2, <1>3, <1>4 DEF SubmitOrder, TakeOrderId, TypeOK, MapOK, Live

LEMMA DoCancelType ==
  ASSUME TypeOK, NEW ids \in SUBSET Live, DoCancelOrders(ids)
  PROVE  TypeOK'
BY DEF DoCancelOrders, TypeOK, Live

LEMMA OnAcceptedType ==
  ASSUME TypeOK, OnAccepted
  PROVE  TypeOK'
<1> DEFINE id == Head(rspRing).id
           o  == orderMap[id]
           a  == [o EXCEPT !.accepted = TRUE, !.status = "accepted"]
<1>1. id \in OrderIds /\ rspRing' \in Seq(GatewayRsp)
  BY HeadType DEF OnAccepted, TakeRsp
<1>2. MapOK' /\ MqOK'
  <2>1. CASE id \in Live /\ ~ o.accepted
    <3>1. o \in Order /\ a \in Order
      BY <2>1 DEF TypeOK, Order, OrderStatus
    <3>2. orderMap' = Put(id, a) /\ SendRspToStrategy(o, <<Response(id, a, 0, "NoError")>>)
      BY <2>1 DEF OnAccepted
    <3> QED
      BY <1>1, <3>1, <3>2, StoreType, SendType, OneResponse DEF TypeOK, MapOK, MqOK, Errors
  <2>2. CASE ~ (id \in Live /\ ~ o.accepted)
    BY <2>2 DEF OnAccepted, TypeOK, MapOK, MqOK, Live
  <2> QED
    BY <2>1, <2>2
<1> QED
  BY <1>1, <1>2 DEF OnAccepted, TakeRsp, TypeOK, MapOK, MqOK, Live

LEMMA OnRejectedType ==
  ASSUME TypeOK, OnRejected
  PROVE  TypeOK'
<1> DEFINE id == Head(rspRing).id
           o  == orderMap[id]
<1>1. id \in OrderIds /\ rspRing' \in Seq(GatewayRsp)
  BY HeadType DEF OnRejected, TakeRsp
<1>2. MapOK' /\ MqOK' /\ book' \in PositionBook /\ account' \in Account
  <2>1. CASE id \in Live
    <3>1. o \in Order /\ o.req \in Requests
      BY <2>1 DEF TypeOK, Order
    <3>2. o.req.volume \in Int /\ 0 - o.req.volume \in Int
      BY <3>1, RequestType
    <3>3. /\ orderMap' = Erase(id)
          /\ SendRspToStrategy(o, <<Response(id, o, 0, "Rejected")>>)
          /\ book' = UpdatePending(book, o.req, 0 - o.req.volume)
          /\ account' = FundCanceled(account, o.req, o.req.volume)
      BY <2>1 DEF OnRejected
    <3>4. book' \in PositionBook /\ account' \in Account
      BY <3>1, <3>2, <3>3, UpdatePendingType, FundType DEF TypeOK
    <3>5. MapOK'
      BY <1>1, <3>1, <3>3, StoreType DEF TypeOK, MapOK
    <3>6. MqOK'
      BY <1>1, <3>1, <3>3, SendType, OneResponse DEF TypeOK, MqOK, Errors
    <3> QED
      BY <3>4, <3>5, <3>6
  <2>2. CASE id \notin Live
    BY <2>2 DEF OnRejected, TypeOK, MapOK, MqOK, Live
  <2> QED
    BY <2>1, <2>2
<1> QED
  BY <1>1, <1>2 DEF OnRejected, TakeRsp, TypeOK, MapOK, MqOK

LEMMA OnTradedType ==
  ASSUME TypeOK, OnTraded
  PROVE  TypeOK'
<1> DEFINE r == Head(rspRing)
           o == orderMap[r.id]
           a == [o EXCEPT !.accepted = TRUE]
           n == o.traded + r.volume
           t == [a EXCEPT !.traded = n,
                          !.status = IF n = o.req.volume THEN "allTraded"
                                     ELSE IF @ # "canceled" THEN "partTraded" ELSE @]
           accepted == IF o.accepted THEN <<>> ELSE <<Response(r.id, a, 0, "NoError")>>
           last == Response(r.id, t, r.volume, "NoError")
<1>1. r.id \in OrderIds /\ rspRing' \in Seq(GatewayRsp) /\ r.volume \in Nat /\ r.price \in Nat
  BY HeadType DEF OnTraded, TakeRsp
<1>2. MapOK' /\ MqOK' /\ book' \in PositionBook /\ account' \in Account
  <2>1. CASE r.id \in Live
    <3>1. o \in Order /\ o.req \in Requests /\ n \in Int /\ a \in Order
      <4>1. o \in Order
        BY <2>1 DEF TypeOK
      <4>2. o.req \in Requests /\ o.traded \in Int /\ a \in Order
        BY <4>1, OrderUpdates DEF Order
      <4> QED
        BY <1>1, <4>1, <4>2
    <3>2. t \in Order /\ t.req = o.req
      <4>1. a.status \in OrderStatus /\ {"allTraded", "partTraded"} \subseteq OrderStatus
        BY <3>1 DEF Order, OrderStatus
      <4> HIDE DEF n, a
      <4>2. t \in Order
        BY <3>1, <4>1 DEF Order
      <4>3. t.req = a.req
        BY <3>1 DEF Order
      <4>4. a.req = o.req
        BY <3>1 DEF Order, a
      <4> QED
        BY <4>2, <4>3, <4>4
    <3>3. /\ StoreOrErase(r.id, t)
          /\ SendRspToStrategy(o, Append(accepted, last))
          /\ book' = UpdateTraded(book, o.req, r.volume)
          /\ account' = FundTraded(account, o.req, r.volume, r.price)
      BY <2>1 DEF OnTraded
    <3>4. book' \in PositionBook /\ account' \in Account
      <4>1. book \in PositionBook /\ account \in Account
        BY <1>1 DEF TypeOK
      <4> HIDE DEF o, a, n, t
      <4>2. r.volume \in Int /\ r.price \in Int /\ o.req \in Requests
        BY <1>1, <3>1
      <4>3. UpdateTraded(book, o.req, r.volume) \in PositionBook
        BY <4>1, <4>2, UpdateTradedType
      <4>4. FundTraded(account, o.req, r.volume, r.price) \in Account
        BY <4>1, <4>2, FundType
      <4> QED
        BY <3>3, <4>3, <4>4
    <3> HIDE DEF o, a, n, t
    <3>5. MapOK'
      BY <1>1, <3>2, <3>3, StoreType DEF TypeOK, MapOK
    <3>6. last \in OrderResponse /\ accepted \in Seq(OrderResponse)
      BY <1>1, <3>1, <3>2, ResponseType, OneResponse DEF Errors
    <3>7. Append(accepted, last) \in Seq(OrderResponse)
      BY <3>6, AppendProperties
    <3>8. MqOK'
      BY <3>1, <3>3, <3>7, SendType DEF TypeOK, MqOK
    <3> QED
      BY <3>4, <3>5, <3>8
  <2>2. CASE r.id \notin Live
    BY <2>2 DEF OnTraded, TypeOK, MapOK, MqOK, Live
  <2> QED
    BY <2>1, <2>2
<1> QED
  BY <1>1, <1>2 DEF OnTraded, TakeRsp, TypeOK, MapOK, MqOK

LEMMA OnCanceledType ==
  ASSUME TypeOK, OnCanceled
  PROVE  TypeOK'
<1> DEFINE r == Head(rspRing)
           o == orderMap[r.id]
           c == [o EXCEPT !.canceled = r.volume, !.status = "canceled"]
<1>1. r.id \in OrderIds /\ rspRing' \in Seq(GatewayRsp) /\ r.volume \in Nat
  BY HeadType DEF OnCanceled, TakeRsp
<1>2. MapOK' /\ MqOK' /\ book' \in PositionBook /\ account' \in Account
  <2>1. CASE r.id \in Live
    <3>1. o \in Order /\ o.req \in Requests /\ c \in Order
      <4>1. o \in Order
        BY <2>1 DEF TypeOK
      <4>2. r.volume \in Int /\ "canceled" \in OrderStatus
        BY <1>1 DEF OrderStatus
      <4> HIDE DEF o, r
      <4> QED
        BY <4>1, <4>2, OrderUpdates
    <3>2. /\ StoreOrErase(r.id, c)
          /\ SendRspToStrategy(o, <<Response(r.id, c, 0, "NoError")>>)
          /\ book' = UpdatePending(book, o.req, 0 - r.volume)
          /\ account' = FundCanceled(account, o.req, r.volume)
      BY <2>1 DEF OnCanceled
    <3>3. r.volume \in Int /\ 0 - r.volume \in Int
      BY <1>1
    <3>4. book' \in PositionBook /\ account' \in Account
      BY <3>1, <3>2, <3>3, UpdatePendingType, FundType DEF TypeOK
    <3>5. MapOK'
      BY <1>1, <3>1, <3>2, StoreType DEF TypeOK, MapOK
    <3>6. MqOK'
      BY <1>1, <3>1, <3>2, SendType, OneResponse DEF TypeOK, MqOK, Errors
    <3> QED
      BY <3>4, <3>5, <3>6
  <2>2. CASE r.id \notin Live
    BY <2>2 DEF OnCanceled, TypeOK, MapOK, MqOK, Live
  <2> QED
    BY <2>1, <2>2
<1> QED
  BY <1>1, <1>2 DEF OnCanceled, TakeRsp, TypeOK, MapOK, MqOK

LEMMA OnCancelRejectedType ==
  ASSUME TypeOK, OnCancelRejected
  PROVE  TypeOK'
BY HeadType DEF OnCancelRejected, TakeRsp, TypeOK, Live

(* A report put on the ring.                                               *)
LEMMA PushType ==
  ASSUME TypeOK, NEW rsp \in GatewayRsp, PushRsp(rsp),
         cancelReq' \subseteq OrderIds,
         DOMAIN exchange' \subseteq OrderIds,
         exchange' \in [DOMAIN exchange' -> ExchangeOrder]
  PROVE  TypeOK'
<1>1. rspRing' \in Seq(GatewayRsp)
  BY AppendProperties DEF PushRsp, TypeOK
<1> QED
  BY <1>1 DEF PushRsp, OmsUnchanged, TypeOK, Live

LEMMA ExchangeType ==
  ASSUME TypeOK, NEW id \in DOMAIN exchange, Exchange(id)
  PROVE  TypeOK'
<1> DEFINE e == exchange[id]
<1>1. /\ id \in OrderIds /\ e \in ExchangeOrder /\ e.req \in Requests
      /\ e.open \in Nat /\ e.filled \in Nat /\ e.due \in Nat /\ e.accepts \in Nat
  BY DEF TypeOK, ExchangeOrder
<1>2. CASE ExchangeAccept(id)
  <2>1. [kind |-> "accepted", id |-> id] \in GatewayRsp
    BY <1>1 DEF GatewayRsp
  <2>2. exchange' \in [DOMAIN exchange -> ExchangeOrder] /\ DOMAIN exchange' = DOMAIN exchange
    <3>1. e.accepts + 1 \in Nat
      BY <1>1
    <3> QED
      BY <1>1, <1>2, <3>1 DEF ExchangeAccept, TypeOK, ExchangeOrder
  <2>3. PushRsp([kind |-> "accepted", id |-> id]) /\ cancelReq' \subseteq OrderIds
    BY <1>2 DEF ExchangeAccept, TypeOK
  <2> QED
    BY <2>1, <2>2, <2>3, PushType DEF TypeOK
<1>3. CASE ExchangeReject(id)
  <2>1. [kind |-> "rejected", id |-> id] \in GatewayRsp
    BY <1>1 DEF GatewayRsp
  <2>2. exchange' \in [DOMAIN exchange -> ExchangeOrder] /\ DOMAIN exchange' = DOMAIN exchange
    BY <1>1, <1>3 DEF ExchangeReject, TypeOK, ExchangeOrder
  <2>3. PushRsp([kind |-> "rejected", id |-> id]) /\ cancelReq' \subseteq OrderIds
    BY <1>3 DEF ExchangeReject, TypeOK
  <2> QED
    BY <2>1, <2>2, <2>3, PushType DEF TypeOK
<1>4. CASE ExchangeCancel(id)
  <2>1. [kind |-> "canceled", id |-> id, volume |-> e.open] \in GatewayRsp
    BY <1>1, <1>4 DEF GatewayRsp, ExchangeCancel
  <2>2. exchange' \in [DOMAIN exchange -> ExchangeOrder] /\ DOMAIN exchange' = DOMAIN exchange
    BY <1>1, <1>4 DEF ExchangeCancel, TypeOK, ExchangeOrder
  <2>3. PushRsp([kind |-> "canceled", id |-> id, volume |-> e.open]) /\ cancelReq' \subseteq OrderIds
    BY <1>4 DEF ExchangeCancel, TypeOK
  <2> QED
    BY <2>1, <2>2, <2>3, PushType DEF TypeOK
<1>5. CASE RejectCancel(id)
  <2>1. [kind |-> "cancelRejected", id |-> id] \in GatewayRsp
    BY <1>1 DEF GatewayRsp
  <2> QED
    BY <1>5, <2>1, PushType DEF RejectCancel, TypeOK
<1>6. ASSUME NEW v \in 1 .. e.req.volume, ExchangeExecute(id, v)
      PROVE  TypeOK'
  <2>1. v \in Nat /\ e.open - v \in Nat /\ e.filled + v \in Nat /\ e.due + v \in Nat
    BY <1>1, <1>6, RequestType DEF ExchangeExecute
  <2>2. exchange' \in [DOMAIN exchange -> ExchangeOrder] /\ DOMAIN exchange' = DOMAIN exchange
    BY <1>1, <1>6, <2>1 DEF ExchangeExecute, TypeOK, ExchangeOrder
  <2> QED
    BY <1>6, <2>2 DEF ExchangeExecute, OmsUnchanged, TypeOK, Live
<1>7. ASSUME NEW v \in 1 .. e.req.volume, NEW p \in TradePrices, ReportTrade(id, v, p)
      PROVE  TypeOK'
  <2>1. v \in Nat /\ v > 0 /\ p \in Nat /\ e.due - v \in Nat
    BY <1>1, <1>7, RequestType, OmsAssumption DEF ReportTrade
  <2>2. [kind |-> "traded", id |-> id, volume |-> v, price |-> p] \in GatewayRsp
    BY <1>1, <2>1 DEF GatewayRsp
  <2>3. exchange' \in [DOMAIN exchange -> ExchangeOrder] /\ DOMAIN exchange' = DOMAIN exchange
    BY <1>1, <1>7, <2>1 DEF ReportTrade, TypeOK, ExchangeOrder
  <2> QED
    BY <1>7, <2>2, <2>3, PushType DEF ReportTrade, TypeOK
<1> QED
  BY <1>2, <1>3, <1>4, <1>5, <1>6, <1>7 DEF Exchange

LEMMA OnAccountType ==
  ASSUME TypeOK, NEW a \in BrokerAccounts, OnAccount(a)
  PROVE  TypeOK'
<1>1. a \in Account
  BY OmsAssumption
<1>2. baseline' \in [money : Int, frozen : Int]
  BY <1>1, BaselineType DEF OnAccount, TypeOK, Live
<1> QED
  BY <1>1, <1>2 DEF OnAccount, TypeOK, Live

LEMMA InitType == Init => TypeOK
<1> SUFFICES ASSUME Init PROVE TypeOK
  OBVIOUS
<1>1. rspRing \in Seq(GatewayRsp) /\ rspMq \in [Strategies -> Seq(OrderResponse)]
  BY DEF Init
<1>2. orderMap \in [Live -> Order] /\ Live = {}
  BY DEF Init, Live
<1>3. exchange \in [DOMAIN exchange -> ExchangeOrder] /\ DOMAIN exchange = {}
  BY DEF Init
<1>4. baseline \in [money : Int, frozen : Int]
  <2>1. DOMAIN orderMap \subseteq OrderIds /\ orderMap \in [DOMAIN orderMap -> Order]
    BY <1>2 DEF Live
  <2> QED
    BY <2>1, BaselineType, OmsAssumption DEF Init
<1> QED
  BY <1>1, <1>2, <1>3, <1>4, OmsAssumption DEF Init, TypeOK

LEMMA NextType == TypeOK /\ [Next]_vars => TypeOK'
<1> SUFFICES ASSUME TypeOK, [Next]_vars PROVE TypeOK'
  OBVIOUS
<1>1. CASE ExecuteCmd
  BY <1>1, RefuseType, FailToSendType, SubmitType, DoCancelType
     DEF ExecuteCmd, CancelOrder, CancelForTicker, CancelAll
<1>2. CASE ProcessRsp
  BY <1>2, OnAcceptedType, OnRejectedType, OnTradedType, OnCanceledType, OnCancelRejectedType
     DEF ProcessRsp
<1>3. ASSUME NEW id \in DOMAIN exchange, Exchange(id) PROVE TypeOK'
  BY <1>3, ExchangeType
<1>4. ASSUME NEW a \in BrokerAccounts, OnAccount(a) PROVE TypeOK'
  BY <1>4, OnAccountType
<1>5. CASE UNCHANGED vars
  BY <1>5 DEF vars, TypeOK, Live
<1> QED
  BY <1>1, <1>2, <1>3, <1>4, <1>5 DEF Next

(* Every reachable state of the trader has the types TypeOK gives.         *)
THEOREM TypeCorrect == Spec => []TypeOK
BY InitType, NextType, PTL DEF Spec

-----------------------------------------------------------------------------
(* Sums over the order map.                                                *)

IsMap(m) == DOMAIN m \subseteq OrderIds /\ m \in [DOMAIN m -> Order]

SameBut(m, n, id) ==
  \A i \in OrderIds : i # id =>
    /\ i \in DOMAIN n <=> i \in DOMAIN m
    /\ i \in DOMAIN m => n[i] = m[i]

(* What is left of an order: nothing when it is not in the map.            *)
LeftIn(m, id) == IF id \in DOMAIN m THEN Left(m[id]) ELSE 0

OnSide(req, p, t, d) ==
  FindCalculator(req.strategy) = p /\ req.ticker = t /\ SideOf(req) = d

(* What is left of an order is an integer, and so is its weight.           *)
LEMMA WeightType ==
  ASSUME NEW m, IsMap(m), NEW i \in OrderIds, NEW p, NEW t, NEW d, NEW offsets
  PROVE  /\ LeftIn(m, i) \in Int
         /\ Weight(m, i, p, t, d, offsets) \in Int
         /\ FrozenWeight(m, i) \in Int
<1>1. CASE i \in DOMAIN m
  <2>1. m[i] \in Order
    BY <1>1 DEF IsMap
  <2>2. Left(m[i]) \in Int /\ m[i].req \in Requests /\ m[i].req.price \in Int
    <3>1. m[i].req \in Requests /\ m[i].traded \in Int /\ m[i].canceled \in Int
      BY <2>1 DEF Order
    <3> QED
      BY <3>1, RequestType DEF Left
  <2>3. MarginOf(m[i].req, Left(m[i]), m[i].req.price) \in Int
    BY <2>2, MarginOfType
  <2> QED
    BY <1>1, <2>2, <2>3 DEF LeftIn, Weight, FrozenWeight
<1>2. CASE i \notin DOMAIN m
  BY <1>2 DEF LeftIn, Weight, FrozenWeight
<1> QED
  BY <1>1, <1>2

(* The volume outstanding moves by as much as the one order that changed.  *)
LEMMA OutstandingUpdate ==
  ASSUME NEW m, NEW n, IsMap(m), IsMap(n), NEW id \in OrderIds, SameBut(m, n, id),
         NEW p, NEW t, NEW d, NEW offsets
  PROVE  Outstanding(n, p, t, d, offsets)
           = Outstanding(m, p, t, d, offsets)
               + (Weight(n, id, p, t, d, offsets) - Weight(m, id, p, t, d, offsets))
<1> DEFINE f == [i \in OrderIds |-> Weight(m, i, p, t, d, offsets)]
           g == [i \in OrderIds |-> Weight(n, i, p, t, d, offsets)]
<1>1. f \in [1 .. MaxOrders -> Int] /\ g \in [1 .. MaxOrders -> Int]
  BY WeightType DEF OrderIds
<1>2. ASSUME NEW i \in 1 .. MaxOrders, i # id PROVE g[i] = f[i]
  BY <1>2 DEF SameBut, Weight, OrderIds
<1>3. f[id] = Weight(m, id, p, t, d, offsets) /\ g[id] = Weight(n, id, p, t, d, offsets)
  OBVIOUS
<1>4. MaxOrders \in Nat /\ id \in 1 .. MaxOrders
  BY OmsAssumption DEF OrderIds
<1> HIDE DEF f, g
<1>5. SumTo(g, MaxOrders) = SumTo(f, MaxOrders) + (g[id] - f[id])
  BY <1>1, <1>2, <1>4, SumToUpdate
<1> QED
  BY <1>3, <1>5 DEF Outstanding, f, g

(* The same for the frozen money.                                          *)
LEMMA FrozenUpdate ==
  ASSUME NEW m, NEW n, IsMap(m), IsMap(n), NEW id \in OrderIds, SameBut(m, n, id)
  PROVE  /\ FrozenSum(m) \in Int
         /\ FrozenSum(n) = FrozenSum(m) + (FrozenWeight(n, id) - FrozenWeight(m, id))
<1> DEFINE f == [i \in OrderIds |-> FrozenWeight(m, i)]
           g == [i \in OrderIds |-> FrozenWeight(n, i)]
<1>1. f \in [1 .. MaxOrders -> Int] /\ g \in [1 .. MaxOrders -> Int]
  BY WeightType DEF OrderIds
<1>2. ASSUME NEW i \in 1 .. MaxOrders, i # id PROVE g[i] = f[i]
  BY <1>2 DEF SameBut, FrozenWeight, OrderIds
<1>3. f[id] = FrozenWeight(m, id) /\ g[id] = FrozenWeight(n, id)
  OBVIOUS
<1>4. MaxOrders \in Nat /\ id \in 1 .. MaxOrders
  BY OmsAssumption DEF OrderIds
<1> HIDE DEF f, g
<1>5. SumTo(g, MaxOrders) = SumTo(f, MaxOrders) + (g[id] - f[id]) /\ SumTo(f, MaxOrders) \in Int
  BY <1>1, <1>2, <1>4, SumToUpdate, SumToInt
<1> QED
  BY <1>3, <1>5 DEF FrozenSum, f, g

-----------------------------------------------------------------------------
(* What the handlers do to the counters.                                   *)

(* The part of x a counter for these offsets gets from a request.          *)
Share(req, p, t, d, offsets, x) ==
  IF OnSide(req, p, t, d) /\ req.offset \in offsets THEN x ELSE 0

(* The pending counters of book c are those of book b, moved by x on the   *)
(* side and for the offset of the request.                                 *)
CountersMove(b, c, req, x) ==
  \A p \in Pools, t \in Tickers, d \in Directions :
    /\ c[p][t][d].openPending
         = b[p][t][d].openPending + Share(req, p, t, d, {"open"}, x)
    /\ c[p][t][d].closePending
         = b[p][t][d].closePending + Share(req, p, t, d, CloseOffsets, x)

(* An order opens or closes.                                               *)
LEMMA OpenOrClose ==
  ASSUME NEW req \in Requests
  PROVE  /\ req.offset \in {"open"} <=> IsOffsetOpen(req.offset)
         /\ req.offset \in CloseOffsets <=> IsOffsetClose(req.offset)
         /\ IsOffsetOpen(req.offset) <=> ~ IsOffsetClose(req.offset)
BY RequestType DEF IsOffsetOpen, IsOffsetClose, CloseOffsets, Offsets

(* A change of the one detail an order works on moves only that one.       *)
LEMMA DetailEffect ==
  ASSUME NEW b \in PositionBook, NEW req \in Requests, NEW new \in PositionDetail,
         NEW x \in Int, NEW c,
         c = [b EXCEPT ![FindCalculator(req.strategy)][req.ticker][SideOf(req)] = new],
         LET old == b[FindCalculator(req.strategy)][req.ticker][SideOf(req)]
         IN  /\ new.openPending
                  = IF IsOffsetOpen(req.offset) THEN old.openPending + x ELSE old.openPending
             /\ new.closePending
                  = IF IsOffsetOpen(req.offset) THEN old.closePending ELSE old.closePending + x
  PROVE  CountersMove(b, c, req, x)
<1> SUFFICES ASSUME NEW p \in Pools, NEW t \in Tickers, NEW d \in Directions
             PROVE  /\ c[p][t][d].openPending
                         = b[p][t][d].openPending + Share(req, p, t, d, {"open"}, x)
                    /\ c[p][t][d].closePending
                         = b[p][t][d].closePending + Share(req, p, t, d, CloseOffsets, x)
  BY DEF CountersMove
<1>1. b[p][t][d].openPending \in Int /\ b[p][t][d].closePending \in Int
  BY DEF PositionBook, PositionDetail
<1>2. CASE OnSide(req, p, t, d)
  <2>1. c[p][t][d] = new
    BY <1>2, RequestType DEF OnSide, PositionBook
  <2> QED
    BY <1>1, <1>2, <2>1, OpenOrClose DEF OnSide, Share
<1>3. CASE ~ OnSide(req, p, t, d)
  <2>1. c[p][t][d] = b[p][t][d]
    BY <1>3, RequestType DEF OnSide, PositionBook
  <2> QED
    BY <1>1, <1>3, <2>1 DEF Share
<1> QED
  BY <1>2, <1>3

(* Pending volume counted is pending volume on the order's side.           *)
LEMMA PendingEffect ==
  ASSUME NEW b \in PositionBook, NEW req \in Requests, NEW x \in Int
  PROVE  CountersMove(b, UpdatePending(b, req, x), req, x)
<1> DEFINE old == b[FindCalculator(req.strategy)][req.ticker][SideOf(req)]
           new == PendingDetail(old, req.offset, x)
<1>1. old \in PositionDetail
  BY RequestType DEF PositionBook
<1> HIDE DEF old
<1>2. old.openPending \in Int /\ old.closePending \in Int
  BY <1>1 DEF PositionDetail
<1>3. new \in PositionDetail
  BY <1>1, <1>2 DEF PendingDetail, PositionDetail
<1>4. /\ new.openPending
            = IF IsOffsetOpen(req.offset) THEN old.openPending + x ELSE old.openPending
      /\ new.closePending
            = IF IsOffsetOpen(req.offset) THEN old.closePending ELSE old.closePending + x
  BY <1>1, OpenOrClose DEF PendingDetail, PositionDetail
<1>5. UpdatePending(b, req, x)
        = [b EXCEPT ![FindCalculator(req.strategy)][req.ticker][SideOf(req)] = new]
  BY DEF UpdatePending, old
<1> HIDE DEF new
<1> QED
  BY <1>3, <1>4, <1>5, DetailEffect DEF old

(* A trade takes its volume off the pending counter of the order's side.   *)
LEMMA TradedEffect ==
  ASSUME NEW b \in PositionBook, NEW req \in Requests, NEW v \in Int
  PROVE  CountersMove(b, UpdateTraded(b, req, v), req, 0 - v)
<1> DEFINE old == b[FindCalculator(req.strategy)][req.ticker][SideOf(req)]
           new == TradedDetail(old, req.offset, v)
<1>1. old \in PositionDetail
  BY RequestType DEF PositionBook
<1> HIDE DEF old
<1>2. old.openPending \in Int /\ old.closePending \in Int
  BY <1>1 DEF PositionDetail
<1>3. new \in PositionDetail
  BY <1>1, TradedDetailType
<1>4. /\ new.openPending
            = IF IsOffsetOpen(req.offset) THEN old.openPending + (0 - v) ELSE old.openPending
      /\ new.closePending
            = IF IsOffsetOpen(req.offset) THEN old.closePending ELSE old.closePending + (0 - v)
  <2> DEFINE left == old.holdings - v
             yd   == AtMost(left, IF req.offset \in {"close", "close_yesterday"}
                                  THEN old.yd - AtMost(old.yd, v) ELSE old.yd)
  <2>1. new = IF IsOffsetClose(req.offset)
              THEN [old EXCEPT !.closePending = @ - v, !.holdings = left, !.yd = yd]
              ELSE [old EXCEPT !.openPending = @ - v, !.holdings = @ + v]
    BY DEF TradedDetail
  <2> HIDE DEF left, yd, new
  <2>2. CASE IsOffsetOpen(req.offset)
    BY <1>1, <1>2, <2>1, <2>2, OpenOrClose DEF PositionDetail
  <2>3. CASE ~ IsOffsetOpen(req.offset)
    BY <1>1, <1>2, <2>1, <2>3, OpenOrClose DEF PositionDetail
  <2> QED
    BY <2>2, <2>3
<1>5. UpdateTraded(b, req, v)
        = [b EXCEPT ![FindCalculator(req.strategy)][req.ticker][SideOf(req)] = new]
  BY DEF UpdateTraded, old
<1>6. 0 - v \in Int
  OBVIOUS
<1> HIDE DEF new
<1> QED
  BY <1>3, <1>4, <1>5, <1>6, DetailEffect DEF old

-----------------------------------------------------------------------------
(* What the handlers do to the frozen money.                               *)

(* Frozen money moves by the margin of x at the price of the order.        *)
FrozenMoves(a, c, req, x) ==
  c.frozen = a.frozen + (IF IsOffsetOpen(req.offset) THEN MarginOf(req, x, req.price) ELSE 0)

(* The margin of a difference is the difference of the margins.            *)
LEMMA MarginOfDifference ==
  ASSUME NEW req \in Requests, NEW x \in Int, NEW y \in Int
  PROVE  MarginOf(req, x - y, req.price) = MarginOf(req, x, req.price) - MarginOf(req, y, req.price)
<1> DEFINE k == req.price * MarginUnit[req.ticker][req.direction]
<1>1. MarginUnit[req.ticker][req.direction] \in Nat /\ req.price \in Nat
  BY RequestType, MarginAssumption
<1>2. k \in Int
  BY <1>1
<1> HIDE DEF k
<1>3. (x - y) * k = x * k - y * k
  BY <1>2
<1> QED
  BY <1>3 DEF MarginOf, k

(* Nothing of an order needs no margin.                                    *)
LEMMA MarginOfNothing ==
  ASSUME NEW req \in Requests
  PROVE  MarginOf(req, 0, req.price) = 0
<1>1. MarginUnit[req.ticker][req.direction] \in Nat /\ req.price \in Nat
  BY RequestType, MarginAssumption
<1>2. req.price * MarginUnit[req.ticker][req.direction] \in Int
  BY <1>1
<1> QED
  BY <1>2 DEF MarginOf

LEMMA FundEffect ==
  ASSUME NEW a \in Account, NEW req \in Requests, NEW x \in Int, NEW p \in Int
  PROVE  /\ FrozenMoves(a, FundSent(a, req), req, req.volume)
         /\ FrozenMoves(a, FundTraded(a, req, x, p), req, 0 - x)
         /\ FrozenMoves(a, FundCanceled(a, req, x), req, 0 - x)
<1>1. a.frozen \in Int /\ a.margin \in Int /\ a.cash \in Int
  BY DEF Account
<1>2. MarginOf(req, 0 - x, req.price) = 0 - MarginOf(req, x, req.price)
  BY MarginOfDifference, MarginOfNothing, MarginOfType, RequestType
<1>3. MarginOf(req, x, req.price) \in Int /\ MarginOf(req, req.volume, req.price) \in Int
  BY MarginOfType, RequestType
<1>4. FrozenMoves(a, FundSent(a, req), req, req.volume)
  BY <1>1, <1>3 DEF Account, FundSent, FrozenMoves
<1>5. FrozenMoves(a, FundTraded(a, req, x, p), req, 0 - x)
  <2>1. CASE IsOffsetOpen(req.offset)
    BY <1>1, <1>2, <1>3, <2>1 DEF Account, FundTraded, FrozenMoves
  <2>2. CASE ~ IsOffsetOpen(req.offset)
    BY <1>1, <2>2 DEF Account, FundTraded, FrozenMoves
  <2> QED
    BY <2>1, <2>2
<1>6. FrozenMoves(a, FundCanceled(a, req, x), req, 0 - x)
  BY <1>1, <1>2, <1>3 DEF Account, FundCanceled, FrozenMoves
<1> QED
  BY <1>4, <1>5, <1>6

-----------------------------------------------------------------------------
(* One order changes: the ledgers follow.                                  *)

(* The weight of an order is the share of what is left of it.              *)
LEMMA WeightIsShare ==
  ASSUME NEW m, NEW id \in OrderIds, NEW req \in Requests,
         id \in DOMAIN m => m[id].req = req,
         NEW p, NEW t, NEW d, NEW offsets
  PROVE  /\ Weight(m, id, p, t, d, offsets) = Share(req, p, t, d, offsets, LeftIn(m, id))
         /\ FrozenWeight(m, id) = IF IsOffsetOpen(req.offset)
                                  THEN MarginOf(req, LeftIn(m, id), req.price) ELSE 0
BY MarginOfNothing DEF Weight, FrozenWeight, Share, OnSide, LeftIn

(* Only order id changes in the map, and the counters and the frozen money *)
(* move by what its rest moved.                                            *)
OneOrder(id, req, x) ==
  /\ SameBut(orderMap, orderMap', id)
  /\ id \in DOMAIN orderMap => orderMap[id].req = req
  /\ id \in DOMAIN orderMap' => orderMap'[id].req = req
  /\ x = LeftIn(orderMap', id) - LeftIn(orderMap, id)
  /\ CountersMove(book, book', req, x)
  /\ FrozenMoves(account, account', req, x)

LEMMA LedgerStep ==
  ASSUME TypeOK, TypeOK', PendingAccounted, FrozenAccounted,
         NEW id \in OrderIds, NEW req \in Requests, NEW x \in Int, OneOrder(id, req, x),
         baseline' = baseline
  PROVE  PendingAccounted' /\ FrozenAccounted'
<1>1. IsMap(orderMap) /\ IsMap(orderMap')
  BY DEF TypeOK, Live, IsMap
<1>2. LeftIn(orderMap, id) \in Int /\ LeftIn(orderMap', id) \in Int
  BY <1>1, WeightType
<1>3. ASSUME NEW p \in Pools, NEW t \in Tickers, NEW d \in Directions, NEW offsets
      PROVE  Outstanding(orderMap', p, t, d, offsets)
               = Outstanding(orderMap, p, t, d, offsets) + Share(req, p, t, d, offsets, x)
  <2>1. /\ Weight(orderMap, id, p, t, d, offsets)
             = Share(req, p, t, d, offsets, LeftIn(orderMap, id))
        /\ Weight(orderMap', id, p, t, d, offsets)
             = Share(req, p, t, d, offsets, LeftIn(orderMap', id))
    BY WeightIsShare DEF OneOrder
  <2>2. Share(req, p, t, d, offsets, LeftIn(orderMap', id))
          - Share(req, p, t, d, offsets, LeftIn(orderMap, id)) = Share(req, p, t, d, offsets, x)
    BY <1>2 DEF Share, OneOrder
  <2> QED
    BY <1>1, <2>1, <2>2, OutstandingUpdate DEF OneOrder
<1>4. PendingAccounted'
  BY <1>3 DEF PendingAccounted, OneOrder, CountersMove
<1>5. FrozenAccounted'
  <2> DEFINE M(y) == IF IsOffsetOpen(req.offset) THEN MarginOf(req, y, req.price) ELSE 0
  <2>1. /\ FrozenWeight(orderMap, id) = M(LeftIn(orderMap, id))
        /\ FrozenWeight(orderMap', id) = M(LeftIn(orderMap', id))
    BY WeightIsShare DEF OneOrder
  <2>2. /\ M(LeftIn(orderMap', id)) - M(LeftIn(orderMap, id)) = M(x)
        /\ M(x) \in Int
    <3>1. ASSUME NEW y \in Int, NEW z \in Int
          PROVE  M(y) - M(z) = M(y - z) /\ M(y) \in Int
      <4>1. req.price \in Int
        BY RequestType
      <4>2. /\ MarginOf(req, y, req.price) \in Int
            /\ MarginOf(req, y - z, req.price)
                 = MarginOf(req, y, req.price) - MarginOf(req, z, req.price)
        BY <4>1, MarginOfDifference, MarginOfType
      <4> QED
        BY <4>2
    <3> HIDE DEF M
    <3> QED
      BY <1>2, <3>1 DEF OneOrder
  <2>3. account'.frozen = account.frozen + M(x)
    BY DEF OneOrder, FrozenMoves
  <2> HIDE DEF M
  <2>4. FrozenSum(orderMap') = FrozenSum(orderMap) + M(x) /\ FrozenSum(orderMap) \in Int
    BY <1>1, <2>1, <2>2, FrozenUpdate DEF OneOrder
  <2>5. account.frozen = baseline.frozen + FrozenSum(orderMap) /\ baseline.frozen \in Int
    BY DEF FrozenAccounted, TypeOK
  <2>6. account'.frozen = baseline.frozen + FrozenSum(orderMap')
    BY <2>2, <2>3, <2>4, <2>5
  <2> QED
    BY <2>6 DEF FrozenAccounted
<1> QED
  BY <1>4, <1>5

-----------------------------------------------------------------------------
(* FinalReportOnce is inductive.                                           *)

(* A handler takes the report at the head of the ring.                     *)
LEMMA HandlerReports ==
  ASSUME TypeOK, FinalReportOnce, rspRing # <<>>, rspRing' = Tail(rspRing),
         UNCHANGED <<nextOrderId, exchange>>,
         Live' \subseteq Live,
         \A i \in Live' :
           /\ \/ orderMap'[i].canceled = orderMap[i].canceled
              \/ i = Head(rspRing).id /\ Final(Head(rspRing))
           /\ \/ orderMap'[i].traded = orderMap[i].traded
              \/ i = Head(rspRing).id /\ Head(rspRing).kind = "traded"
  PROVE  FinalReportOnce'
<1>1. /\ Len(rspRing) \in Nat /\ Len(rspRing) > 0 /\ Len(rspRing') = Len(rspRing) - 1
      /\ Head(rspRing) = rspRing[1]
      /\ \A k \in 1 .. Len(rspRing') : rspRing'[k] = rspRing[k + 1]
  BY HeadTailProperties, LenProperties, EmptySeq DEF TypeOK
<1>2. /\ ExchangeCounts /\ ReportsOnRing /\ LiveOrders
      /\ exchange' = exchange /\ nextOrderId' = nextOrderId
  BY DEF FinalReportOnce
<1>3. ExchangeCounts'
  BY <1>2 DEF ExchangeCounts
<1>4. LiveOrders'
  <2> SUFFICES ASSUME NEW i \in Live'
               PROVE  /\ i \in DOMAIN exchange
                      /\ orderMap'[i].canceled # 0 => exchange[i].open = 0
                      /\ orderMap'[i].traded # 0 => exchange[i].filled > 0
    BY <1>2 DEF LiveOrders
  <2>1. /\ Final(rspRing[1]) => exchange[rspRing[1].id].open = 0
        /\ rspRing[1].kind = "traded" => exchange[rspRing[1].id].filled > 0
    BY <1>1, <1>2 DEF ReportsOnRing
  <2> QED
    BY <1>1, <1>2, <2>1 DEF LiveOrders
<1>5. ReportsOnRing'
  <2> SUFFICES ASSUME NEW k \in 1 .. Len(rspRing')
               PROVE  LET r == rspRing'[k]
                          e == exchange[r.id]
                      IN  /\ r.id \in DOMAIN exchange
                          /\ r.kind = "traded" => e.filled > 0
                          /\ r.kind = "rejected" => e.filled = 0
                          /\ Final(r) =>
                               /\ e.open = 0
                               /\ r.id \in Live' => orderMap'[r.id].canceled = 0
                               /\ \A j \in 1 .. Len(rspRing') :
                                    j # k => ~ (Final(rspRing'[j]) /\ rspRing'[j].id = r.id)
    BY <1>2 DEF ReportsOnRing, Final
  <2> DEFINE r == rspRing[k + 1]
             e == exchange[r.id]
  <2>1. k + 1 \in 1 .. Len(rspRing) /\ rspRing'[k] = r /\ k + 1 # 1 /\ 1 \in 1 .. Len(rspRing)
    BY <1>1
  <2>2. /\ r.id \in DOMAIN exchange
        /\ r.kind = "traded" => e.filled > 0
        /\ r.kind = "rejected" => e.filled = 0
        /\ Final(r) => /\ e.open = 0
                       /\ r.id \in Live => orderMap[r.id].canceled = 0
                       /\ \A j \in 1 .. Len(rspRing) :
                            j # k + 1 => ~ (Final(rspRing[j]) /\ rspRing[j].id = r.id)
    BY <1>2, <2>1 DEF ReportsOnRing
  <2> HIDE DEF r, e
  <2>3. ASSUME Final(r), r.id \in Live' PROVE orderMap'[r.id].canceled = 0
    BY <1>1, <2>1, <2>2, <2>3
  <2>4. ASSUME Final(r), NEW j \in 1 .. Len(rspRing'), j # k
        PROVE  ~ (Final(rspRing'[j]) /\ rspRing'[j].id = r.id)
    <3>1. j + 1 \in 1 .. Len(rspRing) /\ rspRing'[j] = rspRing[j + 1] /\ j + 1 # k + 1
      BY <1>1, <2>4
    <3> QED
      BY <2>2, <2>4, <3>1
  <2> QED
    BY <2>1, <2>2, <2>3, <2>4 DEF e
<1> QED
  BY <1>3, <1>4, <1>5 DEF FinalReportOnce

(* A callback puts a report about order id on the ring.                    *)
LEMMA CallbackReports ==
  ASSUME TypeOK, TypeOK', FinalReportOnce, NEW id \in DOMAIN exchange,
         NEW rsp \in GatewayRsp, rsp.id = id, PushRsp(rsp),
         DOMAIN exchange' = DOMAIN exchange,
         \A i \in DOMAIN exchange : i # id => exchange'[i] = exchange[i],
         /\ exchange'[id].req = exchange[id].req
         /\ exchange'[id].filled = exchange[id].filled
         /\ exchange'[id].due <= exchange[id].due
         /\ exchange'[id].open <= exchange[id].open,
         rsp.kind = "traded" => exchange[id].filled > 0,
         rsp.kind = "rejected" => exchange[id].filled = 0,
         Final(rsp) => exchange[id].open > 0 /\ exchange'[id].open = 0
  PROVE  FinalReportOnce'
<1>1. /\ Len(rspRing) \in Nat /\ Len(rspRing') = Len(rspRing) + 1
      /\ rspRing'[Len(rspRing) + 1] = rsp
      /\ \A k \in 1 .. Len(rspRing) : rspRing'[k] = rspRing[k]
  BY AppendProperties, LenProperties DEF TypeOK, PushRsp
<1>2. /\ ExchangeCounts /\ ReportsOnRing /\ LiveOrders
      /\ orderMap' = orderMap /\ Live' = Live /\ nextOrderId' = nextOrderId
  BY DEF FinalReportOnce, PushRsp, OmsUnchanged, Live
<1>3. \A i \in DOMAIN exchange :
        /\ exchange[i].open \in Nat /\ exchange[i].filled \in Nat /\ exchange[i].due \in Nat
        /\ exchange'[i].open \in Nat /\ exchange'[i].filled \in Nat /\ exchange'[i].due \in Nat
        /\ exchange[i].req.volume \in Nat
        /\ exchange'[i].req = exchange[i].req /\ exchange'[i].filled = exchange[i].filled
        /\ exchange'[i].due <= exchange[i].due /\ exchange'[i].open <= exchange[i].open
  <2> SUFFICES ASSUME NEW i \in DOMAIN exchange
               PROVE  /\ exchange[i].open \in Nat /\ exchange[i].filled \in Nat
                      /\ exchange[i].due \in Nat /\ exchange'[i].open \in Nat
                      /\ exchange'[i].filled \in Nat /\ exchange'[i].due \in Nat
                      /\ exchange[i].req.volume \in Nat
                      /\ exchange'[i].req = exchange[i].req
                      /\ exchange'[i].filled = exchange[i].filled
                      /\ exchange'[i].due <= exchange[i].due
                      /\ exchange'[i].open <= exchange[i].open
    OBVIOUS
  <2>1. exchange[i] \in ExchangeOrder /\ exchange'[i] \in ExchangeOrder
    BY DEF TypeOK
  <2>2. exchange[i].req.volume \in Nat
    BY <2>1, RequestType DEF ExchangeOrder
  <2>3. CASE i = id
    BY <2>1, <2>2, <2>3 DEF ExchangeOrder
  <2>4. CASE i # id
    BY <2>1, <2>2, <2>4 DEF ExchangeOrder
  <2> QED
    BY <2>3, <2>4
<1>4. ExchangeCounts'
  BY <1>2, <1>3 DEF ExchangeCounts
<1>5. LiveOrders'
  BY <1>2, <1>3 DEF LiveOrders
<1>6. ReportsOnRing'
  <2> SUFFICES ASSUME NEW k \in 1 .. Len(rspRing')
               PROVE  LET r == rspRing'[k]
                          e == exchange'[r.id]
                      IN  /\ r.id \in DOMAIN exchange
                          /\ r.kind = "traded" => e.filled > 0
                          /\ r.kind = "rejected" => e.filled = 0
                          /\ Final(r) =>
                               /\ e.open = 0
                               /\ r.id \in Live => orderMap[r.id].canceled = 0
                               /\ \A j \in 1 .. Len(rspRing') :
                                    j # k => ~ (Final(rspRing'[j]) /\ rspRing'[j].id = r.id)
    BY <1>2 DEF ReportsOnRing, Final
  <2>1. CASE k = Len(rspRing) + 1
    <3>1. rspRing'[k] = rsp
      BY <1>1, <2>1
    <3>2. ASSUME Final(rsp), NEW j \in 1 .. Len(rspRing'), j # k
          PROVE  ~ (Final(rspRing'[j]) /\ rspRing'[j].id = id)
      <4>1. j \in 1 .. Len(rspRing) /\ rspRing'[j] = rspRing[j]
        BY <1>1, <2>1, <3>2
      <4> QED
        BY <1>2, <1>3, <3>2, <4>1 DEF ReportsOnRing
    <3>3. Final(rsp) /\ id \in Live => orderMap[id].canceled = 0
      BY <1>2, <1>3 DEF LiveOrders
    <3> QED
      BY <1>3, <3>1, <3>2, <3>3
  <2>2. CASE k \in 1 .. Len(rspRing)
    <3> DEFINE r == rspRing[k]
               e == exchange[r.id]
    <3>1. rspRing'[k] = r
      BY <1>1, <2>2
    <3>2. /\ r.id \in DOMAIN exchange
          /\ r.kind = "traded" => e.filled > 0
          /\ r.kind = "rejected" => e.filled = 0
          /\ Final(r) => /\ e.open = 0
                         /\ r.id \in Live => orderMap[r.id].canceled = 0
                         /\ \A j \in 1 .. Len(rspRing) :
                              j # k => ~ (Final(rspRing[j]) /\ rspRing[j].id = r.id)
      BY <1>2, <2>2 DEF ReportsOnRing
    <3> HIDE DEF r
    <3>3. exchange'[r.id].filled = e.filled /\ (e.open = 0 => exchange'[r.id].open = 0)
      BY <1>3, <3>2
    <3>4. ASSUME Final(r), NEW j \in 1 .. Len(rspRing'), j # k
          PROVE  ~ (Final(rspRing'[j]) /\ rspRing'[j].id = r.id)
      <4>1. CASE j = Len(rspRing) + 1
        BY <1>1, <1>3, <3>2, <3>4, <4>1
      <4>2. CASE j \in 1 .. Len(rspRing)
        BY <1>1, <3>2, <3>4, <4>2
      <4> QED
        BY <1>1, <4>1, <4>2
    <3> QED
      BY <3>1, <3>2, <3>3, <3>4
  <2> QED
    BY <1>1, <2>1, <2>2
<1> QED
  BY <1>4, <1>5, <1>6 DEF FinalReportOnce

LEMMA ExecuteReports ==
  ASSUME TypeOK, TypeOK', FinalReportOnce, NEW id \in DOMAIN exchange,
         NEW v \in Nat \ {0}, ExchangeExecute(id, v)
  PROVE  FinalReportOnce'
<1>1. /\ exchange[id].open >= v
      /\ DOMAIN exchange' = DOMAIN exchange
      /\ \A i \in DOMAIN exchange : i # id => exchange'[i] = exchange[i]
      /\ exchange'[id].req = exchange[id].req
      /\ exchange'[id].open = exchange[id].open - v
      /\ exchange'[id].filled = exchange[id].filled + v
      /\ exchange'[id].due = exchange[id].due + v
  BY DEF ExchangeExecute, TypeOK, ExchangeOrder
<1>2. /\ ExchangeCounts /\ ReportsOnRing /\ LiveOrders /\ rspRing' = rspRing
      /\ orderMap' = orderMap /\ Live' = Live /\ nextOrderId' = nextOrderId
  BY DEF FinalReportOnce, ExchangeExecute, OmsUnchanged, Live
<1>3. \A i \in DOMAIN exchange :
        /\ exchange[i].open \in Nat /\ exchange[i].filled \in Nat /\ exchange[i].due \in Nat
        /\ exchange[i].req.volume \in Nat
  BY RequestType DEF TypeOK, ExchangeOrder
<1>4. ExchangeCounts'
  BY <1>1, <1>2, <1>3 DEF ExchangeCounts
<1>5. LiveOrders'
  BY <1>1, <1>2, <1>3 DEF LiveOrders
<1>6. ReportsOnRing'
  <2> SUFFICES ASSUME NEW k \in 1 .. Len(rspRing)
               PROVE  LET r == rspRing[k]
                          e == exchange'[r.id]
                      IN  /\ r.id \in DOMAIN exchange
                          /\ r.kind = "traded" => e.filled > 0
                          /\ r.kind = "rejected" => e.filled = 0
                          /\ Final(r) =>
                               /\ e.open = 0
                               /\ r.id \in Live => orderMap[r.id].canceled = 0
                               /\ \A j \in 1 .. Len(rspRing) :
                                    j # k => ~ (Final(rspRing[j]) /\ rspRing[j].id = r.id)
    BY <1>1, <1>2 DEF ReportsOnRing, Final
  <2> DEFINE r == rspRing[k]
             e == exchange[r.id]
  <2>1. /\ r.id \in DOMAIN exchange
        /\ r.kind = "traded" => e.filled > 0
        /\ r.kind = "rejected" => e.filled = 0
        /\ Final(r) => /\ e.open = 0
                       /\ r.id \in Live => orderMap[r.id].canceled = 0
                       /\ \A j \in 1 .. Len(rspRing) :
                            j # k => ~ (Final(rspRing[j]) /\ rspRing[j].id = r.id)
    BY <1>2 DEF ReportsOnRing
  <2>2. r.kind = "rejected" => Final(r)
    BY DEF Final
  <2> HIDE DEF r
  <2>3. CASE r.id = id
    <3>1. ~ Final(r) /\ r.kind # "rejected"
      BY <1>1, <1>3, <2>1, <2>2, <2>3
    <3>2. exchange'[r.id].filled > 0
      BY <1>1, <1>3, <2>3
    <3> QED
      BY <2>1, <3>1, <3>2 DEF r
  <2>4. CASE r.id # id
    BY <1>1, <2>1, <2>4 DEF r
  <2> QED
    BY <2>3, <2>4
<1> QED
  BY <1>4, <1>5, <1>6 DEF FinalReportOnce

-----------------------------------------------------------------------------
(* FinalReportOnce, and the ledgers on top of it, action by action.        *)

Ledgers == PendingAccounted /\ FrozenAccounted

(* The ledgers need FinalReportOnce; it does not need them.                *)
KeepsLedgers == FinalReportOnce' /\ (Ledgers => Ledgers')

(* Storing an order changes it alone; erasing it counts as storing it with *)
(* nothing left.                                                           *)
LEMMA StoreEffect ==
  ASSUME TypeOK, NEW id \in OrderIds, NEW o \in Order,
         \/ orderMap' = Put(id, o)
         \/ orderMap' = Erase(id) /\ Left(o) = 0
         \/ StoreOrErase(id, o)
  PROVE  /\ SameBut(orderMap, orderMap', id)
         /\ id \in DOMAIN orderMap' => orderMap'[id] = o
         /\ LeftIn(orderMap', id) = Left(o)
         /\ DOMAIN orderMap' \subseteq Live \union {id}
<1>1. o.traded \in Int /\ o.canceled \in Int /\ o.req.volume \in Int
  BY RequestType DEF Order
<1>2. CASE orderMap' = Put(id, o)
  BY <1>2 DEF Put, SameBut, LeftIn, Live
<1>3. CASE orderMap' = Erase(id) /\ Left(o) = 0
  BY <1>3 DEF Erase, SameBut, LeftIn, Live
<1>4. o.traded + o.canceled = o.req.volume => Left(o) = 0
  BY <1>1 DEF Left
<1> QED
  BY <1>2, <1>3, <1>4 DEF StoreOrErase

(* A step that touches neither orders nor ledgers keeps the ledgers.       *)
LEMMA LedgersKept ==
  ASSUME Ledgers, UNCHANGED <<orderMap, book, account, baseline>>
  PROVE  Ledgers'
BY DEF Ledgers, PendingAccounted, FrozenAccounted

(* A step that touches neither orders nor reports keeps FinalReportOnce.   *)
LEMMA QuietReports ==
  ASSUME TypeOK, FinalReportOnce, nextOrderId' >= nextOrderId, nextOrderId' \in Nat,
         UNCHANGED <<orderMap, rspRing, exchange>>
  PROVE  FinalReportOnce'
<1>1. ExchangeCounts'
  <2>1. \A i \in DOMAIN exchange : i \in Int
    BY DEF TypeOK, OrderIds
  <2>2. nextOrderId \in Int
    BY DEF TypeOK
  <2> QED
    BY <2>1, <2>2 DEF FinalReportOnce, ExchangeCounts
<1>2. ReportsOnRing' /\ LiveOrders'
  BY DEF FinalReportOnce, ReportsOnRing, LiveOrders, Live, Final
<1> QED
  BY <1>1, <1>2 DEF FinalReportOnce

LEMMA QuietLedger ==
  ASSUME TypeOK, FinalReportOnce, nextOrderId' >= nextOrderId, nextOrderId' \in Nat,
         UNCHANGED <<orderMap, book, account, rspRing, exchange, baseline>>
  PROVE  KeepsLedgers
BY LedgersKept, QuietReports DEF KeepsLedgers

LEMMA SubmitLedger ==
  ASSUME TypeOK, TypeOK', FinalReportOnce, NEW req \in Requests, SubmitOrder(req)
  PROVE  KeepsLedgers
<1> DEFINE id == nextOrderId
           o  == NewOrder(req)
<1>1. id \in OrderIds /\ id \in Nat /\ nextOrderId' = id + 1 /\ baseline' = baseline
  BY TakeType DEF SubmitOrder, TakeOrderId, OrderIds
<1>2. ExchangeCounts /\ ReportsOnRing /\ LiveOrders
  BY DEF FinalReportOnce
<1>3. id \notin DOMAIN exchange /\ id \notin Live
  BY <1>1, <1>2 DEF ExchangeCounts, LiveOrders
<1>4. o \in Order /\ o.req = req /\ o.traded = 0 /\ o.canceled = 0 /\ Left(o) = req.volume
  BY NewOrderType, RequestType DEF NewOrder, Left
<1>5. /\ DOMAIN exchange' = DOMAIN exchange \union {id}
      /\ exchange'[id] = [req |-> req, open |-> req.volume, filled |-> 0, due |-> 0, accepts |-> 0]
      /\ \A i \in DOMAIN exchange : exchange'[i] = exchange[i]
      /\ orderMap' = Put(id, o) /\ rspRing' = rspRing
      /\ book' = UpdatePending(book, req, req.volume) /\ account' = FundSent(account, req)
  BY <1>3 DEF SubmitOrder
<1> HIDE DEF o
<1>6. /\ Live' = Live \union {id} /\ orderMap'[id] = o
      /\ \A i \in Live : orderMap'[i] = orderMap[i]
  BY <1>3, <1>5 DEF Put, Live
<1>7. Ledgers => Ledgers'
  <2>1. req.volume \in Int
    BY RequestType
  <2>2. LeftIn(orderMap, id) = 0 /\ LeftIn(orderMap', id) = req.volume
    BY <1>3, <1>4, <1>6 DEF LeftIn, Live
  <2>3. CountersMove(book, book', req, req.volume)
    BY <1>5, <2>1, PendingEffect DEF TypeOK
  <2>4. FrozenMoves(account, account', req, req.volume)
    BY <1>5, <2>1, FundEffect DEF TypeOK
  <2>5. SameBut(orderMap, orderMap', id)
    BY <1>1, <1>4, <1>5, StoreEffect
  <2>6. OneOrder(id, req, req.volume)
    BY <1>3, <1>4, <1>6, <2>1, <2>2, <2>3, <2>4, <2>5 DEF OneOrder, Live
  <2> QED
    BY <1>1, <2>1, <2>6, LedgerStep DEF Ledgers
<1>8. ExchangeCounts'
  <2>1. \A i \in DOMAIN exchange : i \in Int
    BY DEF TypeOK, OrderIds
  <2> QED
    BY <1>1, <1>2, <1>5, <2>1, RequestType DEF ExchangeCounts
<1>9. LiveOrders'
  BY <1>2, <1>3, <1>4, <1>5, <1>6 DEF LiveOrders
<1>10. ReportsOnRing'
  BY <1>2, <1>3, <1>5, <1>6 DEF ReportsOnRing, Final
<1> QED
  BY <1>7, <1>8, <1>9, <1>10 DEF KeepsLedgers, FinalReportOnce

(* A report nobody waits for changes nothing but the ring.                 *)
LEMMA IgnoredLedger ==
  ASSUME TypeOK, FinalReportOnce, NEW kind, TakeRsp(kind), UNCHANGED <<orderMap, book, account>>
  PROVE  KeepsLedgers
<1>1. Ledgers => Ledgers'
  BY LedgersKept DEF TakeRsp
<1>2. FinalReportOnce'
  BY HandlerReports DEF TakeRsp, Live
<1> QED
  BY <1>1, <1>2 DEF KeepsLedgers

(* A handler that works on the order of the report at the head.            *)
LEMMA HandlerLedger ==
  ASSUME TypeOK, TypeOK', FinalReportOnce, NEW kind, TakeRsp(kind),
         Head(rspRing).id \in Live,
         NEW o \in Order, o.req = orderMap[Head(rspRing).id].req,
         \/ orderMap' = Put(Head(rspRing).id, o)
         \/ orderMap' = Erase(Head(rspRing).id) /\ Left(o) = 0
         \/ StoreOrErase(Head(rspRing).id, o),
         o.canceled = orderMap[Head(rspRing).id].canceled \/ Final(Head(rspRing)),
         o.traded = orderMap[Head(rspRing).id].traded \/ Head(rspRing).kind = "traded",
         NEW x \in Int, x = Left(o) - Left(orderMap[Head(rspRing).id]),
         CountersMove(book, book', o.req, x), FrozenMoves(account, account', o.req, x)
  PROVE  KeepsLedgers
<1> DEFINE id == Head(rspRing).id
<1>1. id \in OrderIds /\ o.req \in Requests
  BY HeadType DEF TakeRsp, Order
<1>2. /\ SameBut(orderMap, orderMap', id)
      /\ id \in DOMAIN orderMap' => orderMap'[id] = o
      /\ LeftIn(orderMap', id) = Left(o)
      /\ DOMAIN orderMap' \subseteq Live
  BY <1>1, StoreEffect
<1>3. LeftIn(orderMap, id) = Left(orderMap[id])
  BY DEF LeftIn, Live
<1>4. OneOrder(id, o.req, x)
  BY <1>2, <1>3 DEF OneOrder
<1>5. Ledgers => Ledgers'
  BY <1>1, <1>4, LedgerStep DEF Ledgers, TakeRsp
<1>6. FinalReportOnce'
  <2>1. Live' \subseteq Live
    BY <1>2 DEF Live
  <2>2. ASSUME NEW i \in Live'
        PROVE  /\ \/ orderMap'[i].canceled = orderMap[i].canceled
                  \/ i = Head(rspRing).id /\ Final(Head(rspRing))
               /\ \/ orderMap'[i].traded = orderMap[i].traded
                  \/ i = Head(rspRing).id /\ Head(rspRing).kind = "traded"
    <3>1. CASE i = id
      BY <1>2, <3>1 DEF Live
    <3>2. CASE i # id
      <4>1. i \in OrderIds /\ i \in DOMAIN orderMap
        BY <2>1 DEF TypeOK, Live
      <4> QED
        BY <1>2, <3>2, <4>1 DEF SameBut
    <3> QED
      BY <3>1, <3>2
  <2> QED
    BY <2>1, <2>2, HandlerReports DEF TakeRsp
<1> QED
  BY <1>5, <1>6 DEF KeepsLedgers

(* What the ring promises about the report at its head.                    *)
LEMMA HeadReport ==
  ASSUME TypeOK, FinalReportOnce, rspRing # <<>>, Head(rspRing).id \in Live
  PROVE  LET r == Head(rspRing)
         IN  /\ Final(r) => orderMap[r.id].canceled = 0
             /\ r.kind = "rejected" => orderMap[r.id].traded = 0
<1>1. Head(rspRing) = rspRing[1] /\ 1 \in 1 .. Len(rspRing)
  BY LenProperties, EmptySeq DEF TypeOK
<1> DEFINE r == rspRing[1]
<1>2. /\ r.kind = "rejected" => exchange[r.id].filled = 0
      /\ Final(r) => (r.id \in Live => orderMap[r.id].canceled = 0)
  BY <1>1 DEF FinalReportOnce, ReportsOnRing
<1>3. orderMap[r.id].traded # 0 => exchange[r.id].filled > 0
  BY <1>1 DEF FinalReportOnce, LiveOrders
<1> QED
  BY <1>1, <1>2, <1>3

LEMMA OnAcceptedLedger ==
  ASSUME TypeOK, TypeOK', FinalReportOnce, OnAccepted
  PROVE  KeepsLedgers
<1> DEFINE id == Head(rspRing).id
           o  == orderMap[id]
           a  == [o EXCEPT !.accepted = TRUE, !.status = "accepted"]
<1>1. CASE id \in Live /\ ~ o.accepted
  <2>1. o \in Order
    BY <1>1 DEF TypeOK
  <2>2. /\ a \in Order /\ a.req = o.req /\ a.traded = o.traded /\ a.canceled = o.canceled
        /\ Left(a) = Left(o) /\ Left(o) \in Int /\ o.req \in Requests
    <3> HIDE DEF o
    <3>1. /\ a \in Order /\ a.req = o.req /\ a.traded = o.traded /\ a.canceled = o.canceled
          /\ o.req \in Requests /\ o.traded \in Int /\ o.canceled \in Int
      BY <2>1 DEF Order, OrderStatus
    <3> QED
      BY <3>1, RequestType DEF Left
  <2>3. orderMap' = Put(id, a) /\ UNCHANGED <<book, account>> /\ TakeRsp("accepted")
    BY <1>1 DEF OnAccepted
  <2>4. CountersMove(book, book', a.req, 0)
    BY <2>3 DEF CountersMove, Share, TypeOK, PositionBook, PositionDetail
  <2>5. FrozenMoves(account, account', a.req, 0)
    BY SMTT(30), <2>2, <2>3, MarginOfNothing DEF FrozenMoves, TypeOK, Account
  <2>6. Left(a) - Left(o) = 0
    BY <2>2
  <2> HIDE DEF a
  <2> QED
    BY <1>1, <2>2, <2>3, <2>4, <2>5, <2>6, HandlerLedger
<1>2. CASE ~ (id \in Live /\ ~ o.accepted)
  BY <1>2, IgnoredLedger DEF OnAccepted
<1> QED
  BY <1>1, <1>2

LEMMA OnRejectedLedger ==
  ASSUME TypeOK, TypeOK', FinalReportOnce, OnRejected
  PROVE  KeepsLedgers
<1> DEFINE id == Head(rspRing).id
           o  == orderMap[id]
           v  == o.req.volume
           z  == [o EXCEPT !.canceled = v]
<1>1. CASE id \in Live
  <2>1. o \in Order /\ o.req \in Requests /\ v \in Int /\ 0 - v \in Int
    <3>1. o \in Order
      BY <1>1 DEF TypeOK
    <3>2. o.req \in Requests
      BY <3>1 DEF Order
    <3> QED
      BY <3>1, <3>2, RequestType
  <2>2. o.traded = 0 /\ o.canceled = 0
    BY <1>1, HeadReport DEF OnRejected, TakeRsp, Final
  <2>3. z \in Order /\ z.req = o.req /\ z.canceled = v /\ z.traded = o.traded
    <3> HIDE DEF o, v
    <3> QED
      BY <2>1 DEF Order
  <2>4. Left(z) = 0 /\ Left(z) - Left(o) = 0 - v
    BY <2>1, <2>2, <2>3 DEF Left
  <2>5. /\ orderMap' = Erase(id) /\ TakeRsp("rejected")
        /\ book' = UpdatePending(book, o.req, 0 - v)
        /\ account' = FundCanceled(account, o.req, v)
    BY <1>1 DEF OnRejected
  <2>6. CountersMove(book, book', o.req, 0 - v)
    BY <2>1, <2>5, PendingEffect DEF TypeOK
  <2>7. FrozenMoves(account, account', o.req, 0 - v)
    BY <2>1, <2>5, FundEffect DEF TypeOK
  <2>8. Final(Head(rspRing))
    BY <2>5 DEF TakeRsp, Final
  <2> HIDE DEF v, z
  <2> QED
    BY <1>1, <2>1, <2>3, <2>4, <2>5, <2>6, <2>7, <2>8, HandlerLedger
<1>2. CASE id \notin Live
  BY <1>2, IgnoredLedger DEF OnRejected
<1> QED
  BY <1>1, <1>2

LEMMA OnTradedLedger ==
  ASSUME TypeOK, TypeOK', FinalReportOnce, OnTraded
  PROVE  KeepsLedgers
<1> DEFINE r == Head(rspRing)
           o == orderMap[r.id]
           n == o.traded + r.volume
           a == [o EXCEPT !.accepted = TRUE]
           t == [a EXCEPT !.traded = n,
                          !.status = IF n = o.req.volume THEN "allTraded"
                                     ELSE IF @ # "canceled" THEN "partTraded" ELSE @]
<1>1. CASE r.id \in Live
  <2>1. r.volume \in Int /\ 0 - r.volume \in Int /\ r.price \in Int /\ r.kind = "traded"
    BY HeadType DEF OnTraded, TakeRsp
  <2>2. o \in Order /\ o.req \in Requests /\ o.traded \in Int /\ o.canceled \in Int
    <3>1. o \in Order
      BY <1>1 DEF TypeOK
    <3> QED
      BY <3>1, OrderUpdates DEF Order
  <2>3. /\ t \in Order /\ t.req = o.req /\ t.traded = n /\ t.canceled = o.canceled
    <3>1. a \in Order /\ a.req = o.req /\ a.traded = o.traded /\ a.canceled = o.canceled
          /\ a.status \in OrderStatus
      <4> HIDE DEF o
      <4> QED
        BY <2>2 DEF Order
    <3>2. n \in Int /\ {"allTraded", "partTraded"} \subseteq OrderStatus
      BY <2>1, <2>2 DEF OrderStatus
    <3> HIDE DEF a, n, o
    <3> QED
      BY <3>1, <3>2 DEF Order
  <2>4. Left(t) - Left(o) = 0 - r.volume
    <3>1. o.req.volume \in Int
      BY <2>2, RequestType
    <3> QED
      BY <2>1, <2>2, <2>3, <3>1 DEF Left
  <2>5. /\ StoreOrErase(r.id, t) /\ TakeRsp("traded")
        /\ book' = UpdateTraded(book, o.req, r.volume)
        /\ account' = FundTraded(account, o.req, r.volume, r.price)
    BY <1>1 DEF OnTraded
  <2>6. CountersMove(book, book', o.req, 0 - r.volume)
    BY <2>1, <2>2, <2>5, TradedEffect DEF TypeOK
  <2>7. FrozenMoves(account, account', o.req, 0 - r.volume)
    BY <2>1, <2>2, <2>5, FundEffect DEF TypeOK
  <2> HIDE DEF t, n
  <2> QED
    BY <1>1, <2>1, <2>3, <2>4, <2>5, <2>6, <2>7, HandlerLedger
<1>2. CASE r.id \notin Live
  BY <1>2, IgnoredLedger DEF OnTraded
<1> QED
  BY <1>1, <1>2

LEMMA OnCanceledLedger ==
  ASSUME TypeOK, TypeOK', FinalReportOnce, OnCanceled
  PROVE  KeepsLedgers
<1> DEFINE r == Head(rspRing)
           o == orderMap[r.id]
           c == [o EXCEPT !.canceled = r.volume, !.status = "canceled"]
<1>1. CASE r.id \in Live
  <2>1. r.volume \in Int /\ 0 - r.volume \in Int /\ r.kind = "canceled" /\ Final(r)
    BY HeadType DEF OnCanceled, TakeRsp, Final
  <2>2. o \in Order /\ o.req \in Requests /\ o.traded \in Int /\ o.canceled = 0
    <3>1. o \in Order
      BY <1>1 DEF TypeOK
    <3>2. o.canceled = 0
      BY <1>1, <2>1, HeadReport DEF OnCanceled, TakeRsp
    <3> QED
      BY <3>1, <3>2, OrderUpdates DEF Order
  <2>3. c \in Order /\ c.req = o.req /\ c.traded = o.traded /\ c.canceled = r.volume
    <3>1. "canceled" \in OrderStatus
      BY DEF OrderStatus
    <3> HIDE DEF o, r
    <3> QED
      BY <2>1, <2>2, <3>1 DEF Order
  <2>4. Left(c) - Left(o) = 0 - r.volume
    <3>1. o.req.volume \in Int
      BY <2>2, RequestType
    <3> QED
      BY <2>1, <2>2, <2>3, <3>1 DEF Left
  <2>5. /\ StoreOrErase(r.id, c) /\ TakeRsp("canceled")
        /\ book' = UpdatePending(book, o.req, 0 - r.volume)
        /\ account' = FundCanceled(account, o.req, r.volume)
    BY <1>1 DEF OnCanceled
  <2>6. CountersMove(book, book', o.req, 0 - r.volume)
    BY <2>1, <2>2, <2>5, PendingEffect DEF TypeOK
  <2>7. FrozenMoves(account, account', o.req, 0 - r.volume)
    BY <2>1, <2>2, <2>5, FundEffect DEF TypeOK
  <2> HIDE DEF c
  <2> QED
    BY <1>1, <2>1, <2>3, <2>4, <2>5, <2>6, <2>7, HandlerLedger
<1>2. CASE r.id \notin Live
  BY <1>2, IgnoredLedger DEF OnCanceled
<1> QED
  BY <1>1, <1>2

LEMMA ExchangeLedger ==
  ASSUME TypeOK, TypeOK', FinalReportOnce, NEW id \in DOMAIN exchange, Exchange(id)
  PROVE  KeepsLedgers
<1> DEFINE e == exchange[id]
<1>1. /\ e \in ExchangeOrder /\ e.req \in Requests /\ e.req.volume \in Nat /\ e.req.volume > 0
      /\ e.open \in Nat /\ e.filled \in Nat /\ e.due \in Nat
      /\ e.open + e.filled <= e.req.volume /\ e.due <= e.filled
  <2>1. e \in ExchangeOrder
    BY DEF TypeOK
  <2>2. e.open + e.filled <= e.req.volume /\ e.due <= e.filled
    BY DEF FinalReportOnce, ExchangeCounts
  <2> HIDE DEF e
  <2>3. e.req \in Requests /\ e.open \in Nat /\ e.filled \in Nat /\ e.due \in Nat
    BY <2>1 DEF ExchangeOrder
  <2> QED
    BY <2>1, <2>2, <2>3, RequestType
<1>2. Ledgers => Ledgers'
  BY LedgersKept DEF Exchange, ExchangeAccept, ExchangeReject, ExchangeExecute,
     ReportTrade, ExchangeCancel, RejectCancel, PushRsp, OmsUnchanged
<1>3. FinalReportOnce'
  <2>1. CASE ExchangeAccept(id)
    <3> DEFINE rsp == [kind |-> "accepted", id |-> id]
    <3>1. rsp \in GatewayRsp /\ rsp.id = id /\ rsp.kind = "accepted" /\ ~ Final(rsp)
      BY DEF GatewayRsp, TypeOK, Final
    <3>2. /\ DOMAIN exchange' = DOMAIN exchange
          /\ \A i \in DOMAIN exchange : i # id => exchange'[i] = exchange[i]
          /\ exchange'[id].req = e.req /\ exchange'[id].filled = e.filled
          /\ exchange'[id].due = e.due /\ exchange'[id].open = e.open
      BY <1>1, <2>1 DEF ExchangeAccept, TypeOK, ExchangeOrder
    <3>3. PushRsp(rsp)
      BY <2>1 DEF ExchangeAccept
    <3> HIDE DEF rsp
    <3> QED
      BY <1>1, <3>1, <3>2, <3>3, CallbackReports
  <2>2. CASE ExchangeReject(id)
    <3> DEFINE rsp == [kind |-> "rejected", id |-> id]
    <3>1. rsp \in GatewayRsp /\ rsp.id = id /\ rsp.kind = "rejected"
      BY DEF GatewayRsp, TypeOK
    <3>2. /\ DOMAIN exchange' = DOMAIN exchange
          /\ \A i \in DOMAIN exchange : i # id => exchange'[i] = exchange[i]
          /\ exchange'[id].req = e.req /\ exchange'[id].filled = e.filled
          /\ exchange'[id].due = e.due /\ exchange'[id].open = 0
      BY <1>1, <2>2 DEF ExchangeReject, TypeOK, ExchangeOrder
    <3>3. PushRsp(rsp) /\ e.open = e.req.volume
      BY <2>2 DEF ExchangeReject
    <3>4. e.filled = 0 /\ e.open > 0
      BY <1>1, <3>3
    <3> HIDE DEF rsp
    <3> QED
      BY <1>1, <3>1, <3>2, <3>3, <3>4, CallbackReports
  <2>3. CASE ExchangeCancel(id)
    <3> DEFINE rsp == [kind |-> "canceled", id |-> id, volume |-> e.open]
    <3>1. rsp \in GatewayRsp /\ rsp.id = id /\ rsp.kind = "canceled"
      BY <1>1, <2>3 DEF GatewayRsp, TypeOK, ExchangeCancel
    <3>2. /\ DOMAIN exchange' = DOMAIN exchange
          /\ \A i \in DOMAIN exchange : i # id => exchange'[i] = exchange[i]
          /\ exchange'[id].req = e.req /\ exchange'[id].filled = e.filled
          /\ exchange'[id].due = e.due /\ exchange'[id].open = 0
      BY <1>1, <2>3 DEF ExchangeCancel, TypeOK, ExchangeOrder
    <3>3. PushRsp(rsp) /\ e.open > 0
      BY <2>3 DEF ExchangeCancel
    <3> HIDE DEF rsp
    <3> QED
      BY <1>1, <3>1, <3>2, <3>3, CallbackReports
  <2>4. CASE RejectCancel(id)
    <3> DEFINE rsp == [kind |-> "cancelRejected", id |-> id]
    <3>1. rsp \in GatewayRsp /\ rsp.id = id /\ rsp.kind = "cancelRejected" /\ ~ Final(rsp)
      BY DEF GatewayRsp, TypeOK, Final
    <3>2. exchange' = exchange /\ PushRsp(rsp)
      BY <2>4 DEF RejectCancel
    <3> HIDE DEF rsp
    <3> QED
      BY <1>1, <3>1, <3>2, CallbackReports
  <2>5. ASSUME NEW v \in 1 .. e.req.volume, ExchangeExecute(id, v)
        PROVE  FinalReportOnce'
    <3>1. v \in Nat \ {0}
      BY <1>1
    <3> QED
      BY <2>5, <3>1, ExecuteReports
  <2>6. ASSUME NEW v \in 1 .. e.req.volume, NEW p \in TradePrices, ReportTrade(id, v, p)
        PROVE  FinalReportOnce'
    <3> DEFINE rsp == [kind |-> "traded", id |-> id, volume |-> v, price |-> p]
    <3>1. v \in Nat \ {0} /\ p \in Nat
      BY <1>1, OmsAssumption
    <3>2. rsp \in GatewayRsp /\ rsp.id = id /\ rsp.kind = "traded" /\ ~ Final(rsp)
      BY <3>1 DEF GatewayRsp, TypeOK, Final
    <3>3. /\ DOMAIN exchange' = DOMAIN exchange
          /\ \A i \in DOMAIN exchange : i # id => exchange'[i] = exchange[i]
          /\ exchange'[id].req = e.req /\ exchange'[id].filled = e.filled
          /\ exchange'[id].due = e.due - v /\ exchange'[id].open = e.open
      BY <1>1, <2>6 DEF ReportTrade, TypeOK, ExchangeOrder
    <3>4. PushRsp(rsp) /\ e.due >= v
      BY <2>6 DEF ReportTrade
    <3>5. e.filled > 0 /\ exchange'[id].due <= e.due
      BY <1>1, <3>1, <3>3, <3>4
    <3> HIDE DEF rsp
    <3> QED
      BY <1>1, <3>2, <3>3, <3>4, <3>5, CallbackReports
  <2> QED
    BY <2>1, <2>2, <2>3, <2>4, <2>5, <2>6 DEF Exchange
<1> QED
  BY <1>2, <1>3 DEF KeepsLedgers

(* The broker's answer resets what frozen money is measured from.          *)
LEMMA OnAccountLedger ==
  ASSUME TypeOK, FinalReportOnce, NEW a \in BrokerAccounts, OnAccount(a)
  PROVE  KeepsLedgers
<1>1. /\ account' = a /\ baseline'.frozen = a.frozen - FrozenSum(orderMap)
      /\ UNCHANGED <<nextOrderId, orderMap, book, rspRing, exchange>>
  BY DEF OnAccount, BaselineOf
<1>2. a.frozen \in Int /\ FrozenSum(orderMap) \in Int
  BY OmsAssumption, FrozenSumType DEF Account, TypeOK, Live
<1>3. FrozenAccounted'
  BY <1>1, <1>2 DEF FrozenAccounted
<1>4. PendingAccounted => PendingAccounted'
  BY <1>1 DEF PendingAccounted
<1>5. FinalReportOnce'
  BY <1>1 DEF FinalReportOnce, ExchangeCounts, ReportsOnRing, LiveOrders, Live, Final
<1> QED
  BY <1>3, <1>4, <1>5 DEF KeepsLedgers, Ledgers

LEMMA InitLedger == Init => Ledgers /\ FinalReportOnce
<1> SUFFICES ASSUME Init PROVE Ledgers /\ FinalReportOnce
  OBVIOUS
<1>1. Live = {} /\ DOMAIN orderMap = {} /\ DOMAIN exchange = {} /\ rspRing = <<>> /\ book = InitBook
  BY DEF Init, Live
<1>2. MaxOrders \in Nat /\ InitAccount \in Account /\ InitAccount.frozen \in Int
  BY OmsAssumption DEF Account
<1>3. PendingAccounted
  <2>1. ASSUME NEW p, NEW t, NEW d, NEW offsets PROVE Outstanding(orderMap, p, t, d, offsets) = 0
    <3> DEFINE f == [i \in OrderIds |-> Weight(orderMap, i, p, t, d, offsets)]
    <3>1. f \in [1 .. MaxOrders -> Int] /\ \A i \in 1 .. MaxOrders : f[i] = 0
      BY <1>1 DEF Weight, OrderIds
    <3> HIDE DEF f
    <3>2. SumTo(f, MaxOrders) = 0
      BY <1>2, <3>1, SumToZero
    <3> QED
      BY <3>2 DEF Outstanding, f
  <2> QED
    BY <1>1, <2>1, OmsAssumption DEF PendingAccounted
<1>4. FrozenAccounted
  <2>1. IsMap(orderMap)
    BY <1>1, InitType DEF IsMap, TypeOK, Live
  <2>2. FrozenSum(orderMap) \in Int
    BY <2>1, FrozenSumType DEF IsMap
  <2>3. account = InitAccount /\ baseline.frozen = InitAccount.frozen - FrozenSum(orderMap)
    BY DEF Init, BaselineOf
  <2> QED
    BY <1>2, <2>2, <2>3 DEF FrozenAccounted
<1>5. FinalReportOnce
  BY <1>1 DEF FinalReportOnce, ExchangeCounts, ReportsOnRing, LiveOrders
<1> QED
  BY <1>3, <1>4, <1>5 DEF Ledgers

(* Every step keeps FinalReportOnce, and the ledgers unless a send fails.  *)
LEMMA NextLedger ==
  TypeOK /\ FinalReportOnce /\ [Next]_vars =>
    /\ FinalReportOnce'
    /\ ~ SendMayFail /\ Ledgers => Ledgers'
<1> SUFFICES ASSUME TypeOK, FinalReportOnce, [Next]_vars,
                    ~ KeepsLedgers
             PROVE  FinalReportOnce' /\ SendMayFail
  BY DEF KeepsLedgers
<1>1. TypeOK'
  BY NextType
<1>2. nextOrderId \in Nat
  BY DEF TypeOK
<1>3. ASSUME NEW req \in Requests, RefuseOrder(req) PROVE KeepsLedgers
  BY <1>2, <1>3, QuietLedger DEF RefuseOrder, TakeOrderId
<1>4. ASSUME NEW req \in Requests, FailToSend(req) PROVE FinalReportOnce' /\ SendMayFail
  BY <1>2, <1>4, QuietReports DEF FailToSend, TakeOrderId
<1>5. ASSUME NEW req \in Requests, SubmitOrder(req) PROVE KeepsLedgers
  BY <1>1, <1>5, SubmitLedger
<1>6. ASSUME NEW ids, DoCancelOrders(ids) PROVE KeepsLedgers
  BY <1>2, <1>6, QuietLedger DEF DoCancelOrders
<1>7. CASE ExecuteCmd
  BY <1>3, <1>4, <1>5, <1>6, <1>7 DEF ExecuteCmd, CancelOrder, CancelForTicker, CancelAll
<1>8. CASE ProcessRsp
  <2>1. CASE OnCancelRejected
    BY <2>1, IgnoredLedger DEF OnCancelRejected
  <2> QED
    BY <1>1, <1>8, <2>1, OnAcceptedLedger, OnRejectedLedger, OnTradedLedger, OnCanceledLedger
       DEF ProcessRsp
<1>9. ASSUME NEW id \in DOMAIN exchange, Exchange(id) PROVE KeepsLedgers
  BY <1>1, <1>9, ExchangeLedger
<1>10. ASSUME NEW a \in BrokerAccounts, OnAccount(a) PROVE KeepsLedgers
  BY <1>10, OnAccountLedger
<1>11. CASE UNCHANGED vars
  BY <1>2, <1>11, QuietLedger DEF vars
<1> QED
  BY <1>7, <1>8, <1>9, <1>10, <1>11 DEF Next

(* The end of an order reaches the handlers once while it is live, and a   *)
(* rejection before any of its trades, sends that fail included: this is   *)
(* why nothing is given back twice.                                        *)
THEOREM FinalReportCorrect == Spec => []FinalReportOnce
BY NextLedger, InitLedger, TypeCorrect, PTL DEF Spec

(* When every send succeeds, both ledgers always hold.                     *)
THEOREM LedgersCorrect ==
  ASSUME ~ SendMayFail
  PROVE  Spec => []Ledgers
<1>1. TypeOK /\ FinalReportOnce /\ Ledgers /\ [Next]_vars => Ledgers'
  BY NextLedger
<1> QED
  BY <1>1, InitLedger, FinalReportCorrect, TypeCorrect, PTL DEF Spec

(* The pending counters of the position book are, at any time and for any  *)
(* number of orders, requests and reports in flight, the volume the live   *)
(* orders may still trade.                                                 *)
THEOREM PendingCorrect ==
  ASSUME ~ SendMayFail
  PROVE  Spec => []PendingAccounted
<1>1. Ledgers => PendingAccounted
  BY DEF Ledgers
<1> QED
  BY <1>1, LedgersCorrect, PTL

(* The frozen money is what the live open orders may still need, over what *)
(* the last answer of the broker had frozen besides.                       *)
THEOREM FrozenCorrect ==
  ASSUME ~ SendMayFail
  PROVE  Spec => []FrozenAccounted
<1>1. Ledgers => FrozenAccounted
  BY DEF Ledgers
<1> QED
  BY <1>1, LedgersCorrect, PTL

-----------------------------------------------------------------------------
(* What the reports on the ring still say of an order.                     *)

(* Lots of order i in one report, and in all reports of q.                 *)
TradeLots(r, i) == IF r.kind = "traded" /\ r.id = i THEN r.volume ELSE 0

Lots(q, i) == SumTo([k \in 1 .. Len(q) |-> TradeLots(q[k], i)], Len(q))

FinalIn(q, i) == \E k \in 1 .. Len(q) : Final(q[k]) /\ q[k].id = i

(* Every cancel report of order i in q is about v lots.                    *)
CancelsIn(q, i, v) ==
  \A k \in 1 .. Len(q) : q[k].kind = "canceled" /\ q[k].id = i => q[k].volume = v

LEMMA TradeLotsType ==
  ASSUME NEW r \in GatewayRsp, NEW i
  PROVE  TradeLots(r, i) \in Nat
BY DEF GatewayRsp, TradeLots

(* The terms of a sum of lots.                                             *)
LEMMA LotsTerms ==
  ASSUME NEW q \in Seq(GatewayRsp), NEW i
  PROVE  /\ Len(q) \in Nat
         /\ [k \in 1 .. Len(q) |-> TradeLots(q[k], i)] \in [1 .. Len(q) -> Int]
         /\ \A k \in 1 .. Len(q) : TradeLots(q[k], i) >= 0
<1>1. Len(q) \in Nat /\ \A k \in 1 .. Len(q) : q[k] \in GatewayRsp
  BY LenProperties
<1>2. \A k \in 1 .. Len(q) : TradeLots(q[k], i) \in Nat
  BY <1>1, TradeLotsType
<1> QED
  BY <1>1, <1>2

LEMMA LotsType ==
  ASSUME NEW q \in Seq(GatewayRsp), NEW i
  PROVE  Lots(q, i) \in Nat
<1> DEFINE f == [k \in 1 .. Len(q) |-> TradeLots(q[k], i)]
<1>1. f \in [1 .. Len(q) -> Int] /\ Len(q) \in Nat /\ \A k \in 1 .. Len(q) : f[k] >= 0
  BY LotsTerms
<1> HIDE DEF f
<1>2. SumTo(f, Len(q)) \in Nat
  BY <1>1, SumToNat
<1> QED
  BY <1>2 DEF Lots, f

(* No lots without reports.                                                *)
LEMMA LotsNone ==
  ASSUME NEW q \in Seq(GatewayRsp), NEW i, \A k \in 1 .. Len(q) : q[k].id # i
  PROVE  Lots(q, i) = 0
<1> DEFINE f == [k \in 1 .. Len(q) |-> TradeLots(q[k], i)]
<1>1. f \in [1 .. Len(q) -> Int] /\ Len(q) \in Nat
  BY LotsTerms
<1>2. \A k \in 1 .. Len(q) : f[k] = 0
  BY DEF TradeLots
<1> HIDE DEF f
<1>3. SumTo(f, Len(q)) = 0
  BY <1>1, <1>2, SumToZero
<1> QED
  BY <1>3 DEF Lots, f

(* A report put on the ring adds its lots.                                 *)
LEMMA LotsAppend ==
  ASSUME NEW q \in Seq(GatewayRsp), NEW r \in GatewayRsp, NEW i
  PROVE  Lots(Append(q, r), i) = Lots(q, i) + TradeLots(r, i)
<1> DEFINE p == Append(q, r)
           f == [k \in 1 .. Len(q) |-> TradeLots(q[k], i)]
           g == [k \in 1 .. Len(p) |-> TradeLots(p[k], i)]
<1>1. /\ p \in Seq(GatewayRsp) /\ Len(p) = Len(q) + 1 /\ p[Len(q) + 1] = r
      /\ \A k \in 1 .. Len(q) : p[k] = q[k]
  BY AppendProperties
<1>2. Len(q) \in Nat /\ f \in [1 .. Len(q) -> Int]
  BY LotsTerms
<1>3. g \in [1 .. Len(q) + 1 -> Int]
  <2> HIDE DEF p
  <2> QED
    BY <1>1, LotsTerms
<1>4. (\A k \in 1 .. Len(q) : g[k] = f[k]) /\ g[Len(q) + 1] = TradeLots(r, i)
  <2>1. Len(q) + 1 \in 1 .. Len(p) /\ \A k \in 1 .. Len(q) : k \in 1 .. Len(p)
    BY <1>1, <1>2
  <2> HIDE DEF p
  <2> QED
    BY <1>1, <2>1
<1>5. Lots(q, i) = SumTo(f, Len(q)) /\ Lots(p, i) = SumTo(g, Len(q) + 1)
  BY <1>1 DEF Lots
<1> HIDE DEF f, g, p
<1>6. SumTo(g, Len(q) + 1) = SumTo(f, Len(q)) + g[Len(q) + 1]
  BY <1>2, <1>3, <1>4, SumToExtend
<1> QED
  BY <1>4, <1>5, <1>6 DEF p

(* A report taken from the ring takes its lots along.                      *)
LEMMA LotsTail ==
  ASSUME NEW q \in Seq(GatewayRsp), q # <<>>, NEW i
  PROVE  Lots(q, i) = TradeLots(Head(q), i) + Lots(Tail(q), i)
<1> DEFINE p == Tail(q)
           f == [k \in 1 .. Len(p) |-> TradeLots(p[k], i)]
           g == [k \in 1 .. Len(q) |-> TradeLots(q[k], i)]
<1>1. /\ p \in Seq(GatewayRsp) /\ Head(q) = q[1]
      /\ Len(p) \in Nat /\ Len(q) = Len(p) + 1
      /\ \A k \in 1 .. Len(p) : p[k] = q[k + 1]
  BY HeadTailProperties, LenProperties, EmptySeq
<1>2. f \in [1 .. Len(p) -> Int]
  <2> HIDE DEF p
  <2> QED
    BY <1>1, LotsTerms
<1>3. g \in [1 .. Len(p) + 1 -> Int]
  <2>1. g \in [1 .. Len(q) -> Int]
    BY LotsTerms
  <2> QED
    BY <1>1, <2>1
<1>4. (\A k \in 1 .. Len(p) : f[k] = g[k + 1]) /\ g[1] = TradeLots(Head(q), i)
  <2>1. 1 \in 1 .. Len(q) /\ \A k \in 1 .. Len(p) : k + 1 \in 1 .. Len(q)
    BY <1>1
  <2> HIDE DEF p
  <2> QED
    BY <1>1, <2>1
<1>5. Lots(p, i) = SumTo(f, Len(p)) /\ Lots(q, i) = SumTo(g, Len(p) + 1)
  BY <1>1 DEF Lots
<1> HIDE DEF f, g, p
<1>6. SumTo(g, Len(p) + 1) = g[1] + SumTo(f, Len(p))
  BY <1>1, <1>2, <1>3, <1>4, SumToShift
<1> QED
  BY <1>4, <1>5, <1>6 DEF p

(* q and p say the same of order i.                                        *)
SameReports(q, p, i) ==
  /\ Lots(p, i) = Lots(q, i)
  /\ FinalIn(p, i) <=> FinalIn(q, i)
  /\ \A v : CancelsIn(q, i, v) => CancelsIn(p, i, v)

LEMMA AppendElsewhere ==
  ASSUME NEW q \in Seq(GatewayRsp), NEW r \in GatewayRsp, NEW i, r.id # i
  PROVE  SameReports(q, Append(q, r), i)
<1> DEFINE p == Append(q, r)
<1>1. /\ Len(q) \in Nat /\ Len(p) = Len(q) + 1 /\ p[Len(q) + 1] = r
      /\ \A k \in 1 .. Len(q) : p[k] = q[k]
  BY AppendProperties, LenProperties
<1>2. Lots(p, i) = Lots(q, i)
  BY LotsAppend, LotsType DEF TradeLots
<1> HIDE DEF p
<1>3. \A k \in 1 .. Len(p) : p[k].id = i => k \in 1 .. Len(q)
  BY <1>1
<1>4. FinalIn(p, i) <=> FinalIn(q, i)
  <2>1. \A k \in 1 .. Len(q) : k \in 1 .. Len(p)
    BY <1>1
  <2> QED
    BY <1>1, <1>3, <2>1 DEF FinalIn
<1>5. ASSUME NEW v, CancelsIn(q, i, v) PROVE CancelsIn(p, i, v)
  BY <1>1, <1>3, <1>5 DEF CancelsIn
<1> QED
  BY <1>2, <1>4, <1>5 DEF SameReports, p

LEMMA TailElsewhere ==
  ASSUME NEW q \in Seq(GatewayRsp), q # <<>>, NEW i, Head(q).id # i
  PROVE  SameReports(q, Tail(q), i)
<1> DEFINE p == Tail(q)
<1>1. /\ p \in Seq(GatewayRsp) /\ Head(q) = q[1]
      /\ Len(p) \in Nat /\ Len(q) = Len(p) + 1
      /\ \A k \in 1 .. Len(p) : p[k] = q[k + 1]
  BY HeadTailProperties, LenProperties, EmptySeq
<1>2. Lots(p, i) = Lots(q, i)
  <2>1. TradeLots(Head(q), i) = 0 /\ Lots(q, i) = TradeLots(Head(q), i) + Lots(p, i)
    BY LotsTail DEF TradeLots
  <2> HIDE DEF p
  <2>2. Lots(p, i) \in Nat
    BY <1>1, LotsType
  <2> QED
    BY <2>1, <2>2
<1> HIDE DEF p
<1>3. \A k \in 1 .. Len(q) : q[k].id = i =>
        k - 1 \in 1 .. Len(p) /\ q[k] = p[k - 1]
  BY <1>1
<1>4. \A k \in 1 .. Len(p) : k + 1 \in 1 .. Len(q)
  BY <1>1
<1>5. FinalIn(p, i) <=> FinalIn(q, i)
  <2>1. ASSUME FinalIn(q, i) PROVE FinalIn(p, i)
    BY <1>3, <2>1 DEF FinalIn
  <2>2. ASSUME FinalIn(p, i) PROVE FinalIn(q, i)
    BY <1>1, <1>4, <2>2 DEF FinalIn
  <2> QED
    BY <2>1, <2>2
<1>6. ASSUME NEW v, CancelsIn(q, i, v) PROVE CancelsIn(p, i, v)
  BY <1>1, <1>4, <1>6 DEF CancelsIn
<1> QED
  BY <1>2, <1>5, <1>6 DEF SameReports, p

-----------------------------------------------------------------------------
(* Every order is accounted for.                                           *)

(* A live order has counted exactly the trades taken from the ring and has *)
(* something left; until its end is reported, what is open, executed and   *)
(* cancelled makes up its volume.                                          *)
Accounted(i) ==
  LET o == orderMap[i]
      e == exchange[i]
  IN  /\ o.req = e.req
      /\ o.traded = e.filled - e.due - Lots(rspRing, i)
      /\ o.canceled >= 0
      /\ Left(o) > 0
      /\ ~ FinalIn(rspRing, i) => e.open + e.filled + o.canceled = e.req.volume

(* Nothing of an order is left at the exchange or on the ring.             *)
Gone(i) ==
  exchange[i].open = 0 /\ exchange[i].due = 0 /\ Lots(rspRing, i) = 0

(* An order is accounted for as long as it is live, and gone afterwards;   *)
(* a cancel report is about all that was not executed.                     *)
OrderInv(i) ==
  /\ i \in Live => Accounted(i)
  /\ i \notin Live => Gone(i)
  /\ CancelsIn(rspRing, i, exchange[i].req.volume - exchange[i].filled)

TradeInv == \A i \in DOMAIN exchange : OrderInv(i)

(* The numbers of an order.                                                *)
LEMMA OrderNumbers ==
  ASSUME TypeOK, FinalReportOnce, NEW i \in DOMAIN exchange
  PROVE  LET e == exchange[i]
         IN  /\ i \in OrderIds
             /\ e.req \in Requests /\ e.req.volume \in Nat /\ e.req.volume > 0
             /\ e.open \in Nat /\ e.filled \in Nat /\ e.due \in Nat
             /\ e.open + e.filled <= e.req.volume /\ e.due <= e.filled
             /\ Lots(rspRing, i) \in Nat
             /\ i \in Live => /\ orderMap[i] \in Order /\ orderMap[i].req \in Requests
                              /\ orderMap[i].traded \in Int /\ orderMap[i].canceled \in Int
                              /\ Left(orderMap[i]) = orderMap[i].req.volume
                                   - orderMap[i].traded - orderMap[i].canceled
<1> DEFINE e == exchange[i]
<1>1. e \in ExchangeOrder /\ i \in OrderIds
  BY DEF TypeOK
<1>2. e.open + e.filled <= e.req.volume /\ e.due <= e.filled
  BY DEF FinalReportOnce, ExchangeCounts
<1>3. Lots(rspRing, i) \in Nat
  BY LotsType DEF TypeOK
<1>4. ASSUME i \in Live
      PROVE  /\ orderMap[i] \in Order /\ orderMap[i].req \in Requests
             /\ orderMap[i].traded \in Int /\ orderMap[i].canceled \in Int
  BY <1>4 DEF TypeOK, Order
<1> HIDE DEF e
<1>5. e.req \in Requests /\ e.open \in Nat /\ e.filled \in Nat /\ e.due \in Nat
  BY <1>1 DEF ExchangeOrder
<1> QED
  BY <1>1, <1>2, <1>3, <1>4, <1>5, RequestType DEF e, Left

(* A live order is one of the exchange's.                                  *)
LEMMA LiveIsKnown ==
  ASSUME FinalReportOnce
  PROVE  Live \subseteq DOMAIN exchange
BY DEF FinalReportOnce, LiveOrders

(* A step that leaves an order and its reports alone leaves it accounted.  *)
LEMMA OtherOrder ==
  ASSUME NEW i \in DOMAIN exchange, OrderInv(i), exchange'[i] = exchange[i],
         i \in Live' <=> i \in Live,
         i \in Live => orderMap'[i] = orderMap[i],
         SameReports(rspRing, rspRing', i)
  PROVE  OrderInv(i)'
<1>1. /\ Lots(rspRing', i) = Lots(rspRing, i)
      /\ FinalIn(rspRing', i) <=> FinalIn(rspRing, i)
  BY DEF SameReports
<1>2. CancelsIn(rspRing', i, exchange'[i].req.volume - exchange'[i].filled)
  BY DEF SameReports, OrderInv
<1>3. i \in Live => Accounted(i)'
  BY <1>1 DEF OrderInv, Accounted
<1>4. i \notin Live => Gone(i)'
  BY <1>1 DEF OrderInv, Gone
<1> QED
  BY <1>2, <1>3, <1>4 DEF OrderInv

(* A step about one order keeps the others accounted for.                  *)
LEMMA OneOrderTrades ==
  ASSUME TradeInv, NEW id,
         DOMAIN exchange' \subseteq DOMAIN exchange \union {id},
         \A i \in DOMAIN exchange : i # id =>
           /\ exchange'[i] = exchange[i]
           /\ i \in Live' <=> i \in Live
           /\ i \in Live => orderMap'[i] = orderMap[i]
           /\ SameReports(rspRing, rspRing', i),
         OrderInv(id)'
  PROVE  TradeInv'
<1>1. ASSUME NEW i \in DOMAIN exchange, i # id PROVE OrderInv(i)'
  BY <1>1, OtherOrder DEF TradeInv
<1> QED
  BY <1>1 DEF TradeInv

(* What TradeInv and FinalReportOnce say of the report at the head of the  *)
(* ring, and of those behind it.                                           *)
LEMMA HeadOrder ==
  ASSUME TypeOK, FinalReportOnce, TradeInv, rspRing # <<>>
  PROVE  LET r == Head(rspRing)
             e == exchange[r.id]
             p == Tail(rspRing)
         IN  /\ r.id \in DOMAIN exchange
             /\ Lots(rspRing, r.id) = TradeLots(r, r.id) + Lots(p, r.id)
             /\ Final(r) => e.open = 0 /\ FinalIn(rspRing, r.id) /\ ~ FinalIn(p, r.id)
             /\ ~ Final(r) => (FinalIn(p, r.id) <=> FinalIn(rspRing, r.id))
             /\ \A v : CancelsIn(rspRing, r.id, v) => CancelsIn(p, r.id, v)
             /\ r.kind = "canceled" => r.volume = e.req.volume - e.filled
             /\ r.kind = "rejected" => e.filled = 0
<1> DEFINE r == Head(rspRing)
           e == exchange[r.id]
           p == Tail(rspRing)
<1>1. /\ p \in Seq(GatewayRsp) /\ r = rspRing[1]
      /\ Len(p) \in Nat /\ Len(rspRing) = Len(p) + 1
      /\ \A k \in 1 .. Len(p) : p[k] = rspRing[k + 1]
  BY HeadTailProperties, LenProperties, EmptySeq DEF TypeOK
<1>2. Lots(rspRing, r.id) = TradeLots(r, r.id) + Lots(p, r.id)
  BY LotsTail DEF TypeOK
<1> HIDE DEF p, r
<1>3. 1 \in 1 .. Len(rspRing) /\ \A k \in 1 .. Len(p) : k + 1 \in 1 .. Len(rspRing) /\ k + 1 # 1
  BY <1>1
<1>4. \A k \in 2 .. Len(rspRing) : k - 1 \in 1 .. Len(p) /\ rspRing[k] = p[k - 1]
  BY <1>1
<1>5. /\ r.id \in DOMAIN exchange
      /\ r.kind = "rejected" => e.filled = 0
      /\ Final(r) => e.open = 0
      /\ Final(r) => \A j \in 1 .. Len(rspRing) :
                       j # 1 => ~ (Final(rspRing[j]) /\ rspRing[j].id = r.id)
  BY <1>1, <1>3 DEF FinalReportOnce, ReportsOnRing
<1>6. Final(r) => FinalIn(rspRing, r.id) /\ ~ FinalIn(p, r.id)
  BY <1>1, <1>3, <1>5 DEF FinalIn
<1>7. ASSUME ~ Final(r) PROVE FinalIn(p, r.id) <=> FinalIn(rspRing, r.id)
  <2>1. \A k \in 1 .. Len(rspRing) : k = 1 \/ k \in 2 .. Len(rspRing)
    BY <1>1
  <2>2. FinalIn(rspRing, r.id) => FinalIn(p, r.id)
    BY <1>1, <1>4, <1>7, <2>1 DEF FinalIn
  <2>3. FinalIn(p, r.id) => FinalIn(rspRing, r.id)
    BY <1>1, <1>3 DEF FinalIn
  <2> QED
    BY <2>2, <2>3
<1>8. \A v : CancelsIn(rspRing, r.id, v) => CancelsIn(p, r.id, v)
  BY <1>1, <1>3 DEF CancelsIn
<1>9. r.kind = "canceled" => r.volume = e.req.volume - e.filled
  BY <1>1, <1>3, <1>5 DEF TradeInv, OrderInv, CancelsIn
<1> QED
  BY <1>2, <1>5, <1>6, <1>7, <1>8, <1>9 DEF r, p

(* A handler is about the order of the report at the head.                 *)
LEMMA HandlerTrades ==
  ASSUME TypeOK, FinalReportOnce, TradeInv, NEW kind, TakeRsp(kind),
         NEW id, id = Head(rspRing).id, SameBut(orderMap, orderMap', id),
         id \in Live' => Accounted(id)', id \notin Live' => Gone(id)'
  PROVE  TradeInv'
<1>1. rspRing # <<>> /\ rspRing' = Tail(rspRing) /\ exchange' = exchange
  BY DEF TakeRsp
<1>2. id \in DOMAIN exchange /\ \A v : CancelsIn(rspRing, id, v) => CancelsIn(rspRing', id, v)
  BY <1>1, HeadOrder
<1>3. OrderInv(id)'
  <2>1. CancelsIn(rspRing', id, exchange'[id].req.volume - exchange'[id].filled)
    BY <1>1, <1>2 DEF TradeInv, OrderInv
  <2> QED
    BY <2>1 DEF OrderInv
<1>4. ASSUME NEW i \in DOMAIN exchange, i # id
      PROVE  /\ exchange'[i] = exchange[i]
             /\ i \in Live' <=> i \in Live
             /\ i \in Live => orderMap'[i] = orderMap[i]
             /\ SameReports(rspRing, rspRing', i)
  <2>1. i \in OrderIds
    BY DEF TypeOK
  <2>2. SameReports(rspRing, rspRing', i)
    BY <1>1, <1>4, TailElsewhere DEF TypeOK
  <2> QED
    BY <1>1, <1>4, <2>1, <2>2 DEF SameBut, Live
<1> QED
  BY <1>1, <1>3, <1>4, OneOrderTrades

(* A report that says nothing of executions or of the end of an order is   *)
(* taken; the order is left or marked as accepted.                         *)
LEMMA QuietReportTrades ==
  ASSUME TypeOK, FinalReportOnce, TradeInv, NEW kind, TakeRsp(kind),
         kind \notin {"traded", "rejected", "canceled"},
         NEW id, id = Head(rspRing).id, SameBut(orderMap, orderMap', id),
         id \in Live' <=> id \in Live,
         id \in Live => /\ orderMap'[id].req = orderMap[id].req
                       /\ orderMap'[id].traded = orderMap[id].traded
                       /\ orderMap'[id].canceled = orderMap[id].canceled
  PROVE  TradeInv'
<1> DEFINE p == Tail(rspRing)
<1>1. rspRing # <<>> /\ rspRing' = p /\ exchange' = exchange /\ Head(rspRing).kind = kind
  BY DEF TakeRsp
<1>2. /\ id \in DOMAIN exchange
      /\ Lots(rspRing, id) = TradeLots(Head(rspRing), id) + Lots(p, id)
      /\ ~ Final(Head(rspRing)) => (FinalIn(p, id) <=> FinalIn(rspRing, id))
  BY <1>1, HeadOrder
<1>3. TradeLots(Head(rspRing), id) = 0 /\ ~ Final(Head(rspRing))
  BY <1>1 DEF TradeLots, Final
<1>4. Lots(p, id) \in Nat
  BY <1>1, LotsType, HeadType
<1> HIDE DEF p
<1>5. Lots(rspRing', id) = Lots(rspRing, id) /\ (FinalIn(rspRing', id) <=> FinalIn(rspRing, id))
  BY <1>1, <1>2, <1>3, <1>4
<1>6. OrderInv(id)
  BY <1>2 DEF TradeInv
<1>7. id \in Live' => Accounted(id)'
  BY <1>1, <1>5, <1>6 DEF OrderInv, Accounted, Left
<1>8. id \notin Live' => Gone(id)'
  BY <1>1, <1>5, <1>6 DEF OrderInv, Gone
<1> QED
  BY <1>7, <1>8, HandlerTrades

(* A report about an order that is gone is only taken.                     *)
LEMMA GoneReportTrades ==
  ASSUME TypeOK, FinalReportOnce, TradeInv, NEW kind, TakeRsp(kind),
         Head(rspRing).id \notin Live, UNCHANGED orderMap
  PROVE  TradeInv'
<1>1. PICK id : id = Head(rspRing).id
  OBVIOUS
<1> DEFINE p == Tail(rspRing)
<1>2. rspRing # <<>> /\ rspRing' = p /\ exchange' = exchange
  BY DEF TakeRsp
<1>3. id \in DOMAIN exchange /\ Lots(rspRing, id) = TradeLots(Head(rspRing), id) + Lots(p, id)
  BY <1>1, <1>2, HeadOrder
<1>4. TradeLots(Head(rspRing), id) \in Nat /\ Lots(p, id) \in Nat
  BY <1>2, HeadType, TradeLotsType, LotsType
<1>5. Gone(id)
  BY <1>1, <1>3 DEF TradeInv, OrderInv
<1> HIDE DEF p
<1>6. Lots(rspRing', id) = 0
  BY <1>2, <1>3, <1>4, <1>5 DEF Gone
<1>7. Gone(id)'
  BY <1>2, <1>5, <1>6 DEF Gone
<1>8. SameBut(orderMap, orderMap', id) /\ id \notin Live'
  BY <1>1 DEF SameBut, Live
<1> QED
  BY <1>1, <1>7, <1>8, HandlerTrades

(* While the end of a live order waits on the ring, the order is not yet   *)
(* cancelled and not all of it was executed.                               *)
LEMMA EndOnRing ==
  ASSUME TypeOK, FinalReportOnce, TradeInv, NEW id \in Live, FinalIn(rspRing, id)
  PROVE  /\ exchange[id].open = 0
         /\ orderMap[id].canceled = 0
         /\ exchange[id].filled < exchange[id].req.volume
<1>1. PICK k \in 1 .. Len(rspRing) : Final(rspRing[k]) /\ rspRing[k].id = id
  BY DEF FinalIn
<1>2. id \in DOMAIN exchange
  BY LiveIsKnown
<1>3. /\ exchange[id].open = 0 /\ orderMap[id].canceled = 0
      /\ rspRing[k].kind = "rejected" => exchange[id].filled = 0
  BY <1>1 DEF FinalReportOnce, ReportsOnRing
<1>4. rspRing[k] \in GatewayRsp
  BY LenProperties DEF TypeOK
<1>5. rspRing[k].kind = "canceled" => rspRing[k].volume \in Nat /\ rspRing[k].volume > 0
  BY <1>4 DEF GatewayRsp
<1>6. rspRing[k].kind = "canceled" => rspRing[k].volume = exchange[id].req.volume - exchange[id].filled
  BY <1>1, <1>2 DEF TradeInv, OrderInv, CancelsIn
<1>7. rspRing[k].kind \in {"rejected", "canceled"}
  BY <1>1 DEF Final
<1> QED
  BY <1>2, <1>3, <1>5, <1>6, <1>7, OrderNumbers

(* The common end of the trade and the cancel handler keeps the order      *)
(* accounted for, or lets it go when nothing is left.                      *)
LEMMA StoreTrades ==
  ASSUME TypeOK, FinalReportOnce, TradeInv, NEW kind, TakeRsp(kind),
         NEW id, id = Head(rspRing).id, id \in Live,
         NEW o \in Order, StoreOrErase(id, o), o.req = orderMap[id].req, o.canceled >= 0,
         LET e == exchange[id]
             p == Tail(rspRing)
         IN  /\ o.traded = e.filled - e.due - Lots(p, id)
             /\ Left(o) >= 0
             /\ Left(o) = 0 => e.open = 0 /\ e.due = 0 /\ Lots(p, id) = 0
             /\ ~ FinalIn(p, id) => e.open + e.filled + o.canceled = e.req.volume
  PROVE  TradeInv'
<1>1. rspRing' = Tail(rspRing) /\ exchange' = exchange
  BY DEF TakeRsp
<1>2. id \in OrderIds /\ id \in DOMAIN exchange
  BY LiveIsKnown DEF TypeOK
<1>3. /\ SameBut(orderMap, orderMap', id)
      /\ id \in DOMAIN orderMap' => orderMap'[id] = o
  BY <1>2, StoreEffect
<1>4. o.traded \in Int /\ o.canceled \in Int /\ o.req.volume \in Int
  BY RequestType DEF Order
<1>5. Left(o) = 0 <=> o.traded + o.canceled = o.req.volume
  BY <1>4 DEF Left
<1>6. id \in Live' <=> Left(o) # 0
  BY <1>5 DEF StoreOrErase, Put, Erase, Live
<1>7. orderMap[id].req = exchange[id].req
  BY <1>2 DEF TradeInv, OrderInv, Accounted
<1>8. Left(o) \in Int
  BY <1>4 DEF Left
<1>9. ASSUME id \in Live' PROVE Accounted(id)'
  <2>1. orderMap'[id] = o /\ Left(o) > 0
    BY <1>3, <1>6, <1>8, <1>9 DEF Live
  <2> QED
    BY <1>1, <1>7, <2>1 DEF Accounted
<1>10. ASSUME id \notin Live' PROVE Gone(id)'
  BY <1>1, <1>6, <1>10 DEF Gone
<1> QED
  BY <1>3, <1>9, <1>10, HandlerTrades

LEMMA OnAcceptedTrades ==
  ASSUME TypeOK, FinalReportOnce, TradeInv, OnAccepted
  PROVE  TradeInv'
<1>1. PICK id : id = Head(rspRing).id
  OBVIOUS
<1> DEFINE o == orderMap[id]
           a == [o EXCEPT !.accepted = TRUE, !.status = "accepted"]
<1>2. TakeRsp("accepted") /\ id \in OrderIds
  BY <1>1, HeadType DEF OnAccepted, TakeRsp
<1>3. CASE id \in Live /\ ~ o.accepted
  <2>1. o \in Order
    BY <1>3 DEF TypeOK
  <2>2. a \in Order /\ a.req = o.req /\ a.traded = o.traded /\ a.canceled = o.canceled
    <3> HIDE DEF o
    <3> QED
      BY <2>1 DEF Order, OrderStatus
  <2>3. orderMap' = Put(id, a)
    BY <1>1, <1>3 DEF OnAccepted
  <2> HIDE DEF a
  <2>4. SameBut(orderMap, orderMap', id) /\ (id \in DOMAIN orderMap' => orderMap'[id] = a)
    BY <1>2, <2>2, <2>3, StoreEffect
  <2>5. id \in Live'
    BY <2>3 DEF Put, Live
  <2> QED
    BY <1>1, <1>2, <1>3, <2>2, <2>4, <2>5, QuietReportTrades DEF Live
<1>4. CASE ~ (id \in Live /\ ~ o.accepted)
  <2>1. orderMap' = orderMap
    BY <1>1, <1>4 DEF OnAccepted
  <2>2. SameBut(orderMap, orderMap', id) /\ Live' = Live
    BY <2>1 DEF SameBut, Live
  <2> QED
    BY <1>1, <1>2, <2>1, <2>2, QuietReportTrades
<1> QED
  BY <1>3, <1>4

LEMMA OnRejectedTrades ==
  ASSUME TypeOK, FinalReportOnce, TradeInv, OnRejected
  PROVE  TradeInv'
<1>1. PICK id : id = Head(rspRing).id
  OBVIOUS
<1>2. TakeRsp("rejected") /\ rspRing # <<>> /\ Head(rspRing).kind = "rejected"
  BY DEF OnRejected, TakeRsp
<1>3. CASE id \in Live
  <2> DEFINE e == exchange[id]
             p == Tail(rspRing)
  <2>1. rspRing' = p /\ exchange' = exchange /\ orderMap' = Erase(id)
    BY <1>1, <1>3 DEF OnRejected, TakeRsp
  <2>2. /\ id \in DOMAIN exchange /\ e.open = 0 /\ e.filled = 0
        /\ Lots(rspRing, id) = TradeLots(Head(rspRing), id) + Lots(p, id)
    BY <1>1, <1>2, HeadOrder DEF Final
  <2>3. TradeLots(Head(rspRing), id) = 0
    BY <1>2 DEF TradeLots
  <2>4. orderMap[id].traded = 0 /\ orderMap[id].traded = e.filled - e.due - Lots(rspRing, id)
    BY <1>1, <1>2, <1>3, <2>2, HeadReport DEF TradeInv, OrderInv, Accounted
  <2>5. e.due \in Nat /\ e.filled \in Nat /\ Lots(rspRing, id) \in Nat /\ Lots(p, id) \in Nat
    <3>1. Lots(p, id) \in Nat
      BY <1>2, HeadType, LotsType
    <3> QED
      BY <2>2, <3>1, OrderNumbers
  <2> HIDE DEF e, p
  <2>6. e.open = 0 /\ e.due = 0 /\ Lots(p, id) = 0
    BY <2>2, <2>3, <2>4, <2>5
  <2>7. Gone(id)'
    BY <2>1, <2>6 DEF Gone, e
  <2>8. SameBut(orderMap, orderMap', id) /\ id \notin Live'
    BY <2>1 DEF SameBut, Erase, Live
  <2> QED
    BY <1>1, <1>2, <2>7, <2>8, HandlerTrades
<1>4. CASE id \notin Live
  BY <1>1, <1>4, GoneReportTrades DEF OnRejected
<1> QED
  BY <1>3, <1>4

LEMMA OnTradedTrades ==
  ASSUME TypeOK, FinalReportOnce, TradeInv, OnTraded
  PROVE  TradeInv'
<1>1. PICK id : id = Head(rspRing).id
  OBVIOUS
<1> DEFINE r == Head(rspRing)
           o == orderMap[id]
           e == exchange[id]
           p == Tail(rspRing)
           n == o.traded + r.volume
           a == [o EXCEPT !.accepted = TRUE]
           t == [a EXCEPT !.traded = n,
                          !.status = IF n = o.req.volume THEN "allTraded"
                                     ELSE IF @ # "canceled" THEN "partTraded" ELSE @]
<1>2. /\ TakeRsp("traded") /\ rspRing # <<>> /\ r.kind = "traded"
      /\ r.volume \in Nat /\ r.volume > 0
  BY HeadType DEF OnTraded, TakeRsp
<1>3. CASE id \in Live
  <2>1. /\ id \in DOMAIN exchange
        /\ Lots(rspRing, id) = r.volume + Lots(p, id)
        /\ FinalIn(p, id) <=> FinalIn(rspRing, id)
    BY <1>1, <1>2, HeadOrder DEF TradeLots, Final
  <2>2. /\ o \in Order /\ o.req \in Requests /\ o.req.volume \in Nat
        /\ o.traded \in Int /\ o.canceled \in Int /\ o.canceled >= 0
        /\ o.req = e.req /\ o.traded = e.filled - e.due - Lots(rspRing, id)
        /\ ~ FinalIn(rspRing, id) => e.open + e.filled + o.canceled = e.req.volume
    BY <1>3, <2>1, OrderNumbers DEF TradeInv, OrderInv, Accounted
  <2>3. /\ e.open \in Nat /\ e.filled \in Nat /\ e.due \in Nat
        /\ Lots(rspRing, id) \in Nat /\ Lots(p, id) \in Nat
    <3>1. Lots(p, id) \in Nat
      BY <1>2, HeadType, LotsType
    <3> QED
      BY <2>1, <3>1, OrderNumbers
  <2>4. FinalIn(rspRing, id) => e.open = 0 /\ o.canceled = 0 /\ e.filled < e.req.volume
    BY <1>3, EndOnRing
  <2>5. StoreOrErase(id, t)
    BY <1>1, <1>3 DEF OnTraded
  <2>6. t \in Order /\ t.req = o.req /\ t.traded = n /\ t.canceled = o.canceled
    <3>1. a \in Order /\ a.req = o.req /\ a.traded = o.traded /\ a.canceled = o.canceled
          /\ a.status \in OrderStatus
      <4> HIDE DEF o
      <4> QED
        BY <2>2 DEF Order
    <3>2. n \in Int /\ {"allTraded", "partTraded"} \subseteq OrderStatus
      BY <1>2, <2>2 DEF OrderStatus
    <3> HIDE DEF a, n, o
    <3> QED
      BY <3>1, <3>2 DEF Order
  <2>7. Left(t) = o.req.volume - t.traded - t.canceled
    BY <2>6 DEF Left
  <2>8. n = o.traded + r.volume
    OBVIOUS
  <2> HIDE DEF t, n, o, e, p, r
  <2>9. t.traded = e.filled - e.due - Lots(p, id)
    BY <1>2, <2>1, <2>2, <2>3, <2>6, <2>8
  <2>10. ~ FinalIn(p, id) => e.open + e.filled + t.canceled = e.req.volume
    BY <2>1, <2>2, <2>6
  <2>11. Left(t) >= 0 /\ (Left(t) = 0 => e.open = 0 /\ e.due = 0 /\ Lots(p, id) = 0)
    <3>1. CASE FinalIn(rspRing, id)
      BY <2>2, <2>3, <2>4, <2>6, <2>7, <2>9, <3>1
    <3>2. CASE ~ FinalIn(rspRing, id)
      <4>1. Left(t) = e.req.volume - t.traded - t.canceled /\ e.req.volume \in Int
        BY <2>2, <2>6, <2>7
      <4>2. e.open + e.filled + t.canceled = e.req.volume /\ t.canceled \in Int
        BY <2>1, <2>2, <2>6, <2>10, <3>2
      <4>3. Left(t) = e.open + e.due + Lots(p, id)
        BY <2>3, <2>9, <4>1, <4>2
      <4> QED
        BY <2>3, <4>3
    <3> QED
      BY <3>1, <3>2
  <2> QED
    BY <1>1, <1>2, <1>3, <2>2, <2>5, <2>6, <2>9, <2>10, <2>11, StoreTrades DEF e, p, o
<1>4. CASE id \notin Live
  BY <1>1, <1>4, GoneReportTrades DEF OnTraded
<1> QED
  BY <1>3, <1>4

LEMMA OnCanceledTrades ==
  ASSUME TypeOK, FinalReportOnce, TradeInv, OnCanceled
  PROVE  TradeInv'
<1>1. PICK id : id = Head(rspRing).id
  OBVIOUS
<1> DEFINE r == Head(rspRing)
           o == orderMap[id]
           e == exchange[id]
           p == Tail(rspRing)
           c == [o EXCEPT !.canceled = r.volume, !.status = "canceled"]
<1>2. /\ TakeRsp("canceled") /\ rspRing # <<>> /\ r.kind = "canceled"
      /\ r.volume \in Nat /\ r.volume > 0
  BY HeadType DEF OnCanceled, TakeRsp
<1>3. CASE id \in Live
  <2>1. /\ id \in DOMAIN exchange
        /\ Lots(rspRing, id) = Lots(p, id)
        /\ e.open = 0 /\ r.volume = e.req.volume - e.filled
    <3>1. Lots(p, id) \in Nat
      BY <1>2, HeadType, LotsType
    <3>2. /\ id \in DOMAIN exchange
          /\ Lots(rspRing, id) = TradeLots(r, id) + Lots(p, id)
          /\ e.open = 0 /\ r.volume = e.req.volume - e.filled
      BY <1>1, <1>2, HeadOrder DEF Final
    <3>3. TradeLots(r, id) = 0
      BY <1>2 DEF TradeLots
    <3> QED
      BY <3>1, <3>2, <3>3
  <2>2. /\ o \in Order /\ o.req \in Requests /\ o.req.volume \in Nat
        /\ o.traded \in Int /\ o.req = e.req
        /\ o.traded = e.filled - e.due - Lots(rspRing, id)
        /\ e.filled \in Nat /\ e.due \in Nat /\ Lots(rspRing, id) \in Nat
    BY <1>3, <2>1, OrderNumbers DEF TradeInv, OrderInv, Accounted
  <2>3. StoreOrErase(id, c)
    BY <1>1, <1>3 DEF OnCanceled
  <2>4. c \in Order /\ c.req = o.req /\ c.traded = o.traded /\ c.canceled = r.volume
    <3>1. "canceled" \in OrderStatus /\ r.volume \in Int
      BY <1>2 DEF OrderStatus
    <3>2. o \in Order
      BY <2>2
    <3> HIDE DEF o, r
    <3> QED
      BY <3>1, <3>2 DEF Order
  <2>5. Left(c) = o.req.volume - c.traded - c.canceled
    BY <2>4 DEF Left
  <2> HIDE DEF c, o, e, p, r
  <2>6. c.traded = e.filled - e.due - Lots(p, id)
    BY <2>1, <2>2, <2>4
  <2>7. e.open + e.filled + c.canceled = e.req.volume
    BY <1>2, <2>1, <2>2, <2>4
  <2>8. Left(c) >= 0 /\ (Left(c) = 0 => e.open = 0 /\ e.due = 0 /\ Lots(p, id) = 0)
    <3>1. Left(c) = e.req.volume - c.traded - c.canceled /\ e.req.volume \in Int
      BY <2>2, <2>4, <2>5
    <3>2. e.filled + c.canceled = e.req.volume /\ c.canceled \in Int
      BY <1>2, <2>1, <2>2, <2>4
    <3>3. Left(c) = e.due + Lots(p, id) /\ Lots(p, id) \in Nat
      BY <2>1, <2>2, <2>6, <3>1, <3>2
    <3> QED
      BY <2>1, <2>2, <3>3
  <2>9. c.canceled >= 0
    BY <1>2, <2>4
  <2> QED
    BY <1>1, <1>2, <1>3, <2>3, <2>4, <2>6, <2>7, <2>8, <2>9, StoreTrades DEF e, p, o
<1>4. CASE id \notin Live
  BY <1>1, <1>4, GoneReportTrades DEF OnCanceled
<1> QED
  BY <1>3, <1>4

(* What a report about order i adds to what the ring says of it.           *)
LEMMA AppendSelf ==
  ASSUME NEW q \in Seq(GatewayRsp), NEW r \in GatewayRsp, NEW i, r.id = i
  PROVE  LET p == Append(q, r)
         IN  /\ Lots(p, i) = Lots(q, i) + TradeLots(r, i)
             /\ FinalIn(p, i) <=> FinalIn(q, i) \/ Final(r)
             /\ \A v : CancelsIn(q, i, v) /\ (r.kind = "canceled" => r.volume = v)
                         => CancelsIn(p, i, v)
<1> DEFINE p == Append(q, r)
<1>1. /\ Len(q) \in Nat /\ Len(p) = Len(q) + 1 /\ p[Len(q) + 1] = r
      /\ \A k \in 1 .. Len(q) : p[k] = q[k]
  BY AppendProperties, LenProperties
<1>2. Lots(p, i) = Lots(q, i) + TradeLots(r, i)
  BY LotsAppend
<1> HIDE DEF p
<1>3. /\ Len(q) + 1 \in 1 .. Len(p)
      /\ \A k \in 1 .. Len(q) : k \in 1 .. Len(p)
      /\ \A k \in 1 .. Len(p) : k = Len(q) + 1 \/ k \in 1 .. Len(q)
  BY <1>1
<1>4. FinalIn(p, i) <=> FinalIn(q, i) \/ Final(r)
  BY <1>1, <1>3 DEF FinalIn
<1>5. ASSUME NEW v, CancelsIn(q, i, v), r.kind = "canceled" => r.volume = v
      PROVE  CancelsIn(p, i, v)
  BY <1>1, <1>3, <1>5 DEF CancelsIn
<1> QED
  BY <1>2, <1>4, <1>5 DEF p

(* No cancel report without an end on the ring.                            *)
LEMMA NoEndNoCancel ==
  ASSUME NEW q, NEW i, ~ FinalIn(q, i), NEW v
  PROVE  CancelsIn(q, i, v)
BY DEF FinalIn, CancelsIn, Final

(* An order open at the exchange is live, and its end is not on the ring.  *)
LEMMA OpenIsLive ==
  ASSUME TypeOK, FinalReportOnce, TradeInv, NEW id \in DOMAIN exchange, exchange[id].open > 0
  PROVE  /\ id \in Live /\ ~ FinalIn(rspRing, id) /\ orderMap[id].canceled = 0
         /\ exchange[id].open = exchange[id].req.volume - exchange[id].filled
<1> DEFINE e == exchange[id]
<1>1. e.open \in Nat /\ e.filled \in Nat /\ e.req.volume \in Nat /\ e.open # 0
  BY OrderNumbers
<1>2. id \in Live
  BY <1>1 DEF TradeInv, OrderInv, Gone
<1>3. ~ FinalIn(rspRing, id)
  BY <1>1, <1>2, EndOnRing
<1>4. orderMap[id].canceled = 0
  BY <1>1, <1>2 DEF FinalReportOnce, LiveOrders
<1>5. e.open + e.filled + orderMap[id].canceled = e.req.volume
  BY <1>2, <1>3 DEF TradeInv, OrderInv, Accounted
<1> HIDE DEF e
<1>6. e.open = e.req.volume - e.filled
  BY <1>1, <1>4, <1>5
<1> QED
  BY <1>2, <1>3, <1>4, <1>6 DEF e

(* A callback's report carries what it takes off the order at the exchange.*)
Callback(id, r) ==
  LET e == exchange[id]
      f == exchange'[id]
  IN  /\ r.id = id
      /\ PushRsp(r)
      /\ DOMAIN exchange' = DOMAIN exchange
      /\ \A i \in DOMAIN exchange : i # id => exchange'[i] = exchange[i]
      /\ f.req = e.req
      /\ f.filled = e.filled
      /\ f.due = e.due - TradeLots(r, id)
      /\ e.due >= TradeLots(r, id)
      /\ IF Final(r) THEN e.open > 0 /\ f.open = 0 ELSE f.open = e.open
      /\ r.kind = "canceled" => r.volume = e.open

(* The exchange executes, or a callback reports.                           *)
LEMMA ExchangeEffect ==
  ASSUME TypeOK, FinalReportOnce, NEW id \in DOMAIN exchange, Exchange(id)
  PROVE  \/ \E r \in GatewayRsp : Callback(id, r)
         \/ \E v \in Nat \ {0} : ExchangeExecute(id, v)
<1> DEFINE e == exchange[id]
<1>1. /\ e \in ExchangeOrder /\ id \in OrderIds
      /\ e.req \in Requests /\ e.req.volume \in Nat /\ e.req.volume > 0
      /\ e.open \in Nat /\ e.filled \in Nat /\ e.due \in Nat
  BY OrderNumbers DEF TypeOK
<1>2. CASE ExchangeAccept(id)
  <2> DEFINE r == [kind |-> "accepted", id |-> id]
  <2>1. /\ r \in GatewayRsp /\ r.id = id /\ r.kind = "accepted" /\ ~ Final(r)
        /\ TradeLots(r, id) = 0
    BY <1>1 DEF GatewayRsp, Final, TradeLots
  <2>2. /\ DOMAIN exchange' = DOMAIN exchange
        /\ \A i \in DOMAIN exchange : i # id => exchange'[i] = exchange[i]
        /\ exchange'[id].req = e.req /\ exchange'[id].filled = e.filled
        /\ exchange'[id].due = e.due /\ exchange'[id].open = e.open
    BY <1>1, <1>2 DEF ExchangeAccept, TypeOK, ExchangeOrder
  <2>3. PushRsp(r)
    BY <1>2 DEF ExchangeAccept
  <2>4. exchange'[id].due = e.due - TradeLots(r, id) /\ e.due >= TradeLots(r, id)
    BY <1>1, <2>1, <2>2
  <2> HIDE DEF r
  <2> QED
    BY <2>1, <2>2, <2>3, <2>4 DEF Callback
<1>3. CASE ExchangeReject(id)
  <2> DEFINE r == [kind |-> "rejected", id |-> id]
  <2>1. /\ r \in GatewayRsp /\ r.id = id /\ r.kind = "rejected" /\ Final(r)
        /\ TradeLots(r, id) = 0
    BY <1>1 DEF GatewayRsp, Final, TradeLots
  <2>2. /\ DOMAIN exchange' = DOMAIN exchange
        /\ \A i \in DOMAIN exchange : i # id => exchange'[i] = exchange[i]
        /\ exchange'[id].req = e.req /\ exchange'[id].filled = e.filled
        /\ exchange'[id].due = e.due /\ exchange'[id].open = 0
    BY <1>1, <1>3 DEF ExchangeReject, TypeOK, ExchangeOrder
  <2>3. PushRsp(r) /\ e.open > 0
    BY <1>1, <1>3 DEF ExchangeReject
  <2>4. exchange'[id].due = e.due - TradeLots(r, id) /\ e.due >= TradeLots(r, id)
    BY <1>1, <2>1, <2>2
  <2> HIDE DEF r
  <2> QED
    BY <2>1, <2>2, <2>3, <2>4 DEF Callback
<1>4. CASE ExchangeCancel(id)
  <2> DEFINE r == [kind |-> "canceled", id |-> id, volume |-> e.open]
  <2>1. e.open > 0 /\ PushRsp(r)
    BY <1>4 DEF ExchangeCancel
  <2>2. /\ r \in GatewayRsp /\ r.id = id /\ r.kind = "canceled" /\ Final(r)
        /\ TradeLots(r, id) = 0 /\ r.volume = e.open
    BY <1>1, <2>1 DEF GatewayRsp, Final, TradeLots
  <2>3. /\ DOMAIN exchange' = DOMAIN exchange
        /\ \A i \in DOMAIN exchange : i # id => exchange'[i] = exchange[i]
        /\ exchange'[id].req = e.req /\ exchange'[id].filled = e.filled
        /\ exchange'[id].due = e.due /\ exchange'[id].open = 0
    BY <1>1, <1>4 DEF ExchangeCancel, TypeOK, ExchangeOrder
  <2>4. exchange'[id].due = e.due - TradeLots(r, id) /\ e.due >= TradeLots(r, id)
    BY <1>1, <2>2, <2>3
  <2> HIDE DEF r
  <2> QED
    BY <2>1, <2>2, <2>3, <2>4 DEF Callback
<1>5. CASE RejectCancel(id)
  <2> DEFINE r == [kind |-> "cancelRejected", id |-> id]
  <2>1. /\ r \in GatewayRsp /\ r.id = id /\ r.kind = "cancelRejected" /\ ~ Final(r)
        /\ TradeLots(r, id) = 0
    BY <1>1 DEF GatewayRsp, Final, TradeLots
  <2>2. exchange' = exchange /\ PushRsp(r)
    BY <1>5 DEF RejectCancel
  <2>3. exchange'[id].due = e.due - TradeLots(r, id) /\ e.due >= TradeLots(r, id)
    BY <1>1, <2>1, <2>2
  <2> HIDE DEF r
  <2> QED
    BY <2>1, <2>2, <2>3 DEF Callback
<1>6. ASSUME NEW v \in 1 .. e.req.volume, ExchangeExecute(id, v)
      PROVE  \E w \in Nat \ {0} : ExchangeExecute(id, w)
  <2>1. v \in Nat \ {0}
    BY <1>1
  <2> QED
    BY <1>6, <2>1
<1>7. ASSUME NEW v \in 1 .. e.req.volume, NEW p \in TradePrices, ReportTrade(id, v, p)
      PROVE  \E r \in GatewayRsp : Callback(id, r)
  <2> DEFINE r == [kind |-> "traded", id |-> id, volume |-> v, price |-> p]
  <2>1. v \in Nat \ {0} /\ p \in Nat
    BY <1>1, OmsAssumption
  <2>2. /\ r \in GatewayRsp /\ r.id = id /\ r.kind = "traded" /\ ~ Final(r)
        /\ TradeLots(r, id) = v
    BY <1>1, <2>1 DEF GatewayRsp, Final, TradeLots
  <2>3. /\ DOMAIN exchange' = DOMAIN exchange
        /\ \A i \in DOMAIN exchange : i # id => exchange'[i] = exchange[i]
        /\ exchange'[id].req = e.req /\ exchange'[id].filled = e.filled
        /\ exchange'[id].due = e.due - v /\ exchange'[id].open = e.open
    BY <1>1, <1>7 DEF ReportTrade, TypeOK, ExchangeOrder
  <2>4. PushRsp(r) /\ e.due >= v
    BY <1>7 DEF ReportTrade
  <2> HIDE DEF r
  <2> QED
    BY <2>2, <2>3, <2>4 DEF Callback
<1> QED
  BY <1>2, <1>3, <1>4, <1>5, <1>6, <1>7 DEF Exchange

LEMMA CallbackTrades ==
  ASSUME TypeOK, FinalReportOnce, TradeInv, NEW id \in DOMAIN exchange,
         NEW r \in GatewayRsp, Callback(id, r)
  PROVE  TradeInv'
<1> DEFINE e == exchange[id]
           f == exchange'[id]
<1>0. /\ r.id = id /\ PushRsp(r)
      /\ DOMAIN exchange' = DOMAIN exchange
      /\ \A i \in DOMAIN exchange : i # id => exchange'[i] = exchange[i]
      /\ f.req = e.req /\ f.filled = e.filled
      /\ f.due = e.due - TradeLots(r, id) /\ e.due >= TradeLots(r, id)
      /\ IF Final(r) THEN e.open > 0 /\ f.open = 0 ELSE f.open = e.open
      /\ r.kind = "canceled" => r.volume = e.open
  BY DEF Callback
<1>1. rspRing' = Append(rspRing, r) /\ orderMap' = orderMap /\ rspRing \in Seq(GatewayRsp)
  BY <1>0 DEF PushRsp, OmsUnchanged, TypeOK
<1>2. /\ Lots(rspRing', id) = Lots(rspRing, id) + TradeLots(r, id)
      /\ FinalIn(rspRing', id) <=> FinalIn(rspRing, id) \/ Final(r)
      /\ \A v : CancelsIn(rspRing, id, v) /\ (r.kind = "canceled" => r.volume = v)
                  => CancelsIn(rspRing', id, v)
  BY <1>0, <1>1, AppendSelf
<1>3. /\ Lots(rspRing, id) \in Nat /\ TradeLots(r, id) \in Nat
      /\ e.due \in Nat /\ e.open \in Nat /\ e.filled \in Nat
  BY <1>1, LotsType, TradeLotsType, OrderNumbers
<1>4. Final(r) => id \in Live /\ e.open = e.req.volume - e.filled
  BY <1>0, OpenIsLive
<1>5. OrderInv(id)
  BY DEF TradeInv
<1>6. CancelsIn(rspRing', id, f.req.volume - f.filled)
  BY <1>0, <1>2, <1>4, <1>5 DEF OrderInv, Final
<1>7. Live' = Live
  BY <1>1 DEF Live
<1>8. ASSUME id \in Live PROVE Accounted(id)'
  <2> DEFINE o == orderMap[id]
  <2>1. /\ o.req = e.req /\ o.canceled >= 0 /\ Left(o) > 0
        /\ o.traded = e.filled - e.due - Lots(rspRing, id)
        /\ ~ FinalIn(rspRing, id) => e.open + e.filled + o.canceled = e.req.volume
    BY <1>5, <1>8 DEF OrderInv, Accounted
  <2> HIDE DEF e, f
  <2>2. o.traded = f.filled - f.due - Lots(rspRing', id)
    BY <1>0, <1>2, <1>3, <2>1
  <2>3. ~ FinalIn(rspRing', id) => f.open + f.filled + o.canceled = f.req.volume
    BY <1>0, <1>2, <2>1
  <2> QED
    BY <1>0, <1>1, <2>1, <2>2, <2>3 DEF Accounted, e, f
<1>9. ASSUME id \notin Live PROVE Gone(id)'
  <2>1. e.open = 0 /\ e.due = 0 /\ Lots(rspRing, id) = 0 /\ ~ Final(r)
    BY <1>4, <1>5, <1>9 DEF OrderInv, Gone
  <2> HIDE DEF e, f
  <2>2. f.open = 0 /\ f.due = 0 /\ Lots(rspRing', id) = 0
    BY <1>0, <1>2, <1>3, <2>1
  <2> QED
    BY <2>2 DEF Gone, f
<1>10. OrderInv(id)'
  BY <1>6, <1>7, <1>8, <1>9 DEF OrderInv
<1>11. ASSUME NEW i \in DOMAIN exchange, i # id
       PROVE  SameReports(rspRing, rspRing', i)
  BY <1>0, <1>1, <1>11, AppendElsewhere
<1> QED
  BY <1>0, <1>1, <1>7, <1>10, <1>11, OneOrderTrades

(* An execution moves lots from what is open to what is due.               *)
LEMMA ExecuteTrades ==
  ASSUME TypeOK, FinalReportOnce, TradeInv, NEW id \in DOMAIN exchange,
         NEW v \in Nat \ {0}, ExchangeExecute(id, v)
  PROVE  TradeInv'
<1> DEFINE e == exchange[id]
           f == exchange'[id]
           o == orderMap[id]
<1>1. /\ e.open >= v
      /\ DOMAIN exchange' = DOMAIN exchange
      /\ \A i \in DOMAIN exchange : i # id => exchange'[i] = exchange[i]
      /\ f.req = e.req /\ f.open = e.open - v /\ f.filled = e.filled + v /\ f.due = e.due + v
      /\ rspRing' = rspRing /\ orderMap' = orderMap
  BY DEF ExchangeExecute, OmsUnchanged, TypeOK, ExchangeOrder
<1>2. /\ e.due \in Nat /\ e.open \in Nat /\ e.filled \in Nat /\ Lots(rspRing, id) \in Nat
      /\ e.req.volume \in Nat
  BY OrderNumbers
<1>3. /\ id \in Live /\ ~ FinalIn(rspRing, id) /\ o.canceled = 0
      /\ e.open = e.req.volume - e.filled
  BY <1>1, <1>2, OpenIsLive
<1>4. o.req = e.req /\ Left(o) > 0 /\ o.traded = e.filled - e.due - Lots(rspRing, id)
  BY <1>3 DEF TradeInv, OrderInv, Accounted
<1> HIDE DEF e, f, o
<1>5. o.traded = f.filled - f.due - Lots(rspRing, id)
  BY <1>1, <1>2, <1>4
<1>6. f.open + f.filled + o.canceled = f.req.volume
  BY <1>1, <1>2, <1>3
<1>7. Accounted(id)'
  BY <1>1, <1>3, <1>4, <1>5, <1>6 DEF Accounted, f, o, e
<1>8. Live' = Live
  BY <1>1 DEF Live
<1>9. OrderInv(id)'
  BY <1>1, <1>3, <1>7, <1>8, NoEndNoCancel DEF OrderInv
<1>10. \A i : SameReports(rspRing, rspRing', i)
  BY <1>1 DEF SameReports
<1> QED
  BY <1>1, <1>8, <1>9, <1>10, OneOrderTrades

LEMMA SubmitTrades ==
  ASSUME TypeOK, FinalReportOnce, TradeInv, NEW req \in Requests, SubmitOrder(req)
  PROVE  TradeInv'
<1>1. PICK id : id = nextOrderId
  OBVIOUS
<1>2. /\ id \in OrderIds /\ id \notin DOMAIN exchange /\ id \notin Live
      /\ \A k \in 1 .. Len(rspRing) : rspRing[k].id # id
  <2>1. id \in OrderIds
    BY <1>1, TakeType DEF SubmitOrder
  <2>2. id \notin DOMAIN exchange
    BY <1>1, <2>1 DEF FinalReportOnce, ExchangeCounts, OrderIds
  <2> QED
    BY <2>1, <2>2 DEF FinalReportOnce, LiveOrders, ReportsOnRing
<1>3. /\ DOMAIN exchange' = DOMAIN exchange \union {id}
      /\ exchange'[id] = [req |-> req, open |-> req.volume, filled |-> 0, due |-> 0, accepts |-> 0]
      /\ \A i \in DOMAIN exchange : exchange'[i] = exchange[i]
      /\ orderMap' = Put(id, NewOrder(req)) /\ rspRing' = rspRing
  BY <1>1, <1>2 DEF SubmitOrder
<1>4. /\ Live' = Live \union {id} /\ orderMap'[id] = NewOrder(req)
      /\ \A i \in Live : orderMap'[i] = orderMap[i]
  BY <1>2, <1>3 DEF Put, Live
<1>5. Lots(rspRing, id) = 0 /\ ~ FinalIn(rspRing, id)
  BY <1>2, LotsNone DEF TypeOK, FinalIn
<1>6. /\ NewOrder(req).req = req /\ NewOrder(req).traded = 0 /\ NewOrder(req).canceled = 0
      /\ Left(NewOrder(req)) = req.volume /\ req.volume \in Nat /\ req.volume > 0
  BY RequestType DEF NewOrder, Left
<1>7. Accounted(id)'
  BY <1>3, <1>4, <1>5, <1>6 DEF Accounted
<1>8. OrderInv(id)'
  BY <1>3, <1>4, <1>5, <1>7, NoEndNoCancel DEF OrderInv
<1>9. \A i : SameReports(rspRing, rspRing', i)
  BY <1>3 DEF SameReports
<1> QED
  BY <1>2, <1>3, <1>4, <1>8, <1>9, OneOrderTrades

(* A step that touches neither orders nor reports keeps every order        *)
(* accounted for.                                                          *)
LEMMA QuietTrades ==
  ASSUME TradeInv, UNCHANGED <<orderMap, rspRing, exchange>>
  PROVE  TradeInv'
BY DEF TradeInv, OrderInv, Accounted, Gone, Live

LEMMA NextTrades ==
  TypeOK /\ FinalReportOnce /\ TradeInv /\ [Next]_vars => TradeInv'
<1> SUFFICES ASSUME TypeOK, FinalReportOnce, TradeInv, [Next]_vars PROVE TradeInv'
  OBVIOUS
<1>1. ASSUME NEW req \in Requests, RefuseOrder(req) \/ FailToSend(req) PROVE TradeInv'
  BY <1>1, QuietTrades DEF RefuseOrder, FailToSend
<1>2. CASE ExecuteCmd
  BY <1>1, <1>2, SubmitTrades, QuietTrades
     DEF ExecuteCmd, CancelOrder, CancelForTicker, CancelAll, DoCancelOrders
<1>3. CASE ProcessRsp
  <2>1. CASE OnCancelRejected
    <3>1. PICK id : id = Head(rspRing).id
      OBVIOUS
    <3>2. TakeRsp("cancelRejected") /\ orderMap' = orderMap /\ Live' = Live
      BY <2>1 DEF OnCancelRejected, Live
    <3>3. SameBut(orderMap, orderMap', id)
      BY <3>2 DEF SameBut
    <3> QED
      BY <3>1, <3>2, <3>3, QuietReportTrades
  <2> QED
    BY <1>3, <2>1, OnAcceptedTrades, OnRejectedTrades, OnTradedTrades, OnCanceledTrades
       DEF ProcessRsp
<1>4. ASSUME NEW id \in DOMAIN exchange, Exchange(id) PROVE TradeInv'
  BY <1>4, ExchangeEffect, CallbackTrades, ExecuteTrades
<1>5. ASSUME NEW a \in BrokerAccounts, OnAccount(a) PROVE TradeInv'
  BY <1>5, QuietTrades DEF OnAccount
<1>6. CASE UNCHANGED vars
  BY <1>6, QuietTrades DEF vars
<1> QED
  BY <1>2, <1>3, <1>4, <1>5, <1>6 DEF Next

(* Every order is accounted for, sends that fail included.                 *)
THEOREM TradesAccounted == Spec => []TradeInv
<1>1. Init => TradeInv
  BY DEF Init, TradeInv
<1> QED
  BY <1>1, NextTrades, TypeCorrect, FinalReportCorrect, PTL DEF Spec

(* However reports, commands and handlers interleave, no execution is      *)
(* dropped as one of an unknown order: an order leaves the map only when   *)
(* nothing of it is outstanding, and has until then counted exactly the    *)
(* executions taken from the ring.                                         *)
THEOREM NoTradeLostCorrect == Spec => []NoTradeLost
<1>1. \A i : InRing(i) = Lots(rspRing, i)
  BY DEF InRing, Lots, TradeLots
<1>2. TradeInv => NoTradeLost
  BY <1>1 DEF TradeInv, OrderInv, Accounted, Gone, NoTradeLost, Processed
<1> QED
  BY <1>2, TradesAccounted, PTL

-----------------------------------------------------------------------------
(* Holdings follow the executions.                                         *)

(* Lots of order i executed and taken from the ring.                       *)
Executed(i) ==
  IF i \in DOMAIN exchange
  THEN exchange[i].filled - exchange[i].due - Lots(rspRing, i) ELSE 0

(* What x lots executed of a request do to the holdings of one side.       *)
HoldingShare(req, p, t, d, x) ==
  IF OnSide(req, p, t, d) THEN IF IsOffsetOpen(req.offset) THEN x ELSE 0 - x ELSE 0

HoldingTerm(i, p, t, d) ==
  IF i \in DOMAIN exchange THEN HoldingShare(exchange[i].req, p, t, d, Executed(i)) ELSE 0

HoldingTerms(p, t, d) == [i \in OrderIds |-> HoldingTerm(i, p, t, d)]

HoldingsInv ==
  \A p \in Pools, t \in Tickers, d \in Directions :
    book[p][t][d].holdings
      = InitBook[p][t][d].holdings + SumTo(HoldingTerms(p, t, d), MaxOrders)

(* The holdings of book c are those of b, moved by x lots of the request.  *)
HoldingsMove(b, c, req, x) ==
  \A p \in Pools, t \in Tickers, d \in Directions :
    c[p][t][d].holdings = b[p][t][d].holdings + HoldingShare(req, p, t, d, x)

(* HoldingsInv is HoldingsFollowTrades in the words of the proof.          *)
LEMMA HoldingsInvIs == HoldingsInv => HoldingsFollowTrades
<1> SUFFICES ASSUME HoldingsInv, NEW p \in Pools, NEW t \in Tickers, NEW d \in Directions
             PROVE  book[p][t][d].holdings = InitBook[p][t][d].holdings
                      + SumTo([i \in OrderIds |->
                                 IF /\ i \in DOMAIN exchange
                                    /\ FindCalculator(exchange[i].req.strategy) = p
                                    /\ exchange[i].req.ticker = t
                                    /\ SideOf(exchange[i].req) = d
                                 THEN IF IsOffsetOpen(exchange[i].req.offset)
                                      THEN Processed(i) ELSE 0 - Processed(i)
                                 ELSE 0], MaxOrders)
  BY DEF HoldingsFollowTrades
<1>1. \A i : InRing(i) = Lots(rspRing, i)
  BY DEF InRing, Lots, TradeLots
<1>2. \A i \in DOMAIN exchange : Executed(i) = Processed(i)
  BY <1>1 DEF Executed, Processed
<1>3. ASSUME NEW i
      PROVE  HoldingTerm(i, p, t, d)
               = IF /\ i \in DOMAIN exchange
                    /\ FindCalculator(exchange[i].req.strategy) = p
                    /\ exchange[i].req.ticker = t
                    /\ SideOf(exchange[i].req) = d
                 THEN IF IsOffsetOpen(exchange[i].req.offset)
                      THEN Processed(i) ELSE 0 - Processed(i)
                 ELSE 0
  BY <1>2 DEF HoldingTerm, HoldingShare, OnSide
<1> QED
  BY <1>3 DEF HoldingsInv, HoldingTerms

(* Pending volume holds nothing.                                           *)
LEMMA PendingHoldings ==
  ASSUME NEW b \in PositionBook, NEW req \in Requests, NEW x \in Int
  PROVE  \A p \in Pools, t \in Tickers, d \in Directions :
           UpdatePending(b, req, x)[p][t][d].holdings = b[p][t][d].holdings
<1> SUFFICES ASSUME NEW p \in Pools, NEW t \in Tickers, NEW d \in Directions
             PROVE  UpdatePending(b, req, x)[p][t][d].holdings = b[p][t][d].holdings
  OBVIOUS
<1> DEFINE old == b[FindCalculator(req.strategy)][req.ticker][SideOf(req)]
           new == PendingDetail(old, req.offset, x)
<1>1. old \in PositionDetail
  BY RequestType DEF PositionBook
<1>2. new.holdings = old.holdings
  <2> HIDE DEF old
  <2> QED
    BY <1>1 DEF PendingDetail, PositionDetail
<1>3. UpdatePending(b, req, x)
        = [b EXCEPT ![FindCalculator(req.strategy)][req.ticker][SideOf(req)] = new]
  BY DEF UpdatePending
<1> HIDE DEF new
<1>4. CASE OnSide(req, p, t, d)
  BY <1>2, <1>3, <1>4, RequestType DEF OnSide, PositionBook
<1>5. CASE ~ OnSide(req, p, t, d)
  BY <1>3, <1>5, RequestType DEF OnSide, PositionBook
<1> QED
  BY <1>4, <1>5

(* A trade moves the holdings of the order's side.                         *)
LEMMA TradedHoldings ==
  ASSUME NEW b \in PositionBook, NEW req \in Requests, NEW v \in Int
  PROVE  HoldingsMove(b, UpdateTraded(b, req, v), req, v)
<1> SUFFICES ASSUME NEW p \in Pools, NEW t \in Tickers, NEW d \in Directions
             PROVE  UpdateTraded(b, req, v)[p][t][d].holdings
                      = b[p][t][d].holdings + HoldingShare(req, p, t, d, v)
  BY DEF HoldingsMove
<1> DEFINE old == b[FindCalculator(req.strategy)][req.ticker][SideOf(req)]
           new == TradedDetail(old, req.offset, v)
<1>1. old \in PositionDetail /\ b[p][t][d].holdings \in Int
  BY RequestType DEF PositionBook, PositionDetail
<1>2. new.holdings = old.holdings + (IF IsOffsetOpen(req.offset) THEN v ELSE 0 - v)
  <2> DEFINE left == old.holdings - v
             yd   == AtMost(left, IF req.offset \in {"close", "close_yesterday"}
                                  THEN old.yd - AtMost(old.yd, v) ELSE old.yd)
  <2>1. new = IF IsOffsetClose(req.offset)
              THEN [old EXCEPT !.closePending = @ - v, !.holdings = left, !.yd = yd]
              ELSE [old EXCEPT !.openPending = @ - v, !.holdings = @ + v]
    BY DEF TradedDetail
  <2>2. left = old.holdings - v
    OBVIOUS
  <2> HIDE DEF left, yd, new, old
  <2>3. old.holdings \in Int
    BY <1>1 DEF PositionDetail
  <2>4. CASE IsOffsetOpen(req.offset)
    <3>1. new.holdings = old.holdings + v
      BY <1>1, <2>1, <2>4, OpenOrClose DEF PositionDetail
    <3> QED
      BY <2>4, <3>1
  <2>5. CASE ~ IsOffsetOpen(req.offset)
    <3>1. new.holdings = left
      BY <1>1, <2>1, <2>5, OpenOrClose DEF PositionDetail
    <3> QED
      BY <2>2, <2>3, <2>5, <3>1
  <2> QED
    BY <2>4, <2>5
<1>3. UpdateTraded(b, req, v)
        = [b EXCEPT ![FindCalculator(req.strategy)][req.ticker][SideOf(req)] = new]
  BY DEF UpdateTraded
<1> HIDE DEF new
<1>4. CASE OnSide(req, p, t, d)
  <2>1. UpdateTraded(b, req, v)[p][t][d] = new /\ old = b[p][t][d]
    BY <1>3, <1>4, RequestType DEF OnSide, PositionBook
  <2> HIDE DEF old
  <2> QED
    BY <1>2, <1>4, <2>1 DEF HoldingShare
<1>5. CASE ~ OnSide(req, p, t, d)
  <2>1. UpdateTraded(b, req, v)[p][t][d] = b[p][t][d]
    BY <1>3, <1>5, RequestType DEF OnSide, PositionBook
  <2> QED
    BY <1>1, <1>5, <2>1 DEF HoldingShare
<1> QED
  BY <1>4, <1>5

(* The terms are integers.                                                 *)
LEMMA HoldingTermType ==
  ASSUME TypeOK, NEW i, NEW p, NEW t, NEW d
  PROVE  Executed(i) \in Int /\ HoldingTerm(i, p, t, d) \in Int
<1>1. Lots(rspRing, i) \in Nat
  BY LotsType DEF TypeOK
<1>2. ASSUME i \in DOMAIN exchange PROVE exchange[i].filled \in Nat /\ exchange[i].due \in Nat
  <2>1. exchange[i] \in ExchangeOrder
    BY <1>2 DEF TypeOK
  <2> QED
    BY <2>1 DEF ExchangeOrder
<1>3. Executed(i) \in Int
  BY <1>1, <1>2 DEF Executed
<1> QED
  BY <1>3 DEF HoldingTerm, HoldingShare

SameHoldings(b, c) ==
  \A p \in Pools, t \in Tickers, d \in Directions :
    c[p][t][d].holdings = b[p][t][d].holdings

(* A step that moves no holdings and takes no execution from the ring.     *)
LEMMA HoldingsQuiet ==
  ASSUME HoldingsInv, SameHoldings(book, book'),
         DOMAIN exchange \subseteq DOMAIN exchange',
         \A i \in DOMAIN exchange : exchange'[i].req = exchange[i].req,
         \A i \in OrderIds : Executed(i)' = Executed(i)
  PROVE  HoldingsInv'
<1>1. ASSUME NEW i \in OrderIds, NEW p, NEW t, NEW d
      PROVE  HoldingTerm(i, p, t, d)' = HoldingTerm(i, p, t, d)
  <2>1. CASE i \in DOMAIN exchange
    BY <2>1 DEF HoldingTerm
  <2>2. CASE i \notin DOMAIN exchange
    <3>1. Executed(i)' = 0
      BY <2>2 DEF Executed
    <3>2. HoldingTerm(i, p, t, d)' = 0
      BY <3>1 DEF HoldingTerm, HoldingShare
    <3> QED
      BY <2>2, <3>2 DEF HoldingTerm
  <2> QED
    BY <2>1, <2>2
<1>2. \A p, t, d : HoldingTerms(p, t, d)' = HoldingTerms(p, t, d)
  BY <1>1 DEF HoldingTerms
<1> QED
  BY <1>2 DEF HoldingsInv, SameHoldings

(* A step that takes x lots executed of order id from the ring, and moves  *)
(* the holdings by as much.                                                *)
LEMMA HoldingsStep ==
  ASSUME TypeOK, TypeOK', HoldingsInv,
         NEW id \in DOMAIN exchange, NEW x \in Int,
         HoldingsMove(book, book', exchange[id].req, x),
         DOMAIN exchange' = DOMAIN exchange,
         \A i \in DOMAIN exchange : exchange'[i].req = exchange[i].req,
         \A i \in OrderIds : i # id => Executed(i)' = Executed(i),
         Executed(id)' = Executed(id) + x
  PROVE  HoldingsInv'
<1> SUFFICES ASSUME NEW p \in Pools, NEW t \in Tickers, NEW d \in Directions
             PROVE  book'[p][t][d].holdings = InitBook[p][t][d].holdings
                      + SumTo(HoldingTerms(p, t, d)', MaxOrders)
  BY DEF HoldingsInv
<1> DEFINE f == HoldingTerms(p, t, d)
           g == HoldingTerms(p, t, d)'
           x1 == HoldingShare(exchange[id].req, p, t, d, x)
<1>1. ASSUME NEW i \in OrderIds, i # id
      PROVE  HoldingTerm(i, p, t, d)' = HoldingTerm(i, p, t, d)
  BY <1>1 DEF HoldingTerm
<1>2. HoldingTerm(id, p, t, d)' = HoldingTerm(id, p, t, d) + x1
  <2>1. Executed(id) \in Int
    BY HoldingTermType
  <2>2. /\ HoldingTerm(id, p, t, d) = HoldingShare(exchange[id].req, p, t, d, Executed(id))
        /\ HoldingTerm(id, p, t, d)'
             = HoldingShare(exchange[id].req, p, t, d, Executed(id) + x)
    BY DEF HoldingTerm
  <2>3. HoldingShare(exchange[id].req, p, t, d, Executed(id) + x)
          = HoldingShare(exchange[id].req, p, t, d, Executed(id)) + x1
    BY <2>1 DEF HoldingShare
  <2> QED
    BY <2>2, <2>3
<1>3. MaxOrders \in Nat /\ OrderIds = 1 .. MaxOrders /\ id \in OrderIds
  BY OmsAssumption DEF OrderIds, TypeOK
<1>4. f \in [OrderIds -> Int]
  BY HoldingTermType DEF HoldingTerms
<1>5. g \in [OrderIds -> Int]
  <2>1. \A i \in OrderIds : HoldingTerm(i, p, t, d)' \in Int
    BY <1>1, <1>2, HoldingTermType DEF HoldingShare
  <2> QED
    BY <2>1 DEF HoldingTerms
<1>6. (\A i \in OrderIds : i # id => g[i] = f[i]) /\ g[id] = f[id] + x1
  BY <1>1, <1>2, <1>3 DEF HoldingTerms
<1>7. /\ book[p][t][d].holdings = InitBook[p][t][d].holdings + SumTo(f, MaxOrders)
      /\ book'[p][t][d].holdings = book[p][t][d].holdings + x1
  BY DEF HoldingsInv, HoldingsMove
<1>8. InitBook[p][t][d].holdings \in Int /\ x1 \in Int
  BY OmsAssumption DEF PositionBook, PositionDetail, HoldingShare
<1> HIDE DEF f, g, x1
<1>9. SumTo(g, MaxOrders) = SumTo(f, MaxOrders) + (g[id] - f[id])
  BY <1>3, <1>4, <1>5, <1>6, SumToUpdate
<1>10. SumTo(f, MaxOrders) \in Int /\ f[id] \in Int
  BY <1>3, <1>4, SumToInt
<1> QED
  BY <1>6, <1>7, <1>8, <1>9, <1>10 DEF g

(* Commands, and answers of the broker, leave exchange and ring alone.     *)
LEMMA QuietHoldings ==
  ASSUME HoldingsInv, SameHoldings(book, book'), UNCHANGED <<rspRing, exchange>>
  PROVE  HoldingsInv'
BY HoldingsQuiet DEF Executed

(* A submitted order has no executions.                                    *)
LEMMA SubmitHoldings ==
  ASSUME TypeOK, FinalReportOnce, HoldingsInv, NEW req \in Requests, SubmitOrder(req)
  PROVE  HoldingsInv'
<1>1. PICK id : id = nextOrderId
  OBVIOUS
<1>2. /\ id \notin DOMAIN exchange
      /\ \A k \in 1 .. Len(rspRing) : rspRing[k].id # id
  <2>1. id \in OrderIds
    BY <1>1, TakeType DEF SubmitOrder
  <2>2. id \notin DOMAIN exchange
    BY <1>1, <2>1 DEF FinalReportOnce, ExchangeCounts, OrderIds
  <2> QED
    BY <2>2 DEF FinalReportOnce, ReportsOnRing
<1>3. /\ DOMAIN exchange' = DOMAIN exchange \union {id}
      /\ exchange'[id].filled = 0 /\ exchange'[id].due = 0
      /\ \A i \in DOMAIN exchange : exchange'[i] = exchange[i]
      /\ book' = UpdatePending(book, req, req.volume) /\ rspRing' = rspRing
  BY <1>1, <1>2 DEF SubmitOrder
<1>4. SameHoldings(book, book')
  BY <1>3, PendingHoldings, RequestType DEF TypeOK, SameHoldings
<1>5. Lots(rspRing, id) = 0
  BY <1>2, LotsNone DEF TypeOK
<1>6. \A i \in OrderIds : Executed(i)' = Executed(i)
  BY <1>2, <1>3, <1>5 DEF Executed
<1> QED
  BY <1>3, <1>4, <1>6, HoldingsQuiet

(* A report other than a trade is handled.                                 *)
LEMMA ReportHoldings ==
  ASSUME TypeOK, HoldingsInv, NEW kind, kind # "traded", TakeRsp(kind),
         SameHoldings(book, book')
  PROVE  HoldingsInv'
<1>1. /\ rspRing # <<>> /\ Head(rspRing).kind # "traded"
      /\ rspRing' = Tail(rspRing) /\ exchange' = exchange
  BY DEF TakeRsp
<1>2. ASSUME NEW i PROVE Lots(rspRing', i) = Lots(rspRing, i)
  <2>1. /\ Lots(rspRing, i) = TradeLots(Head(rspRing), i) + Lots(Tail(rspRing), i)
        /\ Lots(Tail(rspRing), i) \in Nat
    BY <1>1, LotsTail, LotsType, HeadType DEF TypeOK
  <2>2. TradeLots(Head(rspRing), i) = 0
    BY <1>1 DEF TradeLots
  <2> QED
    BY <1>1, <2>1, <2>2
<1>3. \A i \in OrderIds : Executed(i)' = Executed(i)
  BY <1>1, <1>2 DEF Executed
<1> QED
  BY <1>1, <1>3, HoldingsQuiet

(* A trade report reaches a live order and moves its holdings.             *)
LEMMA OnTradedHoldings ==
  ASSUME TypeOK, TypeOK', FinalReportOnce, TradeInv, HoldingsInv, OnTraded
  PROVE  HoldingsInv'
<1>1. PICK id : id = Head(rspRing).id
  OBVIOUS
<1>2. PICK v : v = Head(rspRing).volume
  OBVIOUS
<1>3. /\ TakeRsp("traded") /\ rspRing # <<>> /\ Head(rspRing).kind = "traded"
      /\ rspRing' = Tail(rspRing) /\ exchange' = exchange
      /\ v \in Nat /\ v > 0
  BY <1>2, HeadType DEF OnTraded, TakeRsp
<1>4. id \in DOMAIN exchange /\ Lots(rspRing, id) = v + Lots(rspRing', id)
  BY <1>1, <1>2, <1>3, HeadOrder DEF TradeLots
<1>5. Lots(rspRing', id) \in Nat /\ Lots(rspRing, id) \in Nat
  BY <1>3, LotsType, HeadType DEF TypeOK
<1>6. id \in Live
  <2>1. Lots(rspRing, id) # 0
    BY <1>3, <1>4, <1>5
  <2> QED
    BY <1>4, <2>1 DEF TradeInv, OrderInv, Gone
<1>7. orderMap[id].req = exchange[id].req /\ exchange[id].req \in Requests
  BY <1>4, <1>6, OrderNumbers DEF TradeInv, OrderInv, Accounted
<1>8. book' = UpdateTraded(book, orderMap[id].req, v)
  BY <1>1, <1>2, <1>6 DEF OnTraded
<1>9. HoldingsMove(book, book', exchange[id].req, v)
  BY <1>3, <1>7, <1>8, TradedHoldings DEF TypeOK
<1>10. Executed(id)' = Executed(id) + v
  <2>1. exchange[id].filled \in Nat /\ exchange[id].due \in Nat
    BY <1>4, OrderNumbers
  <2>2. Executed(id)' = exchange[id].filled - exchange[id].due - Lots(rspRing', id)
    BY <1>3, <1>4 DEF Executed
  <2>3. Executed(id) = exchange[id].filled - exchange[id].due - Lots(rspRing, id)
    BY <1>4 DEF Executed
  <2> QED
    BY <1>3, <1>4, <1>5, <2>1, <2>2, <2>3
<1>11. ASSUME NEW i \in OrderIds, i # id PROVE Executed(i)' = Executed(i)
  BY <1>1, <1>3, <1>11, TailElsewhere DEF SameReports, Executed, TypeOK
<1> QED
  BY <1>3, <1>4, <1>9, <1>10, <1>11, HoldingsStep

(* What a callback reports is due no longer and waits on the ring.         *)
LEMMA CallbackHoldings ==
  ASSUME TypeOK, FinalReportOnce, HoldingsInv, NEW id \in DOMAIN exchange,
         NEW r \in GatewayRsp, Callback(id, r)
  PROVE  HoldingsInv'
<1>1. /\ r.id = id /\ rspRing' = Append(rspRing, r) /\ book' = book
      /\ DOMAIN exchange' = DOMAIN exchange
      /\ \A i \in DOMAIN exchange : i # id => exchange'[i] = exchange[i]
      /\ exchange'[id].req = exchange[id].req
      /\ exchange'[id].filled = exchange[id].filled
      /\ exchange'[id].due = exchange[id].due - TradeLots(r, id)
  BY DEF Callback, PushRsp, OmsUnchanged
<1>2. /\ Lots(rspRing', id) = Lots(rspRing, id) + TradeLots(r, id)
      /\ Lots(rspRing, id) \in Nat /\ TradeLots(r, id) \in Nat
  BY <1>1, LotsAppend, LotsType, TradeLotsType DEF TypeOK
<1>3. exchange[id].filled \in Nat /\ exchange[id].due \in Nat
  BY OrderNumbers
<1>4. Executed(id)' = Executed(id)
  <2>1. exchange'[id].filled - exchange'[id].due - Lots(rspRing', id)
          = exchange[id].filled - exchange[id].due - Lots(rspRing, id)
    BY <1>1, <1>2, <1>3
  <2> QED
    BY <1>1, <2>1 DEF Executed
<1>5. ASSUME NEW i \in OrderIds, i # id PROVE Executed(i)' = Executed(i)
  BY <1>1, <1>5, AppendElsewhere DEF SameReports, Executed, TypeOK
<1>6. SameHoldings(book, book')
  BY <1>1 DEF SameHoldings
<1> QED
  BY <1>1, <1>4, <1>5, <1>6, HoldingsQuiet

(* What the exchange executes is due to be reported.                       *)
LEMMA ExecuteHoldings ==
  ASSUME TypeOK, FinalReportOnce, HoldingsInv, NEW id \in DOMAIN exchange,
         NEW v \in Nat \ {0}, ExchangeExecute(id, v)
  PROVE  HoldingsInv'
<1>1. /\ rspRing' = rspRing /\ book' = book
      /\ DOMAIN exchange' = DOMAIN exchange
      /\ \A i \in DOMAIN exchange : i # id => exchange'[i] = exchange[i]
      /\ exchange'[id].req = exchange[id].req
      /\ exchange'[id].filled = exchange[id].filled + v
      /\ exchange'[id].due = exchange[id].due + v
  BY DEF ExchangeExecute, OmsUnchanged, TypeOK, ExchangeOrder
<1>2. /\ exchange[id].filled \in Nat /\ exchange[id].due \in Nat /\ Lots(rspRing, id) \in Nat
  BY OrderNumbers
<1>3. Executed(id)' = Executed(id)
  <2>1. exchange'[id].filled - exchange'[id].due - Lots(rspRing', id)
          = exchange[id].filled - exchange[id].due - Lots(rspRing, id)
    BY <1>1, <1>2
  <2> QED
    BY <1>1, <2>1 DEF Executed
<1>4. ASSUME NEW i \in OrderIds, i # id PROVE Executed(i)' = Executed(i)
  BY <1>1, <1>4 DEF Executed
<1>5. SameHoldings(book, book')
  BY <1>1 DEF SameHoldings
<1> QED
  BY <1>1, <1>3, <1>4, <1>5, HoldingsQuiet

(* Only trades move holdings.                                              *)
LEMMA QuietBook ==
  ASSUME TypeOK, [Next]_vars, ~ OnTraded
  PROVE  SameHoldings(book, book')
<1>1. ASSUME book' = book PROVE SameHoldings(book, book')
  BY <1>1 DEF SameHoldings
<1>2. ASSUME NEW req \in Requests, NEW x \in Int, book' = UpdatePending(book, req, x)
      PROVE  SameHoldings(book, book')
  BY <1>2, PendingHoldings DEF SameHoldings, TypeOK
<1>3. CASE ExecuteCmd
  <2>1. ASSUME NEW req \in Requests, RefuseOrder(req) \/ FailToSend(req) \/ SubmitOrder(req)
        PROVE  SameHoldings(book, book')
    <3>1. req.volume \in Int /\ 0 - req.volume \in Int
      BY RequestType
    <3> QED
      BY <1>1, <1>2, <2>1, <3>1 DEF RefuseOrder, FailToSend, SubmitOrder
  <2> QED
    BY <1>1, <1>3, <2>1
       DEF ExecuteCmd, CancelOrder, CancelForTicker, CancelAll, DoCancelOrders
<1>4. CASE ProcessRsp
  <2>1. ASSUME NEW i \in Live
        PROVE  orderMap[i].req \in Requests /\ 0 - orderMap[i].req.volume \in Int
    <3>1. orderMap[i].req \in Requests
      BY DEF TypeOK, Order
    <3> QED
      BY <3>1, RequestType
  <2>2. CASE OnRejected
    BY <1>1, <1>2, <2>1, <2>2 DEF OnRejected
  <2>3. CASE OnCanceled
    <3>1. 0 - Head(rspRing).volume \in Int
      BY <2>3, HeadType DEF OnCanceled, TakeRsp
    <3> QED
      BY <1>1, <1>2, <2>1, <2>3, <3>1 DEF OnCanceled
  <2> QED
    BY <1>1, <1>4, <2>2, <2>3 DEF ProcessRsp, OnAccepted, OnCancelRejected
<1>5. ASSUME NEW id \in DOMAIN exchange, Exchange(id) PROVE SameHoldings(book, book')
  BY <1>1, <1>5 DEF Exchange, ExchangeAccept, ExchangeReject, ExchangeExecute, ReportTrade,
     ExchangeCancel, RejectCancel, PushRsp, OmsUnchanged
<1>6. ASSUME NEW a \in BrokerAccounts, OnAccount(a) PROVE SameHoldings(book, book')
  BY <1>1, <1>6 DEF OnAccount
<1>7. CASE UNCHANGED vars
  BY <1>1, <1>7 DEF vars
<1> QED
  BY <1>3, <1>4, <1>5, <1>6, <1>7 DEF Next

LEMMA NextHoldings ==
  /\ TypeOK /\ TypeOK' /\ FinalReportOnce /\ TradeInv /\ HoldingsInv
  /\ [Next]_vars
  => HoldingsInv'
<1> SUFFICES ASSUME TypeOK, TypeOK', FinalReportOnce, TradeInv, HoldingsInv, [Next]_vars,
                    ~ OnTraded
             PROVE  HoldingsInv'
  BY OnTradedHoldings
<1>1. SameHoldings(book, book')
  BY QuietBook
<1>2. CASE ExecuteCmd
  BY <1>1, <1>2, SubmitHoldings, QuietHoldings
     DEF ExecuteCmd, RefuseOrder, FailToSend, CancelOrder, CancelForTicker, CancelAll,
         DoCancelOrders
<1>3. CASE ProcessRsp
  BY <1>1, <1>3, ReportHoldings
     DEF ProcessRsp, OnAccepted, OnRejected, OnCanceled, OnCancelRejected
<1>4. ASSUME NEW id \in DOMAIN exchange, Exchange(id) PROVE HoldingsInv'
  BY <1>4, ExchangeEffect, CallbackHoldings, ExecuteHoldings
<1>5. ASSUME NEW a \in BrokerAccounts, OnAccount(a) PROVE HoldingsInv'
  BY <1>1, <1>5, QuietHoldings DEF OnAccount
<1>6. CASE UNCHANGED vars
  BY <1>1, <1>6, QuietHoldings DEF vars
<1> QED
  BY <1>2, <1>3, <1>4, <1>5, <1>6 DEF Next

(* Each pool holds what it started with, plus the opening and minus the    *)
(* closing executions the main loop has handled, whatever was refused, not *)
(* sent, rejected or cancelled meanwhile.                                  *)
THEOREM HoldingsCorrect == Spec => []HoldingsFollowTrades
<1>1. Init => HoldingsInv
  <2> SUFFICES ASSUME Init, NEW p \in Pools, NEW t \in Tickers, NEW d \in Directions
               PROVE  book[p][t][d].holdings
                        = InitBook[p][t][d].holdings + SumTo(HoldingTerms(p, t, d), MaxOrders)
    BY DEF HoldingsInv
  <2>1. book = InitBook /\ DOMAIN exchange = {}
    BY DEF Init
  <2>2. HoldingTerms(p, t, d) = [i \in OrderIds |-> 0]
    BY <2>1 DEF HoldingTerms, HoldingTerm
  <2>3. SumTo([i \in OrderIds |-> 0], MaxOrders) = 0
    <3> DEFINE f == [i \in OrderIds |-> 0]
    <3>1. MaxOrders \in Nat /\ f \in [1 .. MaxOrders -> Int] /\ \A i \in 1 .. MaxOrders : f[i] = 0
      BY OmsAssumption DEF OrderIds
    <3> HIDE DEF f
    <3> QED
      BY <3>1, SumToZero DEF f
  <2>4. InitBook[p][t][d].holdings \in Int
    BY OmsAssumption DEF PositionBook, PositionDetail
  <2> QED
    BY <2>1, <2>2, <2>3, <2>4
<1> QED
  BY <1>1, NextHoldings, HoldingsInvIs, TypeCorrect, FinalReportCorrect, TradesAccounted,
     PTL DEF Spec


-----------------------------------------------------------------------------
(* FundRisk: no money vanishes.                                            *)

(* The account c has at least the money of a.                              *)
KeepsMoney(a, c) ==
  c.cash + c.margin + c.frozen >= a.cash + a.margin + a.frozen

LEMMA FundKeepsMoney ==
  ASSUME NEW a \in Account, NEW req \in Requests, NEW x \in Int, NEW p \in Int
  PROVE  /\ KeepsMoney(a, a)
         /\ KeepsMoney(a, FundSent(a, req))
         /\ KeepsMoney(a, FundTraded(a, req, x, p))
         /\ KeepsMoney(a, FundCanceled(a, req, x))
<1>1. a.frozen \in Int /\ a.margin \in Int /\ a.cash \in Int
  BY DEF Account
<1>2. /\ MarginOf(req, x, p) \in Int /\ MarginOf(req, x, req.price) \in Int
      /\ MarginOf(req, req.volume, req.price) \in Int
  BY MarginOfType, RequestType
<1>3. KeepsMoney(a, FundSent(a, req)) /\ KeepsMoney(a, a)
  BY <1>1, <1>2 DEF Account, FundSent, KeepsMoney
<1>4. KeepsMoney(a, FundTraded(a, req, x, p))
  <2> DEFINE r == MarginOf(req, x, req.price)
             m == MarginOf(req, x, p)
             left == IF a.margin - m < 0 THEN 0 ELSE a.margin - m
  <2>1. left \in Int /\ left >= a.margin - m /\ r \in Int /\ m \in Int
    BY <1>1, <1>2
  <2> DEFINE opened == [a EXCEPT !.frozen = @ - r, !.margin = @ + m, !.cash = @ + (r - m)]
             closed == [a EXCEPT !.cash = @ + m, !.margin = left]
  <2>2. FundTraded(a, req, x, p) = IF IsOffsetOpen(req.offset) THEN opened ELSE closed
    BY DEF FundTraded
  <2> HIDE DEF r, m, left
  <2>3. KeepsMoney(a, opened)
    BY <1>1, <2>1 DEF Account, KeepsMoney
  <2>4. KeepsMoney(a, closed)
    BY <1>1, <2>1 DEF Account, KeepsMoney
  <2> QED
    BY <2>2, <2>3, <2>4
<1>5. KeepsMoney(a, FundCanceled(a, req, x))
  BY <1>1, <1>2 DEF Account, FundCanceled, KeepsMoney
<1> QED
  BY <1>3, <1>4, <1>5

(* A step keeps the money, or it is the broker's answer.                   *)
LEMMA NextKeepsMoney ==
  TypeOK /\ [Next]_vars =>
    \/ baseline' = baseline /\ KeepsMoney(account, account')
    \/ \E a \in BrokerAccounts : OnAccount(a)
<1> SUFFICES ASSUME TypeOK, [Next]_vars, ~ \E a \in BrokerAccounts : OnAccount(a)
             PROVE  baseline' = baseline /\ KeepsMoney(account, account')
  OBVIOUS
<1>1. baseline' = baseline
  BY DEF Next, vars, ExecuteCmd, RefuseOrder, FailToSend, SubmitOrder, TakeOrderId,
     CancelOrder, CancelForTicker, CancelAll, DoCancelOrders,
     ProcessRsp, OnAccepted, OnRejected, OnTraded, OnCanceled, OnCancelRejected, TakeRsp,
     Exchange, ExchangeAccept, ExchangeReject, ExchangeExecute, ReportTrade,
     ExchangeCancel, RejectCancel, PushRsp, OmsUnchanged
<1>2. SUFFICES KeepsMoney(account, account')
  BY <1>1
<1>3. account \in Account
  BY DEF TypeOK
<1>4. ASSUME account' = account PROVE KeepsMoney(account, account')
  BY <1>3, <1>4 DEF KeepsMoney, Account
<1>5. CASE ExecuteCmd
  <2>1. ASSUME NEW req \in Requests, FailToSend(req) \/ SubmitOrder(req)
        PROVE  KeepsMoney(account, account')
    BY <1>3, <2>1, FundKeepsMoney, RequestType DEF FailToSend, SubmitOrder
  <2> QED
    BY <1>4, <1>5, <2>1
       DEF ExecuteCmd, RefuseOrder, CancelOrder, CancelForTicker, CancelAll, DoCancelOrders
<1>6. CASE ProcessRsp
  <2> DEFINE r == Head(rspRing)
  <2>1. CASE account' # account
    <3>1. OnRejected \/ OnTraded \/ OnCanceled
      BY <1>6, <2>1 DEF ProcessRsp, OnAccepted, OnCancelRejected
    <3>2. r.id \in Live
      BY <2>1, <3>1 DEF OnRejected, OnTraded, OnCanceled
    <3>3. orderMap[r.id].req \in Requests /\ orderMap[r.id].req.volume \in Int
      <4>1. orderMap[r.id] \in Order
        BY <3>2 DEF TypeOK
      <4>2. orderMap[r.id].req \in Requests
        BY <4>1 DEF Order
      <4> QED
        BY <4>2, RequestType
    <3>4. /\ r.kind = "traded" => r.volume \in Int /\ r.price \in Int
          /\ r.kind = "canceled" => r.volume \in Int
      BY <3>1, HeadType DEF OnRejected, OnTraded, OnCanceled, TakeRsp
    <3>5. CASE OnRejected
      BY <1>3, <3>2, <3>3, <3>5, FundKeepsMoney DEF OnRejected
    <3>6. CASE OnTraded
      BY <1>3, <3>2, <3>3, <3>4, <3>6, FundKeepsMoney DEF OnTraded, TakeRsp
    <3>7. CASE OnCanceled
      BY <1>3, <3>2, <3>3, <3>4, <3>7, FundKeepsMoney DEF OnCanceled, TakeRsp
    <3> QED
      BY <3>1, <3>5, <3>6, <3>7
  <2> QED
    BY <1>4, <2>1
<1>7. ASSUME NEW id \in DOMAIN exchange, Exchange(id) PROVE KeepsMoney(account, account')
  BY <1>4, <1>7 DEF Exchange, ExchangeAccept, ExchangeReject, ExchangeExecute, ReportTrade,
     ExchangeCancel, RejectCancel, PushRsp, OmsUnchanged
<1>8. CASE UNCHANGED vars
  BY <1>4, <1>8 DEF vars
<1> QED
  BY <1>5, <1>6, <1>7, <1>8 DEF Next

(* Cash, margin and frozen money never add up to less than they were in    *)
(* the broker's last answer, sends that fail included.                     *)
THEOREM AssetCorrect == Spec => []AssetNotLost
<1>1. ASSUME NEW a \in Account, NEW m
      PROVE  a.cash + a.margin + a.frozen >= BaselineOf(a, m).money
  BY DEF Account, BaselineOf
<1>2. Init => AssetNotLost
  BY <1>1, OmsAssumption DEF Init, AssetNotLost
<1>3. TypeOK /\ TypeOK' /\ AssetNotLost /\ [Next]_vars => AssetNotLost'
  <2> SUFFICES ASSUME TypeOK, TypeOK', AssetNotLost, [Next]_vars PROVE AssetNotLost'
    OBVIOUS
  <2>1. CASE baseline' = baseline /\ KeepsMoney(account, account')
    BY SMTT(30), <2>1 DEF TypeOK, Account, AssetNotLost, KeepsMoney
  <2>2. ASSUME NEW a \in BrokerAccounts, OnAccount(a) PROVE AssetNotLost'
    <3>1. a \in Account /\ account' = a /\ baseline' = BaselineOf(a, orderMap)
      BY <2>2, OmsAssumption DEF OnAccount
    <3> QED
      BY <1>1, <3>1 DEF AssetNotLost
  <2> QED
    BY <2>1, <2>2, NextKeepsMoney
<1> QED
  BY <1>2, <1>3, NextType, TypeCorrect, PTL DEF Spec

-----------------------------------------------------------------------------
(* PositionRisk: closes never ask for more than is held.                   *)

Covered(detail) == detail.closePending <= detail.holdings

(* A change of the one detail an order works on keeps every other covered. *)
LEMMA CoveredElsewhere ==
  ASSUME NoOverClose, book \in PositionBook, NEW req \in Requests, NEW new,
         book' = [book EXCEPT ![FindCalculator(req.strategy)][req.ticker][SideOf(req)] = new],
         req.strategy \in Strategies
           /\ Covered(book[req.strategy][req.ticker][SideOf(req)]) => Covered(new)
  PROVE  NoOverClose'
<1> SUFFICES ASSUME NEW s \in Strategies, NEW t \in Tickers, NEW d \in Directions
             PROVE  Covered(book'[s][t][d])
  BY DEF NoOverClose, Covered
<1>1. Covered(book[s][t][d]) /\ s \in Pools
  BY DEF NoOverClose, Covered, Pools
<1>2. CASE FindCalculator(req.strategy) = s /\ req.ticker = t /\ SideOf(req) = d
  <2>1. req.strategy = s
    BY <1>2, PoolAssumption DEF FindCalculator, StrategyIds
  <2>2. book'[s][t][d] = new
    BY <1>1, <1>2 DEF PositionBook
  <2> QED
    BY <1>1, <1>2, <2>1, <2>2
<1>3. CASE ~ (FindCalculator(req.strategy) = s /\ req.ticker = t /\ SideOf(req) = d)
  <2>1. book'[s][t][d] = book[s][t][d]
    BY <1>1, <1>3 DEF PositionBook
  <2> QED
    BY <1>1, <2>1
<1> QED
  BY <1>2, <1>3

(* Giving pending volume back, or taking what is available, covers.        *)
LEMMA PendingCovered ==
  ASSUME NoOverClose, book \in PositionBook, NEW req \in Requests, NEW x \in Int,
         book' = UpdatePending(book, req, x),
         x > 0 => PositionAllows(book, req) /\ x = req.volume
  PROVE  NoOverClose'
<1> DEFINE old == book[FindCalculator(req.strategy)][req.ticker][SideOf(req)]
           new == PendingDetail(old, req.offset, x)
<1>1. book' = [book EXCEPT ![FindCalculator(req.strategy)][req.ticker][SideOf(req)] = new]
  BY DEF UpdatePending
<1>2. old \in PositionDetail
  BY RequestType DEF PositionBook
<1>3. ASSUME req.strategy \in Strategies, Covered(book[req.strategy][req.ticker][SideOf(req)])
      PROVE  Covered(new)
  <2>1. old = book[req.strategy][req.ticker][SideOf(req)] /\ Covered(old)
    BY <1>3 DEF FindCalculator
  <2>2. x > 0 /\ IsOffsetClose(req.offset) => old.holdings - old.closePending >= x
    BY <1>3, <2>1 DEF PositionAllows, Available
  <2> HIDE DEF old
  <2>3. old.holdings \in Int /\ old.closePending \in Int /\ old.openPending \in Int
    BY <1>2 DEF PositionDetail
  <2>4. CASE IsOffsetClose(req.offset)
    <3>1. new.closePending = old.closePending + x /\ new.holdings = old.holdings
      BY <1>2, <2>3, <2>4 DEF PendingDetail, PositionDetail
    <3> QED
      BY <2>1, <2>2, <2>3, <2>4, <3>1 DEF Covered
  <2>5. CASE ~ IsOffsetClose(req.offset)
    <3>1. new.closePending = old.closePending /\ new.holdings = old.holdings
      BY <1>2, <2>3, <2>5 DEF PendingDetail, PositionDetail
    <3> QED
      BY <2>1, <3>1 DEF Covered
  <2> QED
    BY <2>4, <2>5
<1> HIDE DEF new, old
<1> QED
  BY <1>1, <1>3, CoveredElsewhere

(* A trade takes as much off the holdings as off what is pending.          *)
LEMMA TradedCovered ==
  ASSUME NoOverClose, book \in PositionBook, NEW req \in Requests, NEW v \in Nat,
         book' = UpdateTraded(book, req, v)
  PROVE  NoOverClose'
<1> DEFINE old == book[FindCalculator(req.strategy)][req.ticker][SideOf(req)]
           new == TradedDetail(old, req.offset, v)
<1>1. book' = [book EXCEPT ![FindCalculator(req.strategy)][req.ticker][SideOf(req)] = new]
  BY DEF UpdateTraded
<1>2. old \in PositionDetail
  BY RequestType DEF PositionBook
<1>3. ASSUME req.strategy \in Strategies, Covered(book[req.strategy][req.ticker][SideOf(req)])
      PROVE  Covered(new)
  <2>1. Covered(old)
    BY <1>3 DEF FindCalculator
  <2> DEFINE left == old.holdings - v
             yd   == AtMost(left, IF req.offset \in {"close", "close_yesterday"}
                                  THEN old.yd - AtMost(old.yd, v) ELSE old.yd)
  <2>2. new = IF IsOffsetClose(req.offset)
              THEN [old EXCEPT !.closePending = @ - v, !.holdings = left, !.yd = yd]
              ELSE [old EXCEPT !.openPending = @ - v, !.holdings = @ + v]
    BY DEF TradedDetail
  <2> HIDE DEF old, yd, new
  <2>3. old.holdings \in Int /\ old.closePending \in Int /\ old.openPending \in Int
    BY <1>2 DEF PositionDetail
  <2>4. CASE IsOffsetClose(req.offset)
    <3>1. new.closePending = old.closePending - v /\ new.holdings = old.holdings - v
      BY <1>2, <2>2, <2>3, <2>4 DEF PositionDetail
    <3> QED
      BY <2>1, <2>3, <3>1 DEF Covered
  <2>5. CASE ~ IsOffsetClose(req.offset)
    <3>1. new.closePending = old.closePending /\ new.holdings = old.holdings + v
      BY <1>2, <2>2, <2>3, <2>5 DEF PositionDetail
    <3> QED
      BY <2>1, <2>3, <3>1 DEF Covered
  <2> QED
    BY <2>4, <2>5
<1> HIDE DEF new, old
<1> QED
  BY <1>1, <1>3, CoveredElsewhere

(* Only orders that open may skip the risk rules.                          *)
ClosesAreChecked ==
  \A req \in Requests : IsOffsetClose(req.offset) => ~ req.withoutCheck

LEMMA NextNoOverClose ==
  ASSUME ClosesAreChecked
  PROVE  TypeOK /\ NoOverClose /\ [Next]_vars => NoOverClose'
<1> SUFFICES ASSUME TypeOK, NoOverClose, [Next]_vars PROVE NoOverClose'
  OBVIOUS
<1>1. book \in PositionBook
  BY DEF TypeOK
<1>2. ASSUME book' = book PROVE NoOverClose'
  BY <1>2 DEF NoOverClose
<1>3. CASE ExecuteCmd
  <2>1. ASSUME NEW req \in Requests, SubmitOrder(req) PROVE NoOverClose'
    <3>1. PositionAllows(book, req)
      BY <2>1 DEF SubmitOrder, RiskError, CheckOrderRequest, PositionAllows, ClosesAreChecked
    <3> QED
      BY <1>1, <2>1, <3>1, PendingCovered, RequestType DEF SubmitOrder
  <2>2. ASSUME NEW req \in Requests, FailToSend(req) PROVE NoOverClose'
    <3>1. 0 - req.volume \in Int /\ ~ (0 - req.volume > 0)
      BY RequestType
    <3> QED
      BY <1>1, <2>2, <3>1, PendingCovered DEF FailToSend
  <2> QED
    BY <1>2, <1>3, <2>1, <2>2
       DEF ExecuteCmd, RefuseOrder, CancelOrder, CancelForTicker, CancelAll, DoCancelOrders
<1>4. CASE ProcessRsp
  <2> DEFINE r == Head(rspRing)
  <2>1. CASE book' # book
    <3>1. OnRejected \/ OnTraded \/ OnCanceled
      BY <1>4, <2>1 DEF ProcessRsp, OnAccepted, OnCancelRejected
    <3>2. r.id \in Live
      BY <2>1, <3>1 DEF OnRejected, OnTraded, OnCanceled
    <3>3. orderMap[r.id].req \in Requests
      BY <3>2 DEF TypeOK, Order
    <3>4. /\ r.kind \in {"traded", "canceled"} => r.volume \in Nat
          /\ orderMap[r.id].req.volume \in Nat
      BY <3>1, <3>3, HeadType, RequestType DEF OnRejected, OnTraded, OnCanceled, TakeRsp
    <3>5. CASE OnRejected
      <4> DEFINE x == 0 - orderMap[r.id].req.volume
      <4>1. x \in Int /\ ~ (x > 0)
        BY <3>4
      <4> QED
        BY <1>1, <3>2, <3>3, <3>5, <4>1, PendingCovered DEF OnRejected
    <3>6. CASE OnTraded
      BY <1>1, <3>2, <3>3, <3>4, <3>6, TradedCovered DEF OnTraded, TakeRsp
    <3>7. CASE OnCanceled
      <4> DEFINE x == 0 - r.volume
      <4>1. x \in Int /\ ~ (x > 0)
        BY <3>4, <3>7 DEF OnCanceled, TakeRsp
      <4> QED
        BY <1>1, <3>2, <3>3, <3>7, <4>1, PendingCovered DEF OnCanceled
    <3> QED
      BY <3>1, <3>5, <3>6, <3>7
  <2> QED
    BY <1>2, <2>1
<1>5. ASSUME NEW id \in DOMAIN exchange, Exchange(id) PROVE NoOverClose'
  BY <1>2, <1>5 DEF Exchange, ExchangeAccept, ExchangeReject, ExchangeExecute, ReportTrade,
     ExchangeCancel, RejectCancel, PushRsp, OmsUnchanged
<1>6. ASSUME NEW a \in BrokerAccounts, OnAccount(a) PROVE NoOverClose'
  BY <1>2, <1>6 DEF OnAccount
<1>7. CASE UNCHANGED vars
  BY <1>2, <1>7 DEF vars
<1> QED
  BY <1>3, <1>4, <1>5, <1>6, <1>7 DEF Next

(* As long as no close order skips the risk rules, the close orders under  *)
(* way never ask for more than their strategy holds, whatever orders that  *)
(* open skip them and whatever sends fail.                                 *)
THEOREM CloseCorrect ==
  ASSUME ClosesAreChecked
  PROVE  Spec => []NoOverClose
<1>1. Init => NoOverClose
  BY OmsAssumption DEF Init, NoOverClose, Pools
<1>2. TypeOK /\ NoOverClose /\ [Next]_vars => NoOverClose'
  BY NextNoOverClose
<1> QED
  BY <1>1, <1>2, TypeCorrect, PTL DEF Spec

-----------------------------------------------------------------------------
(* What the exchange has of an order only shrinks.                         *)

ExchangeShrinks ==
  /\ DOMAIN exchange' = DOMAIN exchange
  /\ \A i \in DOMAIN exchange :
       exchange'[i].req = exchange[i].req /\ exchange'[i].open <= exchange[i].open

(* Only the submission of an order adds to what is at the exchange.        *)
LEMMA NextShrinks ==
  ASSUME TypeOK, FinalReportOnce, [Next]_vars
  PROVE  (\E req \in Requests : SubmitOrder(req)) \/ ExchangeShrinks
<1> SUFFICES ASSUME ~ \E req \in Requests : SubmitOrder(req) PROVE ExchangeShrinks
  OBVIOUS
<1>1. \A i \in DOMAIN exchange : exchange[i].open \in Nat /\ exchange[i].due \in Nat
  BY OrderNumbers
<1>2. ASSUME exchange' = exchange PROVE ExchangeShrinks
  BY <1>1, <1>2 DEF ExchangeShrinks
<1>3. CASE ExecuteCmd
  BY <1>2, <1>3 DEF ExecuteCmd, RefuseOrder, FailToSend, CancelOrder, CancelForTicker,
     CancelAll, DoCancelOrders
<1>4. CASE ProcessRsp
  BY <1>2, <1>4 DEF ProcessRsp, OnAccepted, OnRejected, OnTraded, OnCanceled,
     OnCancelRejected, TakeRsp
<1>5. ASSUME NEW id \in DOMAIN exchange, Exchange(id) PROVE ExchangeShrinks
  <2>1. ASSUME NEW r \in GatewayRsp, Callback(id, r) PROVE ExchangeShrinks
    <3>1. exchange'[id].open <= exchange[id].open /\ exchange'[id].req = exchange[id].req
      BY <1>1, <2>1 DEF Callback
    <3> QED
      BY <1>1, <2>1, <3>1 DEF Callback, ExchangeShrinks
  <2>2. ASSUME NEW v \in Nat \ {0}, ExchangeExecute(id, v) PROVE ExchangeShrinks
    <3>1. /\ exchange'[id].open = exchange[id].open - v /\ exchange'[id].req = exchange[id].req
          /\ DOMAIN exchange' = DOMAIN exchange
          /\ \A i \in DOMAIN exchange : i # id => exchange'[i] = exchange[i]
      BY <2>2 DEF ExchangeExecute, TypeOK, ExchangeOrder
    <3>2. exchange'[id].open <= exchange[id].open
      BY <1>1, <3>1
    <3> QED
      BY <1>1, <3>1, <3>2 DEF ExchangeShrinks
  <2> QED
    BY <1>5, <2>1, <2>2, ExchangeEffect
<1>6. ASSUME NEW a \in BrokerAccounts, OnAccount(a) PROVE ExchangeShrinks
  BY <1>2, <1>6 DEF OnAccount
<1>7. CASE UNCHANGED vars
  BY <1>2, <1>7 DEF vars
<1> QED
  BY <1>3, <1>4, <1>5, <1>6, <1>7 DEF Next

(* A submitted order joins those at the exchange, which stay as they are.  *)
LEMMA SubmitJoins ==
  ASSUME TypeOK, FinalReportOnce, NEW req \in Requests, SubmitOrder(req),
         NEW id, id = nextOrderId
  PROVE  /\ id \notin DOMAIN exchange /\ DOMAIN exchange' = DOMAIN exchange \union {id}
         /\ exchange'[id].req = req
         /\ \A i \in DOMAIN exchange : exchange'[i] = exchange[i]
<1>1. id \notin DOMAIN exchange
  <2>1. id \in OrderIds
    BY TakeType DEF SubmitOrder
  <2> QED
    BY <2>1 DEF FinalReportOnce, ExchangeCounts, OrderIds
<1> QED
  BY <1>1 DEF SubmitOrder

-----------------------------------------------------------------------------
(* PositionRisk: the assertions of the position calculator never fire.     *)

(* The common pool takes no close orders: PositionRisk finds no position   *)
(* of a strategy that is not configured.                                   *)
ClosesAreConfigured ==
  \A i \in DOMAIN exchange :
    IsOffsetClose(exchange[i].req.offset) => exchange[i].req.strategy \in Strategies

CommonHolds ==
  \A t \in Tickers, d \in Directions : book[Common][t][d].holdings >= 0

CommonInv == ClosesAreConfigured /\ CommonHolds

LEMMA NextClosesConfigured ==
  ASSUME ClosesAreChecked, TypeOK, FinalReportOnce, ClosesAreConfigured, [Next]_vars
  PROVE  ClosesAreConfigured'
<1>1. ASSUME NEW req \in Requests, SubmitOrder(req) PROVE ClosesAreConfigured'
  <2>1. IsOffsetClose(req.offset) => req.strategy \in Strategies
    <3>1. SUFFICES ASSUME IsOffsetClose(req.offset), req.strategy \notin Strategies PROVE FALSE
      OBVIOUS
    <3>2. CheckOrderRequest(account, book, Pending, req) = "NoError"
      BY <1>1, <3>1 DEF SubmitOrder, RiskError, ClosesAreChecked
    <3>3. PositionAllows(book, req)
      BY <3>2 DEF CheckOrderRequest
    <3> QED
      BY <3>1, <3>3, RequestType DEF PositionAllows, Available
  <2>2. PICK id : id = nextOrderId
    OBVIOUS
  <2> QED
    BY ZenonT(30), <1>1, <2>1, <2>2, SubmitJoins DEF ClosesAreConfigured
<1>2. CASE ExchangeShrinks
  BY <1>2 DEF ExchangeShrinks, ClosesAreConfigured
<1> QED
  BY <1>1, <1>2, NextShrinks

(* Only trades move holdings, and trades of the common pool open.          *)
LEMMA NextCommonHolds ==
  ASSUME TypeOK, FinalReportOnce, TradeInv, CommonInv, [Next]_vars
  PROVE  CommonHolds'
<1>1. ASSUME SameHoldings(book, book') PROVE CommonHolds'
  BY <1>1 DEF SameHoldings, CommonInv, CommonHolds, Pools
<1>2. ASSUME ~ OnTraded PROVE SameHoldings(book, book')
  BY <1>2, QuietBook
<1>3. CASE OnTraded
  <2>1. PICK id : id = Head(rspRing).id
    OBVIOUS
  <2>2. PICK v : v = Head(rspRing).volume
    OBVIOUS
  <2>3. v \in Nat
    BY <1>3, <2>2, HeadType DEF OnTraded, TakeRsp
  <2>4. CASE id \notin Live
    BY <1>1, <1>3, <2>1, <2>4 DEF OnTraded, SameHoldings
  <2>5. CASE id \in Live
    <3>1. id \in DOMAIN exchange
      BY <2>5, LiveIsKnown
    <3>2. orderMap[id].req = exchange[id].req /\ exchange[id].req \in Requests
      BY <2>5, <3>1, OrderNumbers DEF TradeInv, OrderInv, Accounted
    <3>3. book' = UpdateTraded(book, exchange[id].req, v)
      BY <1>3, <2>1, <2>2, <2>5, <3>2 DEF OnTraded
    <3>4. HoldingsMove(book, book', exchange[id].req, v)
      BY <2>3, <3>2, <3>3, TradedHoldings DEF TypeOK
    <3>5. ASSUME NEW t \in Tickers, NEW d \in Directions
          PROVE  HoldingShare(exchange[id].req, Common, t, d, v) >= 0
      <4>1. CASE OnSide(exchange[id].req, Common, t, d)
        <5>1. exchange[id].req.strategy \notin Strategies
          BY <4>1, PoolAssumption DEF OnSide, FindCalculator, StrategyIds
        <5>2. IsOffsetOpen(exchange[id].req.offset)
          BY <3>1, <3>2, <5>1, OpenOrClose DEF CommonInv, ClosesAreConfigured
        <5> QED
          BY <2>3, <5>2 DEF HoldingShare
      <4>2. CASE ~ OnSide(exchange[id].req, Common, t, d)
        BY <4>2 DEF HoldingShare
      <4> QED
        BY <4>1, <4>2
    <3>6. ASSUME NEW t \in Tickers, NEW d \in Directions
          PROVE  book'[Common][t][d].holdings >= 0
      <4>1. Common \in Pools
        BY DEF Pools
      <4>2. book'[Common][t][d].holdings
              = book[Common][t][d].holdings + HoldingShare(exchange[id].req, Common, t, d, v)
        BY <3>4, <4>1 DEF HoldingsMove
      <4>3. book[Common][t][d].holdings \in Int /\ book[Common][t][d].holdings >= 0
        BY <4>1 DEF TypeOK, PositionBook, PositionDetail, CommonInv, CommonHolds
      <4>4. HoldingShare(exchange[id].req, Common, t, d, v) \in Int
        BY <2>3 DEF HoldingShare
      <4> QED
        BY <3>5, <4>2, <4>3, <4>4
    <3> QED
      BY <3>6 DEF CommonHolds
  <2> QED
    BY <2>4, <2>5
<1> QED
  BY <1>1, <1>2, <1>3

(* With nothing pending below zero, what close orders have pending is      *)
(* covered, so that strategies hold no less than nothing.                  *)
LEMMA AssertsHold ==
  ASSUME TypeOK, FinalReportOnce, TradeInv, PendingAccounted, NoOverClose, CommonInv
  PROVE  PositionAsserts
<1> SUFFICES ASSUME NEW p \in Pools, NEW t \in Tickers, NEW d \in Directions
             PROVE  DetailAsserts(book[p][t][d])
  BY DEF PositionAsserts
<1>1. ASSUME NEW offsets PROVE Outstanding(orderMap, p, t, d, offsets) >= 0
  <2> DEFINE f == [i \in OrderIds |-> Weight(orderMap, i, p, t, d, offsets)]
  <2>1. MaxOrders \in Nat /\ f \in [1 .. MaxOrders -> Int]
    BY OmsAssumption, WeightType DEF OrderIds, TypeOK, IsMap, Live
  <2>2. \A i \in 1 .. MaxOrders : f[i] >= 0
    <3>1. ASSUME NEW i \in Live PROVE Left(orderMap[i]) > 0
      BY LiveIsKnown DEF TradeInv, OrderInv, Accounted
    <3>2. ASSUME NEW i \in OrderIds PROVE Weight(orderMap, i, p, t, d, offsets) >= 0
      <4>1. CASE i \in Live
        <5>1. Left(orderMap[i]) > 0 /\ Left(orderMap[i]) \in Int
          <6>1. i \in DOMAIN exchange
            BY <4>1, LiveIsKnown
          <6> QED
            BY <3>1, <4>1, <6>1, OrderNumbers, RequestType
        <5> QED
          BY <5>1 DEF Weight
      <4>2. CASE i \notin Live
        BY <4>2 DEF Weight, Live
      <4> QED
        BY <4>1, <4>2
    <3> QED
      BY <3>2 DEF OrderIds
  <2> HIDE DEF f
  <2>3. SumTo(f, MaxOrders) \in Nat
    BY <2>1, <2>2, SumToNat
  <2> QED
    BY <2>3 DEF Outstanding, f
<1>2. book[p][t][d].openPending >= 0 /\ book[p][t][d].closePending >= 0
  BY <1>1 DEF PendingAccounted
<1>3. book[p][t][d] \in PositionDetail
  BY DEF TypeOK, PositionBook
<1>4. CASE p \in Strategies
  <2>1. book[p][t][d].closePending <= book[p][t][d].holdings
    BY <1>4 DEF NoOverClose
  <2> QED
    BY <1>2, <1>3, <2>1 DEF DetailAsserts, PositionDetail
<1>5. CASE p = Common
  BY <1>2, <1>5 DEF DetailAsserts, CommonInv, CommonHolds
<1> QED
  BY <1>4, <1>5 DEF Pools

(* When every send succeeds and no close order skips the risk rules, the   *)
(* assertions of UpdatePending and UpdateTraded never fire.                *)
THEOREM PositionCorrect ==
  ASSUME ~ SendMayFail, ClosesAreChecked
  PROVE  Spec => []PositionAsserts
<1>1. Init => CommonInv
  BY OmsAssumption DEF Init, CommonInv, ClosesAreConfigured, CommonHolds, Pools
<1>2. TypeOK /\ FinalReportOnce /\ TradeInv /\ CommonInv /\ [Next]_vars => CommonInv'
  BY NextClosesConfigured, NextCommonHolds DEF CommonInv
<1>3. TypeOK /\ FinalReportOnce /\ TradeInv /\ PendingAccounted /\ NoOverClose /\ CommonInv
        => PositionAsserts
  BY AssertsHold
<1>4. Spec => []TypeOK /\ []FinalReportOnce /\ []TradeInv
  BY TypeCorrect, FinalReportCorrect, TradesAccounted, PTL
<1>5. Spec => []PendingAccounted /\ []NoOverClose
  BY PendingCorrect, CloseCorrect, PTL
<1> QED
  BY <1>1, <1>2, <1>3, <1>4, <1>5, PTL DEF Spec

-----------------------------------------------------------------------------
(* SelfTradeRisk: no two open orders can trade with each other.            *)

(* A buy order b and a sell order a that would meet at the exchange.       *)
Meet(b, a) ==
  /\ b.ticker = a.ticker /\ b.direction = "buy" /\ a.direction = "sell"
  /\ b.type = "market" \/ a.type = "market" \/ b.price >= a.price

(* SelfTradeRisk does not see an order past the risk rules, and does not   *)
(* look at the type of the order it checks: such requests meet no other.   *)
UnseenMeetNothing ==
  \A req \in Requests, p \in Requests :
    req.withoutCheck \/ req.type = "market" => ~ Meet(req, p) /\ ~ Meet(p, req)

(* A checked request meets no order it was checked against.                *)
LEMMA CheckedMeetsNothing ==
  ASSUME NEW req \in Requests, NEW p \in Requests, req.type # "market", ~ WouldSelfTrade(req, p)
  PROVE  ~ Meet(req, p) /\ ~ Meet(p, req)
<1>1. req.price \in Nat /\ p.price \in Nat
  BY RequestType
<1> QED
  BY <1>1 DEF Meet, WouldSelfTrade, OppositeDirection

LEMMA SubmitSelfTrade ==
  ASSUME UnseenMeetNothing, TypeOK, FinalReportOnce, TradeInv, NoSelfTrade,
         NEW req \in Requests, SubmitOrder(req)
  PROVE  NoSelfTrade'
<1>1. PICK id : id = nextOrderId
  OBVIOUS
<1>2. /\ id \notin DOMAIN exchange /\ DOMAIN exchange' = DOMAIN exchange \union {id}
      /\ exchange'[id].req = req
      /\ \A i \in DOMAIN exchange : exchange'[i] = exchange[i]
  BY <1>1, SubmitJoins
<1>3. ASSUME NEW i \in DOMAIN exchange, exchange[i].open > 0
      PROVE  ~ Meet(req, exchange[i].req) /\ ~ Meet(exchange[i].req, req)
  <2>1. i \in Live /\ orderMap[i].req = exchange[i].req /\ exchange[i].req \in Requests
    BY <1>3, OpenIsLive, OrderNumbers DEF TradeInv, OrderInv, Accounted
  <2>2. exchange[i].req \in Pending
    BY <2>1 DEF Pending
  <2>3. CASE req.withoutCheck \/ req.type = "market"
    BY <2>1, <2>3 DEF UnseenMeetNothing
  <2>4. CASE ~ req.withoutCheck /\ req.type # "market"
    <3>1. CheckOrderRequest(account, book, Pending, req) = "NoError"
      BY <2>4 DEF SubmitOrder, RiskError
    <3>2. ~ WouldSelfTrade(req, exchange[i].req)
      BY <2>2, <3>1 DEF CheckOrderRequest
    <3> QED
      BY <2>1, <2>4, <3>2, CheckedMeetsNothing
  <2> QED
    BY <2>3, <2>4
<1>4. ASSUME NEW i \in DOMAIN exchange', NEW j \in DOMAIN exchange',
             exchange'[i].open > 0, exchange'[j].open > 0
      PROVE  ~ Meet(exchange'[i].req, exchange'[j].req)
  <2>1. CASE i = id /\ j = id
    BY <1>2, <2>1 DEF Meet
  <2>2. CASE i = id /\ j # id
    BY <1>2, <1>3, <1>4, <2>2
  <2>3. CASE i # id /\ j = id
    BY <1>2, <1>3, <1>4, <2>3
  <2>4. CASE i # id /\ j # id
    <3>1. i \in DOMAIN exchange /\ j \in DOMAIN exchange
      BY <1>2, <2>4
    <3>2. exchange[i].req.price \in Nat /\ exchange[j].req.price \in Nat
      BY <3>1, OrderNumbers, RequestType
    <3> QED
      BY <1>2, <1>4, <3>1, <3>2 DEF NoSelfTrade, Meet
  <2> QED
    BY <2>1, <2>2, <2>3, <2>4
<1>5. ASSUME NEW i \in DOMAIN exchange'
      PROVE  exchange'[i].req.price \in Nat
  <2>1. i = id \/ (i \in DOMAIN exchange /\ exchange'[i] = exchange[i])
    BY <1>2
  <2> QED
    BY <1>2, <2>1, OrderNumbers, RequestType
<1> QED
  BY <1>4, <1>5 DEF NoSelfTrade, Meet

(* Whatever is under way, no two orders open at the exchange can trade     *)
(* with each other: the rule looks at every order of the map, and an order *)
(* open at the exchange is still in the map.                               *)
THEOREM SelfTradeCorrect ==
  ASSUME UnseenMeetNothing
  PROVE  Spec => []NoSelfTrade
<1>1. Init => NoSelfTrade
  BY DEF Init, NoSelfTrade
<1>2. ASSUME TypeOK, FinalReportOnce, TradeInv, NoSelfTrade, [Next]_vars
      PROVE  NoSelfTrade'
  <2>1. CASE ExchangeShrinks
    <3>1. \A i \in DOMAIN exchange : exchange[i].open \in Nat /\ exchange'[i].open \in Int
                                    /\ exchange'[i].open <= exchange[i].open
      <4>1. TypeOK'
        BY <1>2, NextType
      <4>2. \A i \in DOMAIN exchange : exchange'[i] \in ExchangeOrder
        BY <2>1, <4>1 DEF TypeOK, ExchangeShrinks
      <4> QED
        BY <1>2, <2>1, <4>2, OrderNumbers DEF ExchangeShrinks, ExchangeOrder
    <3>2. \A i \in DOMAIN exchange : exchange'[i].open > 0 => exchange[i].open > 0
      BY <3>1
    <3> QED
      BY <1>2, <2>1, <3>2 DEF ExchangeShrinks, NoSelfTrade
  <2> QED
    BY <1>2, <2>1, NextShrinks, SubmitSelfTrade
<1> QED
  BY <1>1, <1>2, TypeCorrect, FinalReportCorrect, TradesAccounted, PTL DEF Spec

-----------------------------------------------------------------------------
(* What a queue of responses says of an order when one more is appended.   *)

LEMMA RspType ==
  ASSUME NEW r \in OrderResponse
  PROVE  /\ r.thisTraded \in Nat /\ r.traded \in Int
         /\ r.original \in Nat /\ r.id \in OrderIds
BY DEF OrderResponse

LEMMA RspQueueType ==
  ASSUME NEW q \in Seq(OrderResponse)
  PROVE  Len(q) \in Nat /\ \A k \in 1 .. Len(q) : q[k] \in OrderResponse
BY LenProperties

(* The terms of what was told.                                             *)
ToldTerm(q, id, k) == IF q[k].id = id THEN q[k].thisTraded ELSE 0

LEMMA ToldTerms ==
  ASSUME NEW q \in Seq(OrderResponse), NEW id, NEW n \in 0 .. Len(q)
  PROVE  /\ n \in Nat
         /\ Told(q, id, n) = SumTo([k \in 1 .. n |-> ToldTerm(q, id, k)], n)
         /\ [k \in 1 .. n |-> ToldTerm(q, id, k)] \in [1 .. n -> Int]
         /\ \A k \in 1 .. n : ToldTerm(q, id, k) >= 0
<1>1. Len(q) \in Nat /\ \A k \in 1 .. Len(q) : q[k].thisTraded \in Nat
  BY RspType, RspQueueType
<1>2. n \in Nat /\ \A k \in 1 .. n : k \in 1 .. Len(q)
  BY <1>1
<1>3. \A k \in 1 .. n : ToldTerm(q, id, k) \in Nat
  BY <1>1, <1>2 DEF ToldTerm
<1> QED
  BY <1>2, <1>3 DEF Told, ToldTerm

LEMMA ToldType ==
  ASSUME NEW q \in Seq(OrderResponse), NEW id, NEW n \in 0 .. Len(q)
  PROVE  Told(q, id, n) \in Nat
<1> DEFINE f == [k \in 1 .. n |-> ToldTerm(q, id, k)]
<1>1. n \in Nat /\ Told(q, id, n) = SumTo(f, n) /\ f \in [1 .. n -> Int]
      /\ \A k \in 1 .. n : f[k] >= 0
  BY ToldTerms
<1> HIDE DEF f
<1> QED
  BY <1>1, SumToNat

(* Nothing is said of an order no response is about.                       *)
LEMMA ToldNothing ==
  ASSUME NEW q \in Seq(OrderResponse), NEW id, About(q, id) = {}
  PROVE  Told(q, id, Len(q)) = 0
<1> DEFINE f == [k \in 1 .. Len(q) |-> ToldTerm(q, id, k)]
<1>1. Len(q) \in 0 .. Len(q)
  BY RspQueueType
<1>2. Len(q) \in Nat /\ Told(q, id, Len(q)) = SumTo(f, Len(q)) /\ f \in [1 .. Len(q) -> Int]
  BY <1>1, ToldTerms
<1>3. \A k \in 1 .. Len(q) : f[k] = 0
  BY DEF About, ToldTerm
<1> HIDE DEF f
<1> QED
  BY <1>2, <1>3, SumToZero

(* Queue p is q with one more response r.                                  *)
LEMMA AppendResponse ==
  ASSUME NEW q \in Seq(OrderResponse), NEW r \in OrderResponse, NEW id
  PROVE  LET p == Append(q, r)
             n == Len(q) + 1
         IN  /\ p \in Seq(OrderResponse) /\ Len(p) = n /\ p[n] = r
             /\ Len(q) \in Nat
             /\ \A k \in 1 .. Len(q) : p[k] = q[k]
             /\ About(p, id) = IF r.id = id THEN About(q, id) \union {n} ELSE About(q, id)
             /\ \A k \in 0 .. Len(q) : Told(p, id, k) = Told(q, id, k)
             /\ Told(p, id, n) = Told(q, id, Len(q)) + IF r.id = id THEN r.thisTraded ELSE 0
<1> DEFINE p == Append(q, r)
           n == Len(q) + 1
<1>1. /\ p \in Seq(OrderResponse) /\ Len(p) = n /\ p[n] = r
      /\ Len(q) \in Nat /\ \A k \in 1 .. Len(q) : p[k] = q[k]
  BY AppendProperties, LenProperties
<1> HIDE DEF p
<1>2. About(p, id) = IF r.id = id THEN About(q, id) \union {n} ELSE About(q, id)
  <2>1. \A k : k \in 1 .. Len(p) <=> k \in 1 .. Len(q) \/ k = n
    BY <1>1
  <2>2. \A k \in 1 .. Len(q) : k # n
    BY <1>1
  <2> HIDE DEF n
  <2> QED
    BY <1>1, <2>1, <2>2 DEF About
<1>3. ASSUME NEW k \in 0 .. Len(q) PROVE Told(p, id, k) = Told(q, id, k)
  <2>1. \A j \in 1 .. k : p[j] = q[j]
    BY <1>1
  <2>2. [j \in 1 .. k |-> IF p[j].id = id THEN p[j].thisTraded ELSE 0]
          = [j \in 1 .. k |-> IF q[j].id = id THEN q[j].thisTraded ELSE 0]
    BY <2>1
  <2> QED
    BY <2>2 DEF Told
<1>4. Told(p, id, n) = Told(q, id, Len(q)) + IF r.id = id THEN r.thisTraded ELSE 0
  <2> DEFINE f == [k \in 1 .. Len(q) |-> ToldTerm(q, id, k)]
             g == [k \in 1 .. n |-> ToldTerm(p, id, k)]
  <2>1. Len(q) \in 0 .. Len(q) /\ n \in 0 .. Len(p)
    BY <1>1
  <2>2. Told(q, id, Len(q)) = SumTo(f, Len(q)) /\ f \in [1 .. Len(q) -> Int]
    BY <2>1, ToldTerms
  <2>3. Told(p, id, n) = SumTo(g, n) /\ g \in [1 .. n -> Int]
    BY <1>1, <2>1, ToldTerms
  <2>4. \A k \in 1 .. Len(q) : g[k] = f[k]
    BY <1>1 DEF ToldTerm
  <2>5. g[n] = IF r.id = id THEN r.thisTraded ELSE 0
    BY <1>1 DEF ToldTerm
  <2> HIDE DEF f, g
  <2>6. SumTo(g, Len(q) + 1) = SumTo(f, Len(q)) + g[Len(q) + 1]
    BY <1>1, <2>2, <2>3, <2>4, SumToExtend
  <2> QED
    BY <2>2, <2>3, <2>5, <2>6
<1> QED
  BY <1>1, <1>2, <1>3, <1>4 DEF p

(* Queues q and p say the same of an order.                                *)
SaysTheSame(q, p, id) ==
  /\ About(p, id) = About(q, id)
  /\ \A k \in About(q, id) : p[k] = q[k] /\ Told(p, id, k) = Told(q, id, k)
  /\ Told(p, id, Len(p)) = Told(q, id, Len(q))

LEMMA SameItself ==
  ASSUME NEW q, NEW id
  PROVE  SaysTheSame(q, q, id)
BY DEF SaysTheSame

LEMMA SameAppend ==
  ASSUME NEW q \in Seq(OrderResponse), NEW r \in OrderResponse, NEW id, r.id # id
  PROVE  SaysTheSame(q, Append(q, r), id)
<1> DEFINE p == Append(q, r)
<1>1. /\ Len(p) = Len(q) + 1 /\ Len(q) \in Nat
      /\ \A k \in 1 .. Len(q) : p[k] = q[k]
      /\ About(p, id) = About(q, id)
      /\ \A k \in 0 .. Len(q) : Told(p, id, k) = Told(q, id, k)
      /\ Told(p, id, Len(q) + 1) = Told(q, id, Len(q)) + IF r.id = id THEN r.thisTraded ELSE 0
  BY AppendResponse
<1>2. Told(q, id, Len(q)) \in Nat
  <2>1. Len(q) \in 0 .. Len(q)
    BY <1>1
  <2> QED
    BY <2>1, ToldType
<1> HIDE DEF p
<1>3. Told(p, id, Len(p)) = Told(q, id, Len(q))
  BY <1>1, <1>2
<1>4. ASSUME NEW k \in About(q, id) PROVE p[k] = q[k] /\ Told(p, id, k) = Told(q, id, k)
  <2>1. k \in 1 .. Len(q) /\ k \in 0 .. Len(q)
    BY <1>1 DEF About
  <2> QED
    BY <1>1, <2>1
<1> QED
  BY <1>1, <1>3, <1>4 DEF SaysTheSame, p

(* Then they are as good.                                                  *)
LEMMA SameSound ==
  ASSUME NEW q, NEW p, NEW id, SaysTheSame(q, p, id)
  PROVE  /\ View(p, id) = View(q, id)
         /\ TotalsAddUp(q, id) => TotalsAddUp(p, id)
         /\ \A over \in BOOLEAN : CompletedIsLast(q, id, over) => CompletedIsLast(p, id, over)
<1>1. /\ About(p, id) = About(q, id)
      /\ \A k \in About(q, id) : p[k] = q[k] /\ Told(p, id, k) = Told(q, id, k)
      /\ Told(p, id, Len(p)) = Told(q, id, Len(q))
  BY DEF SaysTheSame
<1>2. {k \in About(p, id) : p[k].completed} = {k \in About(q, id) : q[k].completed}
  BY <1>1
<1>3. (\E k \in About(p, id) : p[k].error # "NoError") = (\E k \in About(q, id) : q[k].error # "NoError")
  BY <1>1
<1>4. View(p, id) = View(q, id)
  BY <1>1, <1>2, <1>3 DEF View
<1>5. TotalsAddUp(q, id) => TotalsAddUp(p, id)
  BY <1>1 DEF TotalsAddUp
<1>6. \A over \in BOOLEAN : CompletedIsLast(q, id, over) => CompletedIsLast(p, id, over)
  BY <1>1 DEF CompletedIsLast
<1> QED
  BY <1>4, <1>5, <1>6

-----------------------------------------------------------------------------
(* An order that is not over.                                              *)

(* The responses in q leave the order open, with n lots filled.            *)
Growing(q, id, n) ==
  /\ \A k \in About(q, id) : ~ q[k].completed /\ q[k].error = "NoError"
  /\ Told(q, id, Len(q)) = n
  /\ TotalsAddUp(q, id)

LEMMA GrowingStarts ==
  ASSUME NEW q \in Seq(OrderResponse), NEW id, About(q, id) = {}
  PROVE  Growing(q, id, 0)
BY ToldNothing DEF Growing, TotalsAddUp

LEMMA GrowingSame ==
  ASSUME NEW q, NEW p, NEW id, NEW n, SaysTheSame(q, p, id), Growing(q, id, n)
  PROVE  Growing(p, id, n)
BY SameSound DEF Growing, SaysTheSame

(* What it means for the view, and that none is completed.                 *)
LEMMA GrowingView ==
  ASSUME NEW q, NEW id, NEW n, Growing(q, id, n)
  PROVE  /\ About(q, id) # {} => View(q, id) = Reports!Working(n)
         /\ About(q, id) = {} /\ n = 0 => View(q, id) = Reports!Silent
         /\ CompletedIsLast(q, id, FALSE)
<1>1. {k \in About(q, id) : q[k].completed} = {}
  BY DEF Growing
<1>2. Cardinality({}) = 0
  BY FS_EmptySet
<1>3. (\E k \in About(q, id) : q[k].error # "NoError") = FALSE
  BY DEF Growing
<1>4. Told(q, id, Len(q)) = n
  BY DEF Growing
<1>5. CompletedIsLast(q, id, FALSE)
  BY DEF Growing, CompletedIsLast
<1> QED
  BY <1>1, <1>2, <1>3, <1>4, <1>5 DEF View, Reports!Silent, Reports!Working

(* A response continues the ones in q with n lots filled.                  *)
Continues(q, r, n) ==
  /\ r.traded = n + r.thisTraded
  /\ r.traded <= r.original
  /\ r.thisTraded > 0 => About(q, r.id) # {}

LEMMA AddUpAppend ==
  ASSUME NEW q \in Seq(OrderResponse), NEW r \in OrderResponse,
         NEW n \in Int, Growing(q, r.id, n), Continues(q, r, n)
  PROVE  /\ TotalsAddUp(Append(q, r), r.id)
         /\ Told(Append(q, r), r.id, Len(Append(q, r))) = n + r.thisTraded
<1>1. PICK id : id = r.id
  OBVIOUS
<1> DEFINE p == Append(q, r)
           m == Len(q) + 1
<1>2. /\ Len(p) = m /\ Len(q) \in Nat /\ p[m] = r
      /\ \A k \in 1 .. Len(q) : p[k] = q[k]
      /\ About(p, id) = About(q, id) \union {m}
      /\ \A k \in 0 .. Len(q) : Told(p, id, k) = Told(q, id, k)
      /\ Told(p, id, m) = Told(q, id, Len(q)) + r.thisTraded
  BY <1>1, AppendResponse
<1>3. /\ Told(q, id, Len(q)) = n /\ TotalsAddUp(q, id)
      /\ r.traded = n + r.thisTraded /\ r.traded <= r.original
      /\ r.thisTraded > 0 => About(q, id) # {}
  BY <1>1 DEF Growing, Continues
<1>4. \A k \in About(q, id) : k \in 1 .. Len(q) /\ k \in 0 .. Len(q) /\ k < m
  BY <1>2 DEF About
<1> HIDE DEF p, m
<1>5. ASSUME NEW k \in About(q, id)
      PROVE  /\ p[k].traded = Told(p, id, k)
             /\ p[k].traded <= p[k].original
             /\ p[k].thisTraded > 0 => \E j \in About(p, id) : j < k
  <2>1. p[k] = q[k] /\ Told(p, id, k) = Told(q, id, k)
    BY <1>2, <1>4
  <2>2. /\ q[k].traded = Told(q, id, k)
        /\ q[k].traded <= q[k].original
        /\ q[k].thisTraded > 0 => \E j \in About(q, id) : j < k
    BY <1>3 DEF TotalsAddUp
  <2> QED
    BY <1>2, <2>1, <2>2
<1>6. /\ p[m].traded = Told(p, id, m)
      /\ p[m].traded <= p[m].original
      /\ p[m].thisTraded > 0 => \E j \in About(p, id) : j < m
  BY <1>2, <1>3, <1>4
<1>7. TotalsAddUp(p, id)
  BY <1>2, <1>5, <1>6 DEF TotalsAddUp
<1> QED
  BY <1>1, <1>2, <1>3, <1>7 DEF p

(* One more response that leaves the order open.                           *)
LEMMA GrowingAppend ==
  ASSUME NEW q \in Seq(OrderResponse), NEW r \in OrderResponse,
         NEW n \in Int, Growing(q, r.id, n), Continues(q, r, n),
         ~ r.completed, r.error = "NoError"
  PROVE  Growing(Append(q, r), r.id, n + r.thisTraded) /\ About(Append(q, r), r.id) # {}
<1>1. PICK id : id = r.id
  OBVIOUS
<1> DEFINE p == Append(q, r)
<1>2. /\ p[Len(q) + 1] = r
      /\ \A k \in 1 .. Len(q) : p[k] = q[k]
      /\ About(p, id) = About(q, id) \union {Len(q) + 1}
  BY <1>1, AppendResponse
<1>3. TotalsAddUp(p, id) /\ Told(p, id, Len(p)) = n + r.thisTraded
  BY <1>1, AddUpAppend
<1> HIDE DEF p
<1>4. \A k \in About(q, id) : k \in 1 .. Len(q)
  BY DEF About
<1>5. \A k \in About(p, id) : ~ p[k].completed /\ p[k].error = "NoError"
  BY <1>1, <1>2, <1>4 DEF Growing
<1> QED
  BY <1>1, <1>2, <1>3, <1>5 DEF Growing, p

(* The response that completes the order.                                  *)
LEMMA CompletedAppend ==
  ASSUME NEW q \in Seq(OrderResponse), NEW r \in OrderResponse,
         NEW n \in Int, Growing(q, r.id, n), Continues(q, r, n), r.completed
  PROVE  LET p == Append(q, r)
         IN  /\ TotalsAddUp(p, r.id) /\ CompletedIsLast(p, r.id, TRUE)
             /\ About(p, r.id) # {}
             /\ r.error # "NoError" => View(p, r.id) = Reports!Done(n + r.thisTraded, TRUE)
             /\ r.error = "NoError" => View(p, r.id) = Reports!Done(n + r.thisTraded, FALSE)
<1>1. PICK id : id = r.id
  OBVIOUS
<1> DEFINE p == Append(q, r)
           m == Len(q) + 1
<1>2. /\ p[m] = r /\ Len(q) \in Nat
      /\ \A k \in 1 .. Len(q) : p[k] = q[k]
      /\ About(p, id) = About(q, id) \union {m}
  BY <1>1, AppendResponse
<1>3. TotalsAddUp(p, id) /\ Told(p, id, Len(p)) = n + r.thisTraded
  BY <1>1, AddUpAppend
<1>4. \A k \in About(q, id) : k \in 1 .. Len(q) /\ k <= m /\ k # m /\ ~ (m <= k)
  BY <1>2 DEF About
<1> HIDE DEF p, m
<1>5. \A k \in About(q, id) : ~ p[k].completed /\ p[k].error = "NoError"
  BY <1>1, <1>2, <1>4 DEF Growing
<1>6. {k \in About(p, id) : p[k].completed} = {m}
  BY <1>2, <1>5
<1>7. Cardinality({m}) = 1
  BY FS_Singleton
<1>8. (\E k \in About(p, id) : p[k].error # "NoError") = (r.error # "NoError")
  BY <1>2, <1>5
<1>9. ASSUME NEW f \in BOOLEAN, f = (r.error # "NoError")
      PROVE  View(p, id) = Reports!Done(n + r.thisTraded, f)
  <2>1. About(p, id) # {} /\ {k \in About(p, id) : p[k].completed} # {}
    BY <1>2, <1>6
  <2> QED
    BY <1>3, <1>6, <1>7, <1>8, <1>9, <2>1 DEF View, Reports!Done
<1>10. CompletedIsLast(p, id, TRUE)
  <2>1. m <= m /\ m \in About(p, id)
    BY <1>2 DEF m
  <2>2. \A k \in About(p, id) : p[k].completed <=> k = m
    BY <1>2, <1>5
  <2>3. \A k \in About(p, id) : k # m => ~ \A j \in About(p, id) : j <= k
    BY <1>2, <1>4, <2>1
  <2>4. \A j \in About(p, id) : j <= m
    BY <1>2, <1>4, <2>1
  <2> QED
    BY <2>2, <2>3, <2>4 DEF CompletedIsLast
<1> QED
  BY <1>1, <1>2, <1>3, <1>9, <1>10 DEF p

-----------------------------------------------------------------------------
(* What the strategies were told.                                          *)

(* The responses about an order tell one strategy and add up; a live order *)
(* is told of in its own queue, none of its responses is completed, and    *)
(* they add up to what the order map says was traded.  An accepted order   *)
(* has been told of.                                                       *)
Heard(i) ==
  /\ OneHears(i)
  /\ \A s \in Strategies : TotalsAddUp(rspMq[s], i)
  /\ i >= nextOrderId => Hearers(i) = {}
  /\ i < nextOrderId /\ i \notin Live =>
       \A s \in Strategies : CompletedIsLast(rspMq[s], i, TRUE)
  /\ i \in Live =>
       LET mq == orderMap[i].req.mq
       IN  /\ Hearers(i) \subseteq {mq}
           /\ Growing(rspMq[mq], i, orderMap[i].traded)
           /\ orderMap[i].accepted => About(rspMq[mq], i) # {}

HeardInv == \A i \in OrderIds : Heard(i)

LEMMA HeardAddsUp == TypeOK /\ HeardInv => ReportsAddUp
<1> SUFFICES ASSUME TypeOK, HeardInv, NEW i \in OrderIds, NEW s \in Strategies
             PROVE  CompletedIsLast(rspMq[s], i, i < nextOrderId /\ i \notin Live)
  BY DEF HeardInv, Heard, ReportsAddUp
<1>1. Heard(i) /\ i \in Int /\ nextOrderId \in Int
  BY DEF HeardInv, OrderIds, TypeOK
<1>2. ASSUME About(rspMq[s], i) = {}
      PROVE  CompletedIsLast(rspMq[s], i, i < nextOrderId /\ i \notin Live)
  BY <1>2 DEF CompletedIsLast
<1>3. CASE i >= nextOrderId
  BY <1>1, <1>2, <1>3 DEF Heard, Hearers
<1>4. CASE i < nextOrderId /\ i \notin Live
  <2>1. CompletedIsLast(rspMq[s], i, TRUE)
    BY <1>1, <1>4 DEF Heard
  <2> QED
    BY <1>4, <2>1 DEF CompletedIsLast
<1>5. CASE i \in Live
  <2>1. CASE s = orderMap[i].req.mq
    <3>1. CompletedIsLast(rspMq[s], i, FALSE)
      BY <1>1, <1>5, <2>1, GrowingView DEF Heard
    <3> QED
      BY <1>5, <3>1 DEF CompletedIsLast
  <2>2. CASE s # orderMap[i].req.mq
    BY <1>1, <1>2, <1>5, <2>2 DEF Heard, Hearers
  <2> QED
    BY <2>1, <2>2
<1> QED
  BY <1>1, <1>3, <1>4, <1>5

Views == [i \in OrderIds |-> ViewOf(i)]

(* A step that tells nothing new of an order and leaves it as it was.      *)
LEMMA OtherHeard ==
  ASSUME NEW i \in OrderIds, Heard(i),
         i \in Live' <=> i \in Live, i < nextOrderId' <=> i < nextOrderId,
         i >= nextOrderId' <=> i >= nextOrderId,
         i \in Live => orderMap'[i] = orderMap[i] /\ orderMap[i].req.mq \in Strategies,
         \A s \in Strategies : SaysTheSame(rspMq[s], rspMq'[s], i)
  PROVE  Heard(i)' /\ ViewOf(i)' = ViewOf(i)
<1>1. \A s \in Strategies : About(rspMq'[s], i) = About(rspMq[s], i)
  BY DEF SaysTheSame
<1>2. Hearers(i)' = Hearers(i)
  BY <1>1 DEF Hearers
<1>3. \A s \in Strategies :
        /\ View(rspMq'[s], i) = View(rspMq[s], i)
        /\ TotalsAddUp(rspMq[s], i) => TotalsAddUp(rspMq'[s], i)
        /\ CompletedIsLast(rspMq[s], i, TRUE) => CompletedIsLast(rspMq'[s], i, TRUE)
        /\ \A n : Growing(rspMq[s], i, n) => Growing(rspMq'[s], i, n)
  BY SameSound, GrowingSame
<1>4. ViewOf(i)' = ViewOf(i)
  BY <1>2, <1>3 DEF ViewOf, Hearers
<1>5. OneHears(i)'
  BY <1>2 DEF Heard, OneHears
<1>6. i \in Live' =>
        /\ Hearers(i)' \subseteq {orderMap'[i].req.mq}
        /\ Growing(rspMq'[orderMap'[i].req.mq], i, orderMap'[i].traded)
        /\ orderMap'[i].accepted => About(rspMq'[orderMap'[i].req.mq], i) # {}
  BY <1>1, <1>2, <1>3 DEF Heard
<1>7. \A s \in Strategies : TotalsAddUp(rspMq'[s], i)
  BY <1>3 DEF Heard
<1>8. i < nextOrderId' /\ i \notin Live' =>
        \A s \in Strategies : CompletedIsLast(rspMq'[s], i, TRUE)
  BY <1>3 DEF Heard
<1>9. i >= nextOrderId' => Hearers(i)' = {}
  BY <1>2 DEF Heard
<1> QED
  BY <1>4, <1>5, <1>6, <1>7, <1>8, <1>9 DEF Heard

(* When at most one strategy was told of an order, the view is what its    *)
(* queue says.                                                             *)
LEMMA HearerView ==
  ASSUME NEW mq \in [Strategies -> Seq(OrderResponse)], NEW id, NEW s \in Strategies,
         NEW H, H = {r \in Strategies : About(mq[r], id) # {}}, H \subseteq {s}
  PROVE  View(IF H = {} THEN <<>> ELSE mq[CHOOSE r \in H : TRUE], id) = View(mq[s], id)
<1>1. CASE H = {}
  <2>1. About(mq[s], id) = {} /\ mq[s] \in Seq(OrderResponse)
    BY <1>1
  <2>2. <<>> \in Seq(OrderResponse) /\ About(<<>>, id) = {}
    BY DEF About
  <2>3. Growing(mq[s], id, 0) /\ Growing(<<>>, id, 0)
    BY <2>1, <2>2, GrowingStarts
  <2>4. View(mq[s], id) = View(<<>>, id)
    BY <2>1, <2>2, <2>3, GrowingView
  <2> QED
    BY <1>1, <2>4
<1>2. CASE H # {}
  <2>1. H = {s}
    BY <1>2
  <2>2. (CHOOSE r \in H : TRUE) = s
    BY <2>1
  <2> QED
    BY <2>1, <2>2
<1> QED
  BY <1>1, <1>2

(* So it is in the queues of the system.                                  *)
LEMMA SoleHearer ==
  ASSUME rspMq \in [Strategies -> Seq(OrderResponse)], NEW id, NEW s \in Strategies,
         Hearers(id) \subseteq {s}
  PROVE  ViewOf(id) = View(rspMq[s], id)
<1>1. PICK H : H = Hearers(id)
  OBVIOUS
<1>2. H = {t \in Strategies : About(rspMq[t], id) # {}} /\ H \subseteq {s}
  BY <1>1 DEF Hearers
<1>3. View(IF H = {} THEN <<>> ELSE rspMq[CHOOSE t \in H : TRUE], id) = View(rspMq[s], id)
  BY ZenonT(30), <1>2, HearerView
<1> QED
  BY <1>1, <1>3 DEF ViewOf

(* Saying the same is transitive.                                         *)
LEMMA SameTrans ==
  ASSUME NEW q, NEW p, NEW w, NEW id, SaysTheSame(q, p, id), SaysTheSame(p, w, id)
  PROVE  SaysTheSame(q, w, id)
BY DEF SaysTheSame

(* Only what is said of order id changes.                                  *)
LEMMA ViewBecomes ==
  ASSUME NEW id \in OrderIds, NEW v, ViewOf(id)' = v,
         \A i \in OrderIds : i # id => ViewOf(i)' = ViewOf(i)
  PROVE  Reports!Become(id, v)
<1>1. Views' = [Views EXCEPT ![id] = v] /\ Views'[id] = v
  BY DEF Views
<1> QED
  BY <1>1 DEF Reports!Become, Views

(* What the abstract specification allows to be said of an open order.     *)
LEMMA MaySay ==
  ASSUME NEW id \in OrderIds, \A i \in OrderIds : i # id => ViewOf(i)' = ViewOf(i),
         NEW n \in Nat, NEW k \in Nat, n + k <= MaxVolume,
         \/ ViewOf(id) = Reports!Silent /\ n = 0
         \/ ViewOf(id) = Reports!Working(n),
         \/ ViewOf(id)' = Reports!Working(n + k)
         \/ ViewOf(id)' = Reports!Done(n + k, FALSE)
         \/ n = 0 /\ k = 0 /\ ViewOf(id)' = Reports!Done(0, TRUE)
  PROVE  Reports!Next \/ UNCHANGED Views
<1>1. /\ Views[id].phase # "done" /\ Views[id].filled = n
      /\ ViewOf(id) = Reports!Silent => Views[id].phase = "silent"
  BY DEF Views, Reports!Silent, Reports!Working
<1>2. CASE k = 0 /\ ViewOf(id)' = Reports!Working(n + k) /\ ViewOf(id) = Reports!Working(n)
  BY <1>2 DEF Views
<1>3. CASE k = 0 /\ ViewOf(id)' = Reports!Working(n + k) /\ ViewOf(id) = Reports!Silent /\ n = 0
  <2>1. Reports!Accept(id)
    BY <1>1, <1>3, ViewBecomes DEF Reports!Accept, Views
  <2> QED
    BY <1>1, <2>1 DEF Reports!Next, Views
<1>4. CASE k > 0 /\ (ViewOf(id)' = Reports!Working(n + k) \/ ViewOf(id)' = Reports!Done(n + k, FALSE))
  <2>1. k \in 1 .. MaxVolume - n
    BY <1>4, MaxVolumeAssumption
  <2>2. Reports!Fill(id, k)
    BY <1>1, <1>4, ViewBecomes DEF Reports!Fill, Views
  <2> QED
    BY <1>1, <2>1, <2>2 DEF Reports!Next, Views
<1>5. CASE k = 0 /\ ViewOf(id)' = Reports!Done(n + k, FALSE)
  <2>1. Views[id].filled = n + k
    BY <1>1, <1>5
  <2>2. Reports!Become(id, Reports!Done(Views[id].filled, FALSE))
    BY <1>5, <2>1, ViewBecomes
  <2> QED
    BY <1>1, <2>2 DEF Reports!Next, Reports!Cancel, Views
<1>6. CASE n = 0 /\ ViewOf(id)' = Reports!Done(0, TRUE)
  <2>1. Reports!Fail(id)
    BY <1>1, <1>6, ViewBecomes DEF Reports!Fail, Views
  <2> QED
    BY <1>1, <2>1 DEF Reports!Next, Views
<1>7. k = 0 \/ k > 0
  OBVIOUS
<1> QED
  BY <1>2, <1>3, <1>4, <1>5, <1>6, <1>7

(* A response is written about an order that is open with n lots filled;   *)
(* q is the queue it is appended to.                                       *)
LEMMA OrderTold ==
  ASSUME TypeOK, TypeOK', HeardInv,
         NEW id \in OrderIds, NEW s \in Strategies, NEW n \in Nat,
         NEW q \in Seq(OrderResponse), NEW r \in OrderResponse,
         Hearers(id) \subseteq {s}, Growing(rspMq[s], id, n), Growing(q, id, n),
         \A i \in OrderIds : i # id => SaysTheSame(rspMq[s], q, i),
         rspMq' = [rspMq EXCEPT ![s] = Append(q, r)],
         r.id = id, Continues(q, r, n), n + r.thisTraded <= MaxVolume,
         r.error # "NoError" => r.completed /\ n = 0 /\ r.thisTraded = 0,
         id < nextOrderId',
         \A i \in OrderIds : i # id => (i < nextOrderId' <=> i < nextOrderId),
         SameBut(orderMap, orderMap', id),
         r.completed <=> id \notin Live',
         id \in Live' => orderMap'[id].req.mq = s /\ orderMap'[id].traded = n + r.thisTraded
  PROVE  HeardInv' /\ (Reports!Next \/ UNCHANGED Views)
<1> DEFINE p == Append(q, r)
           m == n + r.thisTraded
<1>1. /\ rspMq \in [Strategies -> Seq(OrderResponse)] /\ rspMq' \in [Strategies -> Seq(OrderResponse)]
      /\ rspMq'[s] = p /\ \A t \in Strategies : t # s => rspMq'[t] = rspMq[t]
      /\ p \in Seq(OrderResponse) /\ r.thisTraded \in Nat
  BY AppendProperties, RspType DEF TypeOK
<1>2. ASSUME NEW i \in OrderIds, i # id
      PROVE  Heard(i)' /\ ViewOf(i)' = ViewOf(i)
  <2>1. SaysTheSame(rspMq[s], p, i)
    BY <1>2, SameAppend, SameTrans
  <2>2. \A t \in Strategies : SaysTheSame(rspMq[t], rspMq'[t], i)
    BY <1>1, <2>1, SameItself
  <2>3. /\ i \in Live' <=> i \in Live
        /\ i \in Live => orderMap'[i] = orderMap[i] /\ orderMap[i].req.mq \in Strategies
    <3>1. i \in Live => orderMap[i].req \in Requests
      BY DEF TypeOK, Order
    <3> QED
      BY <1>2, <3>1, RequestType DEF SameBut, Live
  <2>4. i >= nextOrderId' <=> i >= nextOrderId
    BY <1>2 DEF TypeOK, OrderIds
  <2> QED
    BY <1>2, <2>2, <2>3, <2>4, OtherHeard DEF HeardInv
<1>3. About(p, id) # {} /\ TotalsAddUp(p, id)
  <2>1. About(p, id) = About(q, id) \union {Len(q) + 1}
    BY AppendResponse
  <2>2. TotalsAddUp(Append(q, r), r.id)
    BY AddUpAppend
  <2> QED
    BY <2>1, <2>2
<1>4. Hearers(id)' = {s}
  <2>1. \A t \in Strategies : t # s => About(rspMq'[t], id) = {}
    BY <1>1 DEF Hearers
  <2> QED
    BY <1>1, <1>3, <2>1 DEF Hearers
<1>5. ViewOf(id)' = View(p, id)
  <2>1. Hearers(id)' = {t \in Strategies : About(rspMq'[t], id) # {}}
    BY DEF Hearers
  <2>2. View(IF Hearers(id)' = {} THEN <<>> ELSE rspMq'[CHOOSE t \in Hearers(id)' : TRUE], id)
          = View(rspMq'[s], id)
    BY <1>1, <1>4, <2>1, HearerView
  <2> QED
    BY <1>1, <2>2 DEF ViewOf
<1>6. (ViewOf(id) = Reports!Silent /\ n = 0) \/ ViewOf(id) = Reports!Working(n)
  <2>3. About(rspMq[s], id) = {} => n = 0
    BY <1>1, ToldNothing DEF Growing
  <2>4. ViewOf(id) = View(rspMq[s], id)
    BY <1>1, SoleHearer
  <2> QED
    BY <2>3, <2>4, GrowingView
<1>7. OneHears(id)' /\ \A t \in Strategies : TotalsAddUp(rspMq'[t], id)
  <2>1. \A t \in Strategies : t # s => TotalsAddUp(rspMq[t], id)
    BY DEF HeardInv, Heard
  <2> QED
    BY <1>1, <1>3, <1>4, <2>1 DEF OneHears
<1>8. ~ (id >= nextOrderId')
  BY DEF TypeOK, OrderIds
<1>9. CASE ~ r.completed
  <2>1. Growing(p, id, m) /\ id \in Live' /\ r.error = "NoError"
    BY <1>9, GrowingAppend
  <2>2. ViewOf(id)' = Reports!Working(m)
    BY <1>3, <1>5, <2>1, GrowingView
  <2>3. Heard(id)'
    BY <1>1, <1>3, <1>4, <1>7, <1>8, <2>1 DEF Heard
  <2> QED
    BY <1>1, <1>2, <1>6, <2>2, <2>3, MaySay DEF HeardInv
<1>10. CASE r.completed
  <2>5. n \in Int /\ Growing(q, r.id, n) /\ Continues(q, r, n) /\ r.completed
    BY <1>10
  <2>1. /\ CompletedIsLast(p, id, TRUE)
        /\ r.error # "NoError" => View(p, id) = Reports!Done(m, TRUE)
        /\ r.error = "NoError" => View(p, id) = Reports!Done(m, FALSE)
    BY <2>5, CompletedAppend
  <2>2. \A t \in Strategies : CompletedIsLast(rspMq'[t], id, TRUE)
    <3>1. \A t \in Strategies : t # s => About(rspMq[t], id) = {}
      BY DEF Hearers
    <3> QED
      BY <1>1, <2>1, <3>1 DEF CompletedIsLast
  <2>3. Heard(id)'
    BY <1>7, <1>8, <1>10, <2>2 DEF Heard
  <2>4. \/ ViewOf(id)' = Reports!Done(m, FALSE)
        \/ n = 0 /\ r.thisTraded = 0 /\ ViewOf(id)' = Reports!Done(0, TRUE)
    <3>1. CASE r.error = "NoError"
      BY <1>5, <2>1, <3>1
    <3>2. CASE r.error # "NoError"
      <4>1. n = 0 /\ r.thisTraded = 0 /\ m = 0
        BY <3>2
      <4>2. Reports!Done(m, TRUE) = Reports!Done(0, TRUE)
        BY <4>1
      <4>3. View(p, id) = Reports!Done(m, TRUE)
        BY <2>1, <3>2
      <4> HIDE DEF m, p
      <4> QED
        BY <1>5, <4>1, <4>2, <4>3
    <3> QED
      BY <3>1, <3>2
  <2> QED
    BY <1>1, <1>2, <1>6, <2>3, <2>4, MaySay DEF HeardInv
<1> QED
  BY <1>9, <1>10

(* What a response says, and how it gets to the end of a queue.            *)
LEMMA ResponseSays ==
  ASSUME NEW id \in OrderIds, NEW o \in Order, NEW n \in Nat, NEW e \in Errors
  PROVE  LET r == Response(id, o, n, e)
         IN  /\ r \in OrderResponse
             /\ r.id = id /\ r.original = o.req.volume
             /\ r.traded = o.traded /\ r.thisTraded = n /\ r.error = e
             /\ r.completed <=> o.canceled + o.traded = o.req.volume \/ e # "NoError"
<1>1. Response(id, o, n, e) \in OrderResponse
  BY ResponseType
<1> QED
  BY <1>1 DEF Response

LEMMA SendOne ==
  ASSUME NEW q \in Seq(OrderResponse), NEW r \in OrderResponse
  PROVE  q \o <<r>> = Append(q, r)
<1>1. <<r>> \in Seq(OrderResponse) /\ Len(<<r>>) = 1 /\ <<r>>[1] = r
  OBVIOUS
<1>2. /\ q \o <<r>> \in Seq(OrderResponse)
      /\ Len(q \o <<r>>) = Len(q) + 1 /\ Len(q) \in Nat
      /\ \A k \in 1 .. Len(q) + 1 :
           (q \o <<r>>)[k] = IF k <= Len(q) THEN q[k] ELSE <<r>>[k - Len(q)]
  BY <1>1, ConcatProperties, LenProperties
<1>3. /\ Append(q, r) \in Seq(OrderResponse) /\ Len(Append(q, r)) = Len(q) + 1
      /\ Append(q, r)[Len(q) + 1] = r
      /\ \A k \in 1 .. Len(q) : Append(q, r)[k] = q[k]
  BY AppendProperties
<1>4. ASSUME NEW k \in 1 .. Len(q) + 1 PROVE (q \o <<r>>)[k] = Append(q, r)[k]
  <2>1. CASE k <= Len(q)
    BY <1>2, <1>3, <2>1
  <2>2. CASE k = Len(q) + 1
    BY <1>1, <1>2, <1>3, <2>2
  <2> QED
    BY <1>2, <2>1, <2>2
<1> QED
  BY <1>2, <1>3, <1>4, SeqEqual

LEMMA SendTwo ==
  ASSUME NEW q \in Seq(OrderResponse), NEW a \in OrderResponse, NEW r \in OrderResponse
  PROVE  q \o Append(<<a>>, r) = Append(Append(q, a), r)
<1>1. /\ <<a>> \in Seq(OrderResponse) /\ Append(<<a>>, r) = <<a>> \o <<r>>
      /\ <<r>> \in Seq(OrderResponse)
  BY SendOne
<1>2. q \o (<<a>> \o <<r>>) = (q \o <<a>>) \o <<r>>
  BY <1>1, ConcatAssociative
<1>3. q \o <<a>> = Append(q, a) /\ Append(q, a) \in Seq(OrderResponse)
  BY SendOne, AppendProperties
<1> QED
  BY <1>1, <1>2, <1>3, SendOne

LEMMA SendNothing ==
  ASSUME NEW q \in Seq(OrderResponse)
  PROVE  q \o <<>> = q
BY ConcatEmptySeq

(* An order is refused, or could not be sent.                              *)
LEMMA RefusedHeard ==
  ASSUME TypeOK, TypeOK', FinalReportOnce, HeardInv, NEW req \in Requests, TakeOrderId,
         NEW e \in Errors, e # "NoError",
         SendRspToStrategy(NewOrder(req), <<Response(nextOrderId, NewOrder(req), 0, e)>>),
         UNCHANGED orderMap
  PROVE  HeardInv' /\ (Reports!Next \/ UNCHANGED Views)
<1>1. PICK id : id = nextOrderId
  OBVIOUS
<1> DEFINE s == req.mq
           o == NewOrder(req)
           r == Response(id, o, 0, e)
<1>2. /\ id \in OrderIds /\ nextOrderId' = id + 1 /\ s \in Strategies
      /\ req.volume \in Nat /\ req.volume > 0
  BY <1>1, TakeType, RequestType DEF TakeOrderId
<1>3. o \in Order /\ o.req = req /\ o.traded = 0 /\ o.canceled = 0
  BY NewOrderType DEF NewOrder
<1>4. /\ r \in OrderResponse /\ r.id = id /\ r.original = req.volume /\ r.traded = 0
      /\ r.thisTraded = 0 /\ r.error = e /\ r.completed
  <2> HIDE DEF o
  <2> QED
    BY <1>2, <1>3, ResponseSays
<1>5. rspMq \in [Strategies -> Seq(OrderResponse)] /\ rspMq[s] \in Seq(OrderResponse)
  BY <1>2 DEF TypeOK
<1>6. rspMq' = [rspMq EXCEPT ![s] = rspMq[s] \o <<r>>]
  BY <1>1, <1>3 DEF SendRspToStrategy
<1> HIDE DEF o, r, s
<1>7. rspMq' = [rspMq EXCEPT ![s] = Append(rspMq[s], r)]
  BY <1>4, <1>5, <1>6, SendOne
<1>8. Hearers(id) = {}
  <2>1. Heard(id) /\ id >= nextOrderId
    BY <1>1, <1>2 DEF HeardInv, OrderIds
  <2> QED
    BY <2>1 DEF Heard
<1>9. Growing(rspMq[s], id, 0)
  BY <1>2, <1>5, <1>8, GrowingStarts DEF Hearers
<1>10. Continues(rspMq[s], r, 0)
  BY <1>2, <1>4 DEF Continues
<1>11. id \notin Live /\ Live' = Live
  <2>1. ~ (id < nextOrderId)
    BY <1>1, <1>2 DEF OrderIds
  <2> QED
    BY <2>1 DEF FinalReportOnce, ExchangeCounts, LiveOrders, Live
<1>12. SameBut(orderMap, orderMap', id)
  BY DEF SameBut
<1>13. /\ id < nextOrderId'
       /\ \A i \in OrderIds : i # id => (i < nextOrderId' <=> i < nextOrderId)
  BY <1>1, <1>2 DEF OrderIds
<1>14. 0 + r.thisTraded <= MaxVolume /\ \A i \in OrderIds : SaysTheSame(rspMq[s], rspMq[s], i)
  BY <1>4, MaxVolumeAssumption, SameItself
<1>15. r.completed <=> id \notin Live'
  BY <1>4, <1>11
<1>16. 0 \in Nat /\ Hearers(id) \subseteq {s} /\ id \notin Live'
  BY <1>8, <1>11
<1> QED
  BY <1>2, <1>4, <1>5, <1>7, <1>9, <1>10, <1>12, <1>13, <1>14, <1>15, <1>16, OrderTold

(* Steps that write no response and leave the orders as they are.          *)
LEMMA QuietHeard ==
  ASSUME TypeOK, HeardInv, UNCHANGED <<nextOrderId, orderMap, rspMq>>
  PROVE  HeardInv' /\ UNCHANGED Views
<1>1. ASSUME NEW i \in OrderIds PROVE Heard(i)' /\ ViewOf(i)' = ViewOf(i)
  <2>1. i \in Live => orderMap[i].req.mq \in Strategies
    BY RequestType DEF TypeOK, Order
  <2>2. \A s \in Strategies : SaysTheSame(rspMq[s], rspMq'[s], i)
    BY SameItself
  <2> QED
    BY <2>1, <2>2, OtherHeard DEF HeardInv, Live
<1> QED
  BY <1>1 DEF HeardInv, Views

(* An order is sent: nothing was said of it yet.                           *)
LEMMA SubmitHeard ==
  ASSUME TypeOK, FinalReportOnce, HeardInv, NEW req \in Requests, SubmitOrder(req)
  PROVE  HeardInv' /\ UNCHANGED Views
<1>1. PICK id : id = nextOrderId
  OBVIOUS
<1>2. id \in OrderIds /\ nextOrderId' = id + 1 /\ req.mq \in Strategies
  BY <1>1, TakeType, RequestType DEF SubmitOrder, TakeOrderId
<1>3. orderMap' = Put(id, NewOrder(req)) /\ rspMq' = rspMq
  BY <1>1 DEF SubmitOrder
<1>4. NewOrder(req).req = req /\ NewOrder(req).traded = 0 /\ ~ NewOrder(req).accepted
  BY DEF NewOrder
<1>5. SameBut(orderMap, orderMap', id) /\ id \in Live' /\ orderMap'[id] = NewOrder(req)
  BY <1>3 DEF Put, SameBut, Live
<1>6. ASSUME NEW i \in OrderIds, i # id PROVE Heard(i)' /\ ViewOf(i)' = ViewOf(i)
  <2>1. i \in Live => orderMap[i].req.mq \in Strategies
    BY RequestType DEF TypeOK, Order
  <2>2. \A s \in Strategies : SaysTheSame(rspMq[s], rspMq'[s], i)
    BY <1>3, SameItself
  <2>3. /\ i < nextOrderId' <=> i < nextOrderId
        /\ i >= nextOrderId' <=> i >= nextOrderId
    BY <1>1, <1>2, <1>6 DEF OrderIds
  <2>4. /\ i \in Live' <=> i \in Live
        /\ i \in Live => orderMap'[i] = orderMap[i]
    BY <1>5, <1>6 DEF SameBut, Live
  <2> QED
    BY <2>1, <2>2, <2>3, <2>4, OtherHeard DEF HeardInv
<1>7. Heard(id) /\ Hearers(id) = {}
  <2>1. Heard(id) /\ id >= nextOrderId
    BY <1>1, <1>2 DEF HeardInv, OrderIds
  <2> QED
    BY <2>1 DEF Heard
<1>8. Hearers(id)' = {} /\ ViewOf(id)' = ViewOf(id)
  BY <1>3, <1>7 DEF Hearers, ViewOf
<1>9. Growing(rspMq[req.mq], id, 0)
  BY <1>2, <1>7, GrowingStarts DEF Hearers, TypeOK
<1>10. Heard(id)'
  <2>1. OneHears(id)'
    BY <1>8 DEF OneHears
  <2>2. \A s \in Strategies : TotalsAddUp(rspMq'[s], id)
    BY <1>3, <1>7 DEF Heard
  <2>3. ~ (id >= nextOrderId')
    BY <1>2 DEF OrderIds
  <2>4. /\ orderMap'[id].req.mq = req.mq /\ orderMap'[id].traded = 0
        /\ ~ orderMap'[id].accepted
    BY <1>4, <1>5
  <2>5. Growing(rspMq'[req.mq], id, 0)
    BY <1>3, <1>9
  <2> QED
    BY <1>5, <1>8, <2>1, <2>2, <2>3, <2>4, <2>5 DEF Heard
<1> QED
  BY <1>6, <1>8, <1>10 DEF HeardInv, Views

(* What the strategies were told of a live order.                          *)
LEMMA LiveHeard ==
  ASSUME TypeOK, FinalReportOnce, TradeInv, HeardInv, NEW id \in Live
  PROVE  LET o == orderMap[id]
         IN  /\ id \in OrderIds /\ id < nextOrderId
             /\ o \in Order /\ o.req \in Requests /\ o.req.mq \in Strategies
             /\ o.traded \in Nat /\ o.canceled \in Int /\ o.canceled >= 0
             /\ o.req.volume \in Nat /\ o.req.volume <= MaxVolume
             /\ o.traded + o.canceled < o.req.volume
             /\ rspMq[o.req.mq] \in Seq(OrderResponse)
             /\ Hearers(id) \subseteq {o.req.mq}
             /\ Growing(rspMq[o.req.mq], id, o.traded)
             /\ o.accepted => About(rspMq[o.req.mq], id) # {}
<1> DEFINE o == orderMap[id]
<1>1. id \in DOMAIN exchange /\ id \in OrderIds /\ id < nextOrderId
  BY LiveIsKnown DEF FinalReportOnce, ExchangeCounts, TypeOK
<1>2. /\ o \in Order /\ o.req \in Requests /\ o.req.mq \in Strategies
      /\ o.traded \in Int /\ o.canceled \in Int
      /\ o.req.volume \in Nat /\ o.req.volume <= MaxVolume
      /\ Left(o) = o.req.volume - o.traded - o.canceled
  BY <1>1, OrderNumbers, RequestType, MaxVolumeAssumption
<1>3. o.canceled >= 0 /\ Left(o) > 0
  BY <1>1 DEF TradeInv, OrderInv, Accounted
<1>4. Heard(id) /\ rspMq[o.req.mq] \in Seq(OrderResponse)
  BY <1>1, <1>2 DEF HeardInv, TypeOK
<1>5. /\ Hearers(id) \subseteq {o.req.mq}
      /\ Growing(rspMq[o.req.mq], id, o.traded)
      /\ o.accepted => About(rspMq[o.req.mq], id) # {}
  BY <1>4 DEF Heard
<1> HIDE DEF o
<1>6. o.traded \in Nat
  <2> DEFINE q == rspMq[o.req.mq]
  <2>1. Len(q) \in 0 .. Len(q)
    BY <1>4, RspQueueType
  <2>2. o.traded = Told(q, id, Len(q))
    BY <1>5 DEF Growing
  <2> QED
    BY <1>4, <2>1, <2>2, ToldType
<1>7. o.traded + o.canceled < o.req.volume
  BY <1>2, <1>3
<1> QED
  BY <1>1, <1>2, <1>3, <1>4, <1>5, <1>6, <1>7 DEF o

(* A handler changes live order id into o, at most erasing it, and says    *)
(* so.  Queue q is the order's, perhaps with an accepted response already. *)
Tells(id, o, v, e, q) ==
  LET s == orderMap[id].req.mq
      n == orderMap[id].traded
  IN  /\ id \in Live /\ o \in Order /\ v \in Nat /\ e \in Errors
      /\ o.req = orderMap[id].req /\ o.traded = n + v /\ o.traded <= o.req.volume
      /\ e # "NoError" => n = 0 /\ v = 0
      /\ q \in Seq(OrderResponse) /\ Growing(q, id, n)
      /\ \A i \in OrderIds : i # id => SaysTheSame(rspMq[s], q, i)
      /\ v > 0 => About(q, id) # {}
      /\ rspMq' = [rspMq EXCEPT ![s] = Append(q, Response(id, o, v, e))]
      /\ SameBut(orderMap, orderMap', id)
      /\ id \in Live' <=> ~ (o.canceled + o.traded = o.req.volume \/ e # "NoError")
      /\ id \in Live' => orderMap'[id] = o

LEMMA HandlerHeard ==
  ASSUME TypeOK, TypeOK', FinalReportOnce, TradeInv, HeardInv, UNCHANGED nextOrderId,
         NEW id, NEW o, NEW v, NEW e, NEW q, Tells(id, o, v, e, q)
  PROVE  HeardInv' /\ (Reports!Next \/ UNCHANGED Views)
<1>1. PICK s, n : s = orderMap[id].req.mq /\ n = orderMap[id].traded
  OBVIOUS
<1>2. /\ id \in Live /\ o \in Order /\ v \in Nat /\ e \in Errors
      /\ o.req = orderMap[id].req /\ o.traded = n + v /\ o.traded <= o.req.volume
      /\ e # "NoError" => n = 0 /\ v = 0
      /\ q \in Seq(OrderResponse) /\ Growing(q, id, n)
      /\ \A i \in OrderIds : i # id => SaysTheSame(rspMq[s], q, i)
      /\ v > 0 => About(q, id) # {}
      /\ rspMq' = [rspMq EXCEPT ![s] = Append(q, Response(id, o, v, e))]
      /\ SameBut(orderMap, orderMap', id)
      /\ id \in Live' <=> ~ (o.canceled + o.traded = o.req.volume \/ e # "NoError")
      /\ id \in Live' => orderMap'[id] = o
  BY <1>1 DEF Tells
<1> DEFINE r == Response(id, o, v, e)
<1>3. /\ id \in OrderIds /\ id < nextOrderId /\ s \in Strategies /\ n \in Nat
      /\ o.req.volume \in Nat /\ o.req.volume <= MaxVolume
      /\ rspMq[s] \in Seq(OrderResponse)
      /\ Hearers(id) \subseteq {s} /\ Growing(rspMq[s], id, n)
  BY <1>1, <1>2, LiveHeard
<1>4. /\ r \in OrderResponse /\ r.id = id /\ r.original = o.req.volume
      /\ r.traded = n + v /\ r.thisTraded = v /\ r.error = e
      /\ r.completed <=> o.canceled + o.traded = o.req.volume \/ e # "NoError"
  BY <1>3, <1>2, ResponseSays
<1>5. rspMq' = [rspMq EXCEPT ![s] = Append(q, r)]
  BY <1>2
<1> HIDE DEF r
<1>6. Continues(q, r, n)
  BY <1>4, <1>2 DEF Continues
<1>7. /\ n + r.thisTraded <= MaxVolume
      /\ r.error # "NoError" => r.completed /\ n = 0 /\ r.thisTraded = 0
      /\ r.completed <=> id \notin Live'
      /\ id \in Live' => orderMap'[id].req.mq = s /\ orderMap'[id].traded = n + r.thisTraded
  <2>1. n + r.thisTraded <= MaxVolume
    BY <1>3, <1>4, <1>2, MaxVolumeAssumption
  <2>2. r.error # "NoError" => r.completed /\ n = 0 /\ r.thisTraded = 0
    BY <1>4, <1>1, <1>2
  <2>3. r.completed <=> id \notin Live'
    BY <1>4, <1>1, <1>2
  <2>4. id \in Live' => orderMap'[id].req.mq = s /\ orderMap'[id].traded = n + r.thisTraded
    BY <1>4, <1>1, <1>2
  <2> QED
    BY <2>1, <2>2, <2>3, <2>4
<1>8. id < nextOrderId' /\ \A i \in OrderIds : i # id => (i < nextOrderId' <=> i < nextOrderId)
  BY <1>3
<1> QED
  BY <1>3, <1>4, <1>5, <1>6, <1>7, <1>8, <1>2, OrderTold

LEMMA OnAcceptedHeard ==
  ASSUME TypeOK, TypeOK', FinalReportOnce, TradeInv, HeardInv, OnAccepted
  PROVE  HeardInv' /\ (Reports!Next \/ UNCHANGED Views)
<1>1. PICK id : id = Head(rspRing).id
  OBVIOUS
<1> DEFINE o == orderMap[id]
           a == [o EXCEPT !.accepted = TRUE, !.status = "accepted"]
           s == o.req.mq
           q == rspMq[s]
<1>2. nextOrderId' = nextOrderId
  BY DEF OnAccepted, TakeRsp
<1>3. CASE id \in Live /\ ~ o.accepted
  <2>1. /\ id \in OrderIds /\ o \in Order /\ s \in Strategies /\ q \in Seq(OrderResponse)
        /\ o.traded \in Nat /\ o.canceled \in Int /\ o.canceled >= 0
        /\ o.req.volume \in Nat /\ o.traded + o.canceled < o.req.volume
        /\ Growing(q, id, o.traded)
    BY <1>3, LiveHeard
  <2>2. /\ orderMap' = Put(id, a)
        /\ rspMq' = [rspMq EXCEPT ![s] = q \o <<Response(id, a, 0, "NoError")>>]
    BY <1>1, <1>3 DEF OnAccepted, SendRspToStrategy
  <2>3. a \in Order /\ a.req = o.req /\ a.traded = o.traded /\ a.canceled = o.canceled
    <3> HIDE DEF o
    <3> QED
      BY <2>1 DEF Order, OrderStatus
  <2> HIDE DEF a, q, s
  <2>4. 0 \in Nat /\ "NoError" \in Errors
    BY DEF Errors
  <2>5. rspMq' = [rspMq EXCEPT ![s] = Append(q, Response(id, a, 0, "NoError"))]
    BY <2>1, <2>2, <2>3, <2>4, ResponseType, SendOne
  <2>6. SameBut(orderMap, orderMap', id) /\ (id \in Live' => orderMap'[id] = a)
    BY <2>1, <2>2, <2>3, StoreEffect DEF Live
  <2>7. id \in Live'
    BY <2>2 DEF Put, Live
  <2>8. a.traded = o.traded + 0 /\ a.traded <= a.req.volume /\ a.canceled + a.traded # a.req.volume
    <3> HIDE DEF o
    <3> QED
      BY <2>1, <2>3
  <2>9. \A i \in OrderIds : i # id => SaysTheSame(rspMq[s], q, i)
    BY SameItself DEF q
  <2>11. Tells(id, a, 0, "NoError", q)
    BY <1>3, <2>1, <2>3, <2>4, <2>5, <2>6, <2>7, <2>8, <2>9 DEF Tells, s
  <2> QED
    BY <1>2, <2>11, HandlerHeard
<1>4. CASE ~ (id \in Live /\ ~ o.accepted)
  BY <1>1, <1>2, <1>4, QuietHeard DEF OnAccepted
<1> QED
  BY <1>3, <1>4

LEMMA OnRejectedHeard ==
  ASSUME TypeOK, TypeOK', FinalReportOnce, TradeInv, HeardInv, OnRejected
  PROVE  HeardInv' /\ (Reports!Next \/ UNCHANGED Views)
<1>1. PICK id : id = Head(rspRing).id
  OBVIOUS
<1> DEFINE o == orderMap[id]
           s == o.req.mq
           q == rspMq[s]
<1>2. nextOrderId' = nextOrderId /\ rspRing # <<>> /\ Head(rspRing).kind = "rejected"
  BY DEF OnRejected, TakeRsp
<1>3. CASE id \in Live
  <2>1. /\ id \in OrderIds /\ o \in Order /\ s \in Strategies /\ q \in Seq(OrderResponse)
        /\ o.req.volume \in Nat /\ Growing(q, id, o.traded)
    BY <1>3, LiveHeard
  <2>2. /\ orderMap' = Erase(id)
        /\ rspMq' = [rspMq EXCEPT ![s] = q \o <<Response(id, o, 0, "Rejected")>>]
    BY <1>1, <1>3 DEF OnRejected, SendRspToStrategy
  <2>3. o.traded = 0
    BY <1>1, <1>2, <1>3, HeadReport
  <2> HIDE DEF o, q, s
  <2>4. 0 \in Nat /\ "Rejected" \in Errors /\ "Rejected" # "NoError"
    BY DEF Errors
  <2>5. rspMq' = [rspMq EXCEPT ![s] = Append(q, Response(id, o, 0, "Rejected"))]
    BY <2>1, <2>2, <2>4, ResponseType, SendOne
  <2>6. SameBut(orderMap, orderMap', id) /\ id \notin Live'
    BY <2>2 DEF Erase, SameBut, Live
  <2>7. o.traded = o.traded + 0 /\ o.traded <= o.req.volume
    BY <2>1, <2>3
  <2>8. \A i \in OrderIds : i # id => SaysTheSame(rspMq[s], q, i)
    BY SameItself DEF q
  <2>11. Tells(id, o, 0, "Rejected", q)
    BY <1>3, <2>1, <2>3, <2>4, <2>5, <2>6, <2>7, <2>8 DEF Tells, s, o
  <2> QED
    BY <1>2, <2>11, HandlerHeard
<1>4. CASE id \notin Live
  BY <1>1, <1>2, <1>4, QuietHeard DEF OnRejected
<1> QED
  BY <1>3, <1>4

LEMMA OnCanceledHeard ==
  ASSUME TypeOK, TypeOK', FinalReportOnce, TradeInv, HeardInv, OnCanceled
  PROVE  HeardInv' /\ (Reports!Next \/ UNCHANGED Views)
<1>1. PICK id : id = Head(rspRing).id
  OBVIOUS
<1> DEFINE o == orderMap[id]
           v == Head(rspRing).volume
           c == [o EXCEPT !.canceled = v, !.status = "canceled"]
           s == o.req.mq
           q == rspMq[s]
<1>2. /\ nextOrderId' = nextOrderId /\ v \in Nat
  BY HeadType DEF OnCanceled, TakeRsp
<1>3. CASE id \in Live
  <2>1. /\ id \in OrderIds /\ o \in Order /\ s \in Strategies /\ q \in Seq(OrderResponse)
        /\ o.traded \in Nat /\ o.canceled \in Int /\ o.canceled >= 0
        /\ o.req.volume \in Nat /\ o.traded + o.canceled < o.req.volume
        /\ Growing(q, id, o.traded)
    BY <1>3, LiveHeard
  <2>2. /\ StoreOrErase(id, c)
        /\ rspMq' = [rspMq EXCEPT ![s] = q \o <<Response(id, c, 0, "NoError")>>]
    BY <1>1, <1>3 DEF OnCanceled, SendRspToStrategy
  <2>3. c \in Order /\ c.req = o.req /\ c.traded = o.traded /\ c.canceled = v
    <3> HIDE DEF o, v
    <3>1. v \in Int
      BY <1>2
    <3> QED
      BY <2>1, <3>1 DEF Order, OrderStatus
  <2> HIDE DEF c, q, s
  <2>4. 0 \in Nat /\ "NoError" \in Errors
    BY DEF Errors
  <2>5. rspMq' = [rspMq EXCEPT ![s] = Append(q, Response(id, c, 0, "NoError"))]
    BY <2>1, <2>2, <2>3, <2>4, ResponseType, SendOne
  <2>6. SameBut(orderMap, orderMap', id) /\ (id \in Live' => orderMap'[id] = c)
    BY <2>1, <2>2, <2>3, StoreEffect DEF Live
  <2>7. c.traded \in Int /\ c.canceled \in Int
    BY <2>3, OrderUpdates DEF Order
  <2>8. id \in Live' <=> c.canceled + c.traded # c.req.volume
    BY <2>2, <2>7 DEF StoreOrErase, Put, Erase, Live
  <2>9. c.traded = o.traded + 0 /\ c.traded <= c.req.volume
    <3> HIDE DEF o
    <3> QED
      BY <2>1, <2>3
  <2>10. \A i \in OrderIds : i # id => SaysTheSame(rspMq[s], q, i)
    BY SameItself DEF q
  <2>11. Tells(id, c, 0, "NoError", q)
    BY <1>3, <2>1, <2>3, <2>4, <2>5, <2>6, <2>8, <2>9, <2>10 DEF Tells, s
  <2> QED
    BY <1>2, <2>11, HandlerHeard
<1>4. CASE id \notin Live
  BY <1>1, <1>2, <1>4, QuietHeard DEF OnCanceled
<1> QED
  BY <1>3, <1>4

(* A trade of an order not yet accepted is told after an accepted response. *)
LEMMA OnTradedHeard ==
  ASSUME TypeOK, TypeOK', FinalReportOnce, TradeInv, HeardInv, OnTraded
  PROVE  HeardInv' /\ (Reports!Next \/ UNCHANGED Views)
<1>1. PICK id : id = Head(rspRing).id
  OBVIOUS
<1> DEFINE o == orderMap[id]
           v == Head(rspRing).volume
           a == [o EXCEPT !.accepted = TRUE]
           n == o.traded + v
           t == [a EXCEPT !.traded = n,
                          !.status = IF n = o.req.volume THEN "allTraded"
                                     ELSE IF @ # "canceled" THEN "partTraded" ELSE @]
           s == o.req.mq
           p == rspMq[s]
           ra == Response(id, a, 0, "NoError")
           rt == Response(id, t, v, "NoError")
           q == IF o.accepted THEN p ELSE Append(p, ra)
<1>2. nextOrderId' = nextOrderId /\ v \in Nat
  BY HeadType DEF OnTraded, TakeRsp
<1>3. CASE id \in Live
  <2>1. /\ id \in OrderIds /\ o \in Order /\ s \in Strategies /\ p \in Seq(OrderResponse)
        /\ o.traded \in Nat /\ o.canceled \in Int /\ o.canceled >= 0
        /\ o.req.volume \in Nat /\ o.traded + o.canceled < o.req.volume
        /\ Growing(p, id, o.traded)
        /\ o.accepted => About(p, id) # {}
    BY <1>3, LiveHeard
  <2>2. /\ StoreOrErase(id, t)
        /\ rspMq' = [rspMq EXCEPT ![s] = p \o Append(IF o.accepted THEN <<>> ELSE <<ra>>, rt)]
    BY <1>1, <1>3 DEF OnTraded, SendRspToStrategy
  <2>3. a \in Order /\ a.req = o.req /\ a.traded = o.traded /\ a.canceled = o.canceled
        /\ a.status \in OrderStatus
    <3> HIDE DEF o
    <3> QED
      BY <2>1 DEF Order
  <2>4. t \in Order /\ t.req = o.req /\ t.traded = n /\ t.canceled = o.canceled
    <3>1. n \in Int /\ {"allTraded", "partTraded"} \subseteq OrderStatus
      BY <1>2, <2>1 DEF OrderStatus
    <3> HIDE DEF a, n, o
    <3> QED
      BY <2>3, <3>1 DEF Order
  <2>5. n = o.traded + v
    OBVIOUS
  <2> HIDE DEF t, n, a, o, v, s, p
  <2>6. 0 \in Nat /\ "NoError" \in Errors
    BY DEF Errors
  <2>7. /\ ra \in OrderResponse /\ ra.id = id /\ ra.original = o.req.volume
        /\ ra.traded = o.traded /\ ra.thisTraded = 0 /\ ra.error = "NoError"
        /\ ra.completed <=> o.canceled + o.traded = o.req.volume
    BY <2>1, <2>3, <2>6, ResponseSays
  <2>8. rt \in OrderResponse
    BY <1>2, <2>1, <2>4, <2>6, ResponseType
  <2> HIDE DEF ra, rt
  <2>9. /\ q \in Seq(OrderResponse) /\ Growing(q, id, o.traded) /\ About(q, id) # {}
        /\ rspMq' = [rspMq EXCEPT ![s] = Append(q, rt)]
        /\ \A i \in OrderIds : i # id => SaysTheSame(p, q, i)
    <3>1. CASE o.accepted
      <4>1. Append(<<>>, rt) = <<rt>> /\ p \o <<rt>> = Append(p, rt)
        BY <2>1, <2>8, SendOne
      <4> QED
        BY <2>1, <2>2, <3>1, <4>1, SameItself
    <3>2. CASE ~ o.accepted
      <4>1. q = Append(p, ra) /\ q \in Seq(OrderResponse)
        BY <2>1, <2>7, <3>2, AppendProperties
      <4>2. rspMq' = [rspMq EXCEPT ![s] = Append(q, rt)]
        BY <2>1, <2>2, <2>7, <2>8, <3>2, <4>1, SendTwo
      <4>3. Growing(q, id, o.traded) /\ About(q, id) # {}
        <5>1. ~ ra.completed /\ o.traded \in Int
          BY <2>1, <2>7
        <5>2. Continues(p, ra, o.traded)
          BY <2>1, <2>7 DEF Continues
        <5>3. o.traded + ra.thisTraded = o.traded
          BY <2>1, <2>7
        <5> QED
          BY <2>1, <2>7, <4>1, <5>1, <5>2, <5>3, GrowingAppend
      <4>4. \A i \in OrderIds : i # id => SaysTheSame(p, q, i)
        BY <2>1, <2>7, <4>1, SameAppend
      <4> QED
        BY <4>1, <4>2, <4>3, <4>4
    <3> QED
      BY <3>1, <3>2
  <2> HIDE DEF q
  <2>10. SameBut(orderMap, orderMap', id) /\ (id \in Live' => orderMap'[id] = t)
    BY <2>1, <2>2, <2>4, StoreEffect DEF Live
  <2>11. t.traded \in Int /\ t.canceled \in Int
    BY <2>4, OrderUpdates DEF Order
  <2>12. id \in Live' <=> t.canceled + t.traded # t.req.volume
    BY <2>2, <2>11 DEF StoreOrErase, Put, Erase, Live
  <2>13. t.traded <= t.req.volume
    <3>1. CASE id \in Live'
      <4>1. id \in DOMAIN exchange /\ exchange' = exchange
        BY <1>3, LiveIsKnown DEF OnTraded, TakeRsp
      <4>2. Left(t) > 0
        BY <2>10, <3>1, <4>1, OnTradedTrades DEF TradeInv, OrderInv, Accounted
      <4> QED
        BY <2>1, <2>4, <2>11, <4>2 DEF Left
    <3>2. CASE id \notin Live'
      BY <2>1, <2>4, <2>11, <2>12, <3>2
    <3> QED
      BY <3>1, <3>2
  <2>14. Tells(id, t, v, "NoError", q)
    BY <1>2, <1>3, <2>4, <2>5, <2>6, <2>9, <2>10, <2>12, <2>13 DEF Tells, rt, s, o, p
  <2> QED
    BY <1>2, <2>14, HandlerHeard
<1>4. CASE id \notin Live
  BY <1>1, <1>2, <1>4, QuietHeard DEF OnTraded
<1> QED
  BY <1>3, <1>4

(* Every step tells what it does, and nothing the abstract specification   *)
(* does not allow.                                                         *)
LEMMA NextHeard ==
  ASSUME TypeOK, TypeOK', FinalReportOnce, TradeInv, HeardInv, [Next]_vars
  PROVE  HeardInv' /\ (Reports!Next \/ UNCHANGED Views)
<1>1. ASSUME NEW req \in Requests, RefuseOrder(req)
      PROVE  HeardInv' /\ (Reports!Next \/ UNCHANGED Views)
  <2>1. RiskError(req) \in Errors /\ RiskError(req) # "NoError"
    BY <1>1 DEF RefuseOrder, RiskError, CheckOrderRequest, Errors
  <2> QED
    BY <1>1, <2>1, RefusedHeard DEF RefuseOrder
<1>2. ASSUME NEW req \in Requests, FailToSend(req)
      PROVE  HeardInv' /\ (Reports!Next \/ UNCHANGED Views)
  <2>1. "SendFailed" \in Errors /\ "SendFailed" # "NoError"
    BY DEF Errors
  <2> QED
    BY <1>2, <2>1, RefusedHeard DEF FailToSend
<1>3. ASSUME NEW req \in Requests, SubmitOrder(req)
      PROVE  HeardInv' /\ UNCHANGED Views
  BY <1>3, SubmitHeard
<1>4. ASSUME NEW ids, DoCancelOrders(ids) PROVE HeardInv' /\ UNCHANGED Views
  BY <1>4, QuietHeard DEF DoCancelOrders
<1>5. CASE OnCancelRejected
  BY <1>5, QuietHeard DEF OnCancelRejected, TakeRsp
<1>6. ASSUME NEW acc, OnAccount(acc) PROVE HeardInv' /\ UNCHANGED Views
  BY <1>6, QuietHeard DEF OnAccount
<1>7. ASSUME NEW id, Exchange(id) PROVE HeardInv' /\ UNCHANGED Views
  <2>1. UNCHANGED <<nextOrderId, orderMap, rspMq>>
    BY <1>7 DEF Exchange, ExchangeAccept, ExchangeReject, ExchangeCancel, RejectCancel,
      ExchangeExecute, ReportTrade, PushRsp, OmsUnchanged
  <2> QED
    BY <2>1, QuietHeard
<1>8. CASE UNCHANGED vars
  BY <1>8, QuietHeard DEF vars
<1> QED
  BY <1>1, <1>2, <1>3, <1>4, <1>5, <1>6, <1>7, <1>8, OnAcceptedHeard, OnRejectedHeard,
     OnTradedHeard, OnCanceledHeard
  DEF Next, ExecuteCmd, ProcessRsp, CancelOrder, CancelForTicker, CancelAll

LEMMA InitHeard == Init => HeardInv /\ Reports!Init
<1> SUFFICES ASSUME Init PROVE HeardInv /\ Reports!Init
  OBVIOUS
<1>1. \A s \in Strategies : rspMq[s] = <<>>
  BY DEF Init
<1>2. \A i \in OrderIds, s \in Strategies : About(rspMq[s], i) = {}
  <2>1. ASSUME NEW i PROVE About(<<>>, i) = {}
    BY DEF About
  <2> QED
    BY <1>1, <2>1
<1>3. Live = {} /\ nextOrderId = 1
  BY DEF Init, Live
<1>4. ASSUME NEW i \in OrderIds
      PROVE  Heard(i) /\ ViewOf(i) = Reports!Silent
  <2>1. Hearers(i) = {}
    BY <1>2 DEF Hearers
  <2>2. About(<<>>, i) = {} /\ <<>> \in Seq(OrderResponse)
    BY DEF About
  <2>3. ViewOf(i) = Reports!Silent
    <3>1. View(<<>>, i) = Reports!Silent
      BY <2>2, GrowingStarts, GrowingView
    <3> QED
      BY <2>1, <3>1 DEF ViewOf
  <2>4. OneHears(i) /\ \A s \in Strategies : TotalsAddUp(rspMq[s], i)
    BY <1>2, <2>1 DEF OneHears, TotalsAddUp
  <2>5. ~ (i < nextOrderId)
    BY <1>3 DEF OrderIds
  <2> QED
    BY <1>3, <2>1, <2>3, <2>4, <2>5 DEF Heard
<1> QED
  BY <1>4 DEF HeardInv, Reports!Init

(* The strategies were told of every order what the order map says: for    *)
(* every value of the constants, whether sending may fail or not.          *)
THEOREM HeardCorrect == Spec => []HeardInv
<1>1. Init => HeardInv
  BY InitHeard
<1>2. TypeOK /\ TypeOK' /\ FinalReportOnce /\ TradeInv /\ HeardInv /\ [Next]_vars => HeardInv'
  BY NextHeard
<1> QED
  BY <1>1, <1>2, TypeCorrect, FinalReportCorrect, TradesAccounted, PTL DEF Spec

(* ReportsAddUp: one strategy is told of an order, the totals it is told   *)
(* are the sums of the fills it was told, the completed response is the    *)
(* last and comes when SendOrder refuses the order or it leaves order_map_. *)
THEOREM ReportsCorrect == Spec => []ReportsAddUp
<1>1. TypeOK /\ HeardInv => ReportsAddUp
  BY HeardAddsUp
<1> QED
  BY <1>1, TypeCorrect, HeardCorrect, PTL

(* The OMS implements OrderReports: what SendRspToStrategy tells of every  *)
(* order has the life a strategy is promised.                              *)
THEOREM ReportsRefined == Spec => ReportsImplemented
<1>1. Init => Reports!Init
  BY InitHeard
<1>2. TypeOK /\ TypeOK' /\ FinalReportOnce /\ TradeInv /\ HeardInv /\ [Next]_vars
        => [Reports!Next]_[i \in OrderIds |-> ViewOf(i)]
  BY NextHeard DEF Views
<1> QED
  BY <1>1, <1>2, TypeCorrect, FinalReportCorrect, TradesAccounted, HeardCorrect, PTL
  DEF Spec, ReportsImplemented, Reports!Spec

=============================================================================
