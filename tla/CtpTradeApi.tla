---------------------------- MODULE CtpTradeApi ----------------------------
(***************************************************************************)
(* CtpTradeApi: login and reconnection, orders and their reports.          *)
(*                                                                         *)
(* Three parties: the trader's thread, which calls Login, SendOrder and    *)
(* CancelOrder; the library's callback thread; the front (external).  The  *)
(* front answers a request with a message; messages reach the callbacks in *)
(* order and are lost with the connection, as are the reports of the time  *)
(* without one: the private topic is subscribed with THOST_TERT_QUICK.     *)
(* The library reconnects by itself.                                       *)
(***************************************************************************)
EXTENDS Broker

CONSTANTS
  CancelOutstanding, \* cancel_outstanding_orders_on_startup
  Leftovers,         \* orders an earlier run left
  MaxDisconnects,    \* bound: how often the front drops the connection
  MaxWire,           \* bound: messages under way when the broker goes on
  RefModulus         \* order refs and ids are unsigned: 2^64 in the code

CtpAssumption ==
  /\ CancelOutstanding \in BOOLEAN
  /\ {Leftovers, MaxDisconnects, MaxWire} \subseteq Nat
  /\ RefModulus \in Nat
  /\ RefModulus > 2 * (Leftovers + (MaxDisconnects + 2) * (MaxOrders + 1))

VARIABLES
  loginCall,   \* where the trader's thread is in Login, and what it returned
  status,      \* status_: 0 logging in, 1 logged in, -1 failed
  base,        \* order_ref_base_
  session,     \* session_id_ with front_id_; 0 before the first login
  nextId,      \* the OMS's order ids
  front,       \* the front: connected, sessions given so far, disconnects
  asked,       \* the request the front has not answered yet
  wire,        \* messages on their way to the callbacks
  orders,      \* the broker's book
  told         \* reports put on the ring

vars == <<loginCall, status, base, session, nextId, front, asked, wire, orders, told>>
client == <<loginCall, status, base, session, nextId, told>>

Init ==
  /\ loginCall = "waits"
  /\ status = 0
  /\ base = 0
  /\ session = 0
  /\ nextId = 1
  /\ front = [connected |-> FALSE, sessions |-> 0, drops |-> 0]
  /\ asked = "nothing"
  /\ wire = <<>>
  /\ orders = [k \in 1 .. Leftovers |->
                 [BrokerSent(0, k, 0) EXCEPT !.state = "queueing"]]
  /\ told = <<>>

-----------------------------------------------------------------------------
(* Login, on the trader's thread.  It reads status_ once to leave its loop *)
(* and once more to see whether the login worked.                          *)

LeaveLoop ==
  /\ loginCall = "waits" /\ status # 0
  /\ loginCall' = "looks"
  /\ UNCHANGED <<status, base, session, nextId, front, asked, wire, orders, told>>

ReqQryOrder ==
  IF CancelOutstanding /\ front.connected
  THEN asked' = "orders" /\ loginCall' = "true"
  ELSE UNCHANGED asked /\ loginCall' = IF CancelOutstanding THEN "false" ELSE "true"

LookAgain ==
  /\ loginCall = "looks"
  /\ IF status = 1 THEN ReqQryOrder ELSE loginCall' = "false" /\ UNCHANGED asked
  /\ UNCHANGED <<status, base, session, nextId, front, wire, orders, told>>

-----------------------------------------------------------------------------
(* Callbacks.  A request of a callback fails when the connection is gone.  *)

Request(what) ==
  \/ front.connected /\ asked' = what /\ UNCHANGED status
  \/ asked' = "nothing" /\ status' = -1

OnFrontConnected ==
  /\ wire # <<>> /\ Head(wire).kind = "connected"
  /\ wire' = Tail(wire)
  /\ Request("authenticate")
  /\ UNCHANGED <<loginCall, base, session, nextId, front, orders, told>>

OnFrontDisconnected ==
  /\ wire # <<>> /\ Head(wire).kind = "disconnected"
  /\ wire' = Tail(wire)
  /\ status' = 0
  /\ UNCHANGED <<loginCall, base, session, nextId, front, asked, orders, told>>

(* The last part of an answer; the parts before it change nothing.         *)
Answer(what, ok) ==
  /\ wire # <<>> /\ Head(wire).kind = "answer"
  /\ Head(wire).to = what /\ Head(wire).ok = ok
  /\ wire' = Tail(wire)

(* Fault: an error is only logged.                                         *)
OnRspFailedSilent(what) ==
  /\ what # "orderAction"
  /\ Answer(what, FALSE)
  /\ UNCHANGED <<status, loginCall, base, session, nextId, front, asked, orders, told>>

OnRspFailed(what) ==
  /\ what # "orderAction"
  /\ Answer(what, FALSE)
  /\ status' = -1
  /\ UNCHANGED <<loginCall, base, session, nextId, front, asked, orders, told>>

OnRspAuthenticate ==
  /\ Answer("authenticate", TRUE)
  /\ Request("login")
  /\ UNCHANGED <<loginCall, base, session, nextId, front, orders, told>>

(* Fault: the base is not taken from the front.                            *)
RefBaseZero(maxOrderRef) == 0
RefBase(maxOrderRef) == maxOrderRef + 1

OnRspUserLogin ==
  /\ Answer("login", TRUE)
  /\ session' = Head(wire).session
  /\ base' = RefBase(Head(wire).maxRef)
  /\ Request("settlement")
  /\ UNCHANGED <<loginCall, nextId, front, orders, told>>

OnRspQrySettlementInfo ==
  /\ Answer("settlement", TRUE)
  /\ Request("confirm")
  /\ UNCHANGED <<loginCall, base, session, nextId, front, orders, told>>

OnRspSettlementInfoConfirm ==
  /\ Answer("confirm", TRUE)
  /\ status' = 1
  /\ UNCHANGED <<loginCall, base, session, nextId, front, asked, orders, told>>

(* The outstanding orders the answer lists are cancelled one by one.       *)
OnRspQryOrder ==
  /\ Answer("orders", TRUE)
  /\ orders' = [k \in DOMAIN orders |->
                  IF k \in Head(wire).list /\ front.connected /\ orders[k].cancel = "no"
                  THEN [orders[k] EXCEPT !.cancel = "asked"] ELSE orders[k]]
  /\ status' = 1
  /\ UNCHANGED <<loginCall, base, session, nextId, front, asked, told>>

-----------------------------------------------------------------------------
(* Orders                                                                  *)

GetOrderRef(id) == (id + base) % RefModulus
GetOrderId(ref) == (ref - base) % RefModulus

LoggedIn == loginCall = "true"

(* An order that cannot be sent is rejected by the OMS, its id is used up. *)
SendOrder ==
  /\ LoggedIn /\ nextId <= MaxOrders
  /\ nextId' = nextId + 1
  /\ \/ front.connected
        /\ orders' = Append(orders, BrokerSent(nextId, GetOrderRef(nextId), session))
     \/ UNCHANGED orders
  /\ UNCHANGED <<loginCall, status, base, session, front, asked, wire, told>>

(* Fault: the id is sent as the ref.                                       *)
CancelNamesById(id) == {k \in DOMAIN orders : orders[k].tag = id /\ orders[k].session = session}

(* The order that a cancel names: by its ref and the current session.      *)
CancelNames(id) ==
  {k \in DOMAIN orders : orders[k].tag = GetOrderRef(id) /\ orders[k].session = session}

CancelOrder(id) ==
  /\ LoggedIn /\ front.connected /\ id < nextId
  /\ \E k \in CancelNames(id) :
       /\ orders[k].cancel = "no"
       /\ orders' = [orders EXCEPT ![k].cancel = "asked"]
  /\ UNCHANGED <<loginCall, status, base, session, nextId, front, asked, wire, told>>

(* A ReqOrderAction that names no order or a dead one: the OMS is not told.*)
OnRspOrderAction ==
  /\ Answer("orderAction", FALSE)
  /\ UNCHANGED <<loginCall, status, base, session, nextId, front, asked, orders, told>>

OnRspOrderInsert ==
  /\ wire # <<>> /\ Head(wire).kind = "rspOrderInsert"
  /\ LET m == Head(wire)
     IN  told' = Append(told, Told(GetOrderId(orders[m.about].tag), "rejected", 0, m.about))
  /\ wire' = Tail(wire)
  /\ UNCHANGED <<loginCall, status, base, session, nextId, front, asked, orders>>

(* Fault: a rejection falls through to the cancels.                        *)
OrderReportsFallThrough(m) ==
  LET rsp(kind, volume) == <<Told(GetOrderId(orders[m.about].tag), kind, volume, m.about)>>
  IN  (IF m.submit = "insertRejected" THEN rsp("rejected", 0) ELSE <<>>)
      \o (IF m.state = "canceled" THEN rsp("canceled", Volume - m.traded) ELSE <<>>)

(* What OnRtnOrder tells the OMS: nothing while a request is only          *)
(* submitted, unless the order is cancelled already.                       *)
OrderReports(m) ==
  LET rsp(kind, volume) == <<Told(GetOrderId(orders[m.about].tag), kind, volume, m.about)>>
  IN  CASE m.submit = "insertRejected" -> rsp("rejected", 0)
        [] m.submit = "cancelRejected" -> rsp("cancelRejected", 0)
        [] m.submit = "insertSubmitted" /\ m.state # "canceled" -> <<>>
        [] m.submit = "cancelSubmitted" -> <<>>
        [] m.submit = "accepted" \/ (m.submit = "insertSubmitted" /\ m.state = "canceled") ->
             CASE m.state \in {"canceled", "partTradedNotQueueing"} ->
                    rsp("canceled", Volume - m.traded)
               [] m.state = "noTradeQueueing" -> rsp("accepted", 0)
               [] m.state \in {"unknown", "partTradedQueueing", "allTraded"} -> <<>>

OnRtnOrder ==
  /\ wire # <<>> /\ Head(wire).kind = "rtnOrder"
  /\ told' = told \o OrderReports(Head(wire))
  /\ wire' = Tail(wire)
  /\ UNCHANGED <<loginCall, status, base, session, nextId, front, asked, orders>>

OnRtnTrade ==
  /\ wire # <<>> /\ Head(wire).kind = "rtnTrade"
  /\ LET m == Head(wire)
     IN  told' = Append(told, Told(GetOrderId(orders[m.about].tag), "traded", m.volume, m.about))
  /\ wire' = Tail(wire)
  /\ UNCHANGED <<loginCall, status, base, session, nextId, front, asked, orders>>

-----------------------------------------------------------------------------
(* The front (external).                                                   *)

FrontConnects ==
  /\ ~ front.connected
  /\ front' = [front EXCEPT !.connected = TRUE]
  /\ wire' = Append(wire, [kind |-> "connected"])
  /\ UNCHANGED <<client, asked, orders>>

FrontDrops ==
  /\ front.connected /\ front.drops < MaxDisconnects
  /\ front' = [front EXCEPT !.connected = FALSE, !.drops = @ + 1]
  /\ wire' = <<[kind |-> "disconnected"]>>
  /\ asked' = "nothing"
  /\ UNCHANGED <<client, orders>>

MaxOrderRef == Max({0} \union {orders[k].tag : k \in DOMAIN orders})

FrontAnswers ==
  /\ front.connected /\ asked # "nothing"
  /\ asked' = "nothing"
  /\ \E ok \in BOOLEAN :
       wire' = Append(wire,
         IF asked = "login" /\ ok
         THEN [kind |-> "answer", to |-> asked, ok |-> ok,
               session |-> front.sessions + 1, maxRef |-> MaxOrderRef]
         ELSE [kind |-> "answer", to |-> asked, ok |-> ok,
               list |-> {k \in DOMAIN orders : orders[k].state = "queueing"}])
  /\ front' = [front EXCEPT !.sessions = IF asked = "login" THEN @ + 1 ELSE @]
  /\ UNCHANGED <<client, orders>>

(* Reports are only sent to a client that is logged in.                    *)
Online == front.connected /\ session = front.sessions /\ session > 0

RtnOrder(k, submit, state, traded) ==
  [kind |-> "rtnOrder", about |-> k, submit |-> submit, state |-> state, traded |-> traded]

BrokerSays(messages) == wire' = IF Online THEN wire \o messages ELSE wire

BrokerTakes(k) ==
  /\ orders[k].state = "sent"
  /\ \E submit \in {"accepted", "insertRejected", "front", "ioc"} :
       /\ orders' = [orders EXCEPT ![k].state =
            CASE submit = "accepted" -> "queueing"
              [] submit = "ioc" -> "canceled"
              [] submit \in {"insertRejected", "front"} -> "rejected"]
       /\ BrokerSays(
            CASE submit = "accepted" ->
                   <<RtnOrder(k, "insertSubmitted", "unknown", 0),
                     RtnOrder(k, "accepted", "noTradeQueueing", 0)>>
              [] submit = "insertRejected" -> <<RtnOrder(k, "insertRejected", "canceled", 0)>>
              [] submit = "ioc" -> <<RtnOrder(k, "insertSubmitted", "canceled", 0)>>
              [] submit = "front" -> <<[kind |-> "rspOrderInsert", about |-> k]>>)
  /\ UNCHANGED <<client, front, asked>>

BrokerTrades(k, volume) ==
  /\ orders[k].state = "queueing" /\ volume <= Volume - orders[k].traded
  /\ orders' = [orders EXCEPT ![k] = BrokerFilled(@, volume)]
  /\ BrokerSays(<<RtnOrder(k, "accepted",
                           IF orders'[k].state = "traded" THEN "allTraded" ELSE "partTradedQueueing",
                           orders'[k].traded),
                  [kind |-> "rtnTrade", about |-> k, volume |-> volume]>>)
  /\ UNCHANGED <<client, front, asked>>

BrokerCancels(k) ==
  /\ orders[k].cancel = "asked"
  /\ \E ok \in BOOLEAN :
       /\ ok => orders[k].state = "queueing"
       /\ orders' = [orders EXCEPT ![k].cancel = "answered",
                                   ![k].state = IF ok THEN "canceled" ELSE @]
       /\ BrokerSays(
            IF ok THEN <<RtnOrder(k, "cancelSubmitted", "noTradeQueueing", orders[k].traded),
                         RtnOrder(k, "accepted", "canceled", orders[k].traded)>>
            ELSE IF orders[k].state = "queueing"
                 THEN <<RtnOrder(k, "cancelRejected", "noTradeQueueing", orders[k].traded)>>
                 ELSE <<[kind |-> "answer", to |-> "orderAction", ok |-> FALSE]>>)
  /\ UNCHANGED <<client, front, asked>>

Requests == {"authenticate", "login", "settlement", "confirm", "orders"}

Login == LeaveLoop \/ LookAgain

Callback ==
  \/ OnFrontConnected \/ OnFrontDisconnected
  \/ \E what \in Requests : OnRspFailed(what)
  \/ OnRspAuthenticate \/ OnRspUserLogin \/ OnRspQrySettlementInfo
  \/ OnRspSettlementInfoConfirm \/ OnRspQryOrder
  \/ OnRspOrderAction \/ OnRspOrderInsert \/ OnRtnOrder \/ OnRtnTrade

BrokerStep ==
  /\ Len(wire) <= MaxWire
  /\ \E k \in DOMAIN orders :
       BrokerTakes(k) \/ BrokerCancels(k) \/ \E v \in 1 .. Volume : BrokerTrades(k, v)

Next ==
  \/ Login \/ Callback
  \/ SendOrder \/ \E id \in 1 .. MaxOrders : CancelOrder(id)
  \/ FrontConnects \/ FrontDrops \/ FrontAnswers \/ BrokerStep

Spec == Init /\ [][Next]_vars

(* The threads run, the library reconnects and the front answers.  Nothing *)
(* is assumed of the broker's trades and of the connection's drops.        *)
FairSpec ==
  Spec /\ WF_vars(Login) /\ WF_vars(Callback) /\ WF_vars(FrontConnects)
       /\ WF_vars(FrontAnswers)

-----------------------------------------------------------------------------
TypeOK ==
  /\ loginCall \in {"waits", "looks", "true", "false"}
  /\ status \in {-1, 0, 1}
  /\ {base, session} \subseteq Nat
  /\ orders \in Seq(BrokerOrder)
  /\ asked \in Requests \union {"nothing"}

(* As long as the connection lasts, what carries the id of an order of     *)
(* this run is about that order.  A login moves order_ref_base_, and an    *)
(* order sent between the front's answer and OnRspUserLogin has a ref of   *)
(* the old base that may be the new base's ref of an older order.          *)
OnlyOwnReports == NoForeignReports(told, orders, 1 .. MaxOrders)

(* Reports about the orders of an earlier run never get the id of an order *)
(* of this run, however often the session is replaced (get_order_id of a   *)
(* ref below the base wraps around).                                       *)
LeftoversKeptOut ==
  \A i \in DOMAIN told :
    told[i].id \in 1 .. MaxOrders => orders[told[i].about].id > 0

(* The OMS's counters: one end, trades within the order, the cancelled     *)
(* volume what the trades leave; rejections, immediate cancels and answers *)
(* to cancel requests all pass OnRtnOrder's filter rightly.                *)
ReportsAreSound == LivesAreSound(told, orders)

(* The developer documentation: a report's order_ref gives its order_id.   *)
RefGivesId == ReportsHaveIds(told, orders)

(* The OMS cancels an order by calling CancelOrder with its id: as long as *)
(* the broker has the order, the request names it.                         *)
CancelFindsOrder ==
  LoggedIn =>
    \A k \in DOMAIN orders :
      orders[k].id > 0 /\ Alive(orders[k]) /\ status = 1 => CancelNames(orders[k].id) = {k}

(* Login returns, whatever fails during it and however the connection      *)
(* drops between its two looks at status_.                                 *)
LoginReturns == <>(loginCall \in {"true", "false"})

(* After the callbacks have seen the last drop the session comes back, or  *)
(* one of its steps has failed.                                            *)
SessionComesBack == <>[](status # 0)

=============================================================================
