---------------------------- MODULE XtpTradeApi ----------------------------
(***************************************************************************)
(* XtpTradeApi: login, orders, their reports, logout.                      *)
(*                                                                         *)
(* The library's Login call returns the session, so the trader's thread    *)
(* stores session_id_ while events already reach the callbacks; after that *)
(* it waits only for the answer that lists the outstanding orders.  Each   *)
(* event names the session it belongs to; the library hands over events of *)
(* the account's other sessions as well (external).  An order is named by  *)
(* order_client_id, which is the OMS's order id and starts at 1 in every   *)
(* run; a cancel names it by the library's id, kept in privdata: its place *)
(* in the broker's book here.                                              *)
(***************************************************************************)
EXTENDS Broker

CONSTANTS
  CancelOutstanding, \* cancel_outstanding_orders_on_startup
  Leftovers,         \* orders of another session of the account
  MaxDrops,          \* bound: how often the connection is lost, 0 or 1
  MaxWire            \* bound: events under way when the broker goes on

XtpAssumption ==
  CancelOutstanding \in BOOLEAN /\ {Leftovers, MaxWire} \subseteq Nat /\ MaxDrops \in {0, 1}

VARIABLES
  loginCall,   \* where the trader's thread is in Login, and what it returned
  status,      \* status_: 1 once the outstanding orders have been listed
  session,     \* session_id_; 0 is none
  nextId,      \* the OMS's order ids
  library,     \* the library's session and its connection
  asked,       \* QueryOrders is not answered yet
  wire,        \* events on their way to the callbacks
  orders,      \* the broker's book
  told         \* reports put on the ring

vars == <<loginCall, status, session, nextId, library, asked, wire, orders, told>>

Another == 1
Ours == 2

Init ==
  /\ loginCall = "calls"
  /\ status = 0
  /\ session = 0
  /\ nextId = 1
  /\ library = [session |-> 0, up |-> FALSE, drops |-> 0]
  /\ asked = FALSE
  /\ wire = <<>>
  /\ orders = [k \in 1 .. Leftovers |->
                 [BrokerSent(0, k, Another) EXCEPT !.state = "queueing"]]
  /\ told = <<>>

-----------------------------------------------------------------------------
(* Login, on the trader's thread                                           *)

CallLogin ==
  /\ loginCall = "calls"
  /\ \/ loginCall' = "assigns" /\ library' = [library EXCEPT !.session = Ours, !.up = TRUE]
     \/ loginCall' = "false" /\ UNCHANGED library
  /\ UNCHANGED <<status, session, nextId, asked, wire, orders, told>>

QueryOrders ==
  IF library.up THEN asked' = TRUE /\ loginCall' = "waits"
                ELSE UNCHANGED asked /\ loginCall' = "false"

AssignSession ==
  /\ loginCall = "assigns"
  /\ session' = library.session
  /\ IF CancelOutstanding THEN QueryOrders ELSE loginCall' = "true" /\ UNCHANGED asked
  /\ UNCHANGED <<status, nextId, library, wire, orders, told>>

Waited ==
  /\ loginCall = "waits" /\ status # 0
  /\ loginCall' = IF status = 1 THEN "true" ELSE "false"
  /\ UNCHANGED <<status, session, nextId, library, asked, wire, orders, told>>

(* From the destructor: events still under way find session_id_ 0.         *)
Logout ==
  /\ loginCall = "true"
  /\ loginCall' = "out"
  /\ session' = 0
  /\ UNCHANGED <<status, nextId, library, asked, wire, orders, told>>

-----------------------------------------------------------------------------
(* Orders.  SendOrder refuses buy-to-close and sell-to-open and exchanges  *)
(* it does not know, and the library may refuse the rest.                  *)

SendOrder ==
  /\ loginCall = "true" /\ nextId <= MaxOrders
  /\ nextId' = nextId + 1
  /\ \/ library.up /\ orders' = Append(orders, BrokerSent(nextId, nextId, session))
     \/ UNCHANGED orders
  /\ UNCHANGED <<loginCall, status, session, library, asked, wire, told>>

CancelOrder(k) ==
  /\ loginCall = "true" /\ library.up
  /\ orders[k].id > 0 /\ orders[k].cancel = "no"
  /\ orders' = [orders EXCEPT ![k].cancel = "asked"]
  /\ UNCHANGED <<loginCall, status, session, nextId, library, asked, wire, told>>

-----------------------------------------------------------------------------
(* Callbacks                                                               *)

(* Fault: events of every session are taken.                               *)
EventAnySession(kind) == wire # <<>> /\ Head(wire).kind = kind
(* An event for this session.                                              *)
Event(kind) == wire # <<>> /\ Head(wire).kind = kind /\ Head(wire).session = session

Seen == wire' = Tail(wire)

IgnoreEvent ==
  /\ wire # <<>> /\ Head(wire).session # session
  /\ Seen
  /\ UNCHANGED <<loginCall, status, session, nextId, library, asked, orders, told>>

(* Fault: a rejection is not the end of the callback.                      *)
OrderReportsFallThrough(m) ==
  LET rsp(kind, volume) == <<Told(orders[m.about].tag, kind, volume, m.about)>>
  IN  (IF m.error THEN rsp("rejected", 0) ELSE <<>>)
      \o (IF m.status \in {"canceled", "rejected"} THEN rsp("canceled", m.left) ELSE <<>>)

(* What OnOrderEvent tells the OMS.                                        *)
OrderReports(m) ==
  LET rsp(kind, volume) == <<Told(orders[m.about].tag, kind, volume, m.about)>>
  IN  CASE m.error \/ m.status = "rejected" -> rsp("rejected", 0)
        [] ~ m.error /\ m.status = "noTradeQueueing" -> rsp("accepted", 0)
        [] ~ m.error /\ m.status \in {"canceled", "partTradedNotQueueing"} ->
             rsp("canceled", m.left)
        [] ~ m.error /\ m.status \in {"unknown", "partTradedQueueing", "allTraded"} -> <<>>

OnOrderEvent ==
  /\ Event("order") /\ Seen
  /\ told' = told \o OrderReports(Head(wire))
  /\ UNCHANGED <<loginCall, status, session, nextId, library, asked, orders>>

OnTradeEvent ==
  /\ Event("trade") /\ Seen
  /\ LET m == Head(wire)
     IN  told' = Append(told, Told(orders[m.about].tag, "traded", m.volume, m.about))
  /\ UNCHANGED <<loginCall, status, session, nextId, library, asked, orders>>

OnCancelOrderError ==
  /\ Event("cancelError") /\ Seen
  /\ UNCHANGED <<loginCall, status, session, nextId, library, asked, orders, told>>

(* The answer to QueryOrders; an error also sets status_ to 1.             *)
OnQueryOrder ==
  /\ Event("orders") /\ Seen
  /\ status' = 1
  /\ orders' = [k \in DOMAIN orders |->
                  IF ~ Head(wire).error /\ k \in Head(wire).list /\ library.up
                     /\ orders[k].cancel = "no"
                  THEN [orders[k] EXCEPT !.cancel = "asked"] ELSE orders[k]]
  /\ UNCHANGED <<loginCall, session, nextId, library, asked, told>>

-----------------------------------------------------------------------------
(* The library and the broker (external).                                  *)

LibraryDrops ==
  /\ library.up /\ library.drops < MaxDrops
  /\ library' = [library EXCEPT !.up = FALSE, !.drops = @ + 1]
  /\ wire' = <<>> /\ asked' = FALSE
  /\ UNCHANGED <<loginCall, status, session, nextId, orders, told>>

LibraryAnswers ==
  /\ library.up /\ asked
  /\ asked' = FALSE
  /\ \E error \in BOOLEAN :
       wire' = Append(wire,
         [kind |-> "orders", session |-> library.session, error |-> error,
          list |-> {k \in DOMAIN orders : orders[k].state = "queueing"}])
  /\ UNCHANGED <<loginCall, status, session, nextId, library, orders, told>>

OrderEvent(k, error, state, left) ==
  [kind |-> "order", session |-> orders[k].session, about |-> k,
   error |-> error, status |-> state, left |-> left]

BrokerSays(messages) == wire' = IF library.up THEN wire \o messages ELSE wire

BrokerTakes(k) ==
  /\ orders[k].state = "sent"
  /\ \E outcome \in {"queueing", "rejected", "canceled"} :
       /\ orders' = [orders EXCEPT ![k].state = outcome]
       /\ BrokerSays(
            CASE outcome = "queueing" -> <<OrderEvent(k, FALSE, "unknown", Volume),
                                           OrderEvent(k, FALSE, "noTradeQueueing", Volume)>>
              [] outcome = "rejected" -> <<OrderEvent(k, TRUE, "rejected", Volume)>>
              [] outcome = "canceled" -> <<OrderEvent(k, FALSE, "canceled", Volume)>>)
  /\ UNCHANGED <<loginCall, status, session, nextId, library, asked, told>>

BrokerTrades(k, volume) ==
  /\ orders[k].state = "queueing" /\ volume <= Volume - orders[k].traded
  /\ orders' = [orders EXCEPT ![k] = BrokerFilled(@, volume)]
  /\ BrokerSays(<<OrderEvent(k, FALSE,
                    IF orders'[k].state = "traded" THEN "allTraded" ELSE "partTradedQueueing",
                    Volume - orders'[k].traded),
                  [kind |-> "trade", session |-> orders[k].session, about |-> k,
                   volume |-> volume]>>)
  /\ UNCHANGED <<loginCall, status, session, nextId, library, asked, told>>

BrokerCancels(k) ==
  /\ orders[k].cancel = "asked"
  /\ \E ok \in BOOLEAN :
       /\ ok => orders[k].state = "queueing"
       /\ orders' = [orders EXCEPT ![k].cancel = "answered",
                                   ![k].state = IF ok THEN "canceled" ELSE @]
       /\ BrokerSays(
            IF ok THEN <<OrderEvent(k, FALSE,
                           IF orders[k].traded > 0 THEN "partTradedNotQueueing" ELSE "canceled",
                           Volume - orders[k].traded)>>
                  ELSE <<[kind |-> "cancelError", session |-> orders[k].session]>>)
  /\ UNCHANGED <<loginCall, status, session, nextId, library, asked, told>>

Login == CallLogin \/ AssignSession \/ Waited

Callback ==
  \/ IgnoreEvent \/ OnOrderEvent \/ OnTradeEvent \/ OnCancelOrderError \/ OnQueryOrder

BrokerStep ==
  /\ Len(wire) <= MaxWire
  /\ \E k \in DOMAIN orders :
       BrokerTakes(k) \/ BrokerCancels(k) \/ \E v \in 1 .. Volume : BrokerTrades(k, v)

Next ==
  \/ Login \/ Logout \/ Callback
  \/ SendOrder \/ \E k \in DOMAIN orders : CancelOrder(k)
  \/ LibraryDrops \/ LibraryAnswers \/ BrokerStep

Spec == Init /\ [][Next]_vars

(* The threads run and the library answers while it has a connection.      *)
FairSpec == Spec /\ WF_vars(Login) /\ WF_vars(Callback) /\ WF_vars(LibraryAnswers)

-----------------------------------------------------------------------------
TypeOK ==
  /\ loginCall \in {"calls", "assigns", "waits", "true", "false", "out"}
  /\ status \in {0, 1}
  /\ session \in IF loginCall \in {"waits", "true"} THEN {Ours}
                 ELSE IF loginCall = "false" THEN {0, Ours} ELSE {0}
  /\ orders \in Seq(BrokerOrder)

(* A report with the id of an order of this run is about that order: the   *)
(* orders other sessions of the account have with the same client ids are  *)
(* kept out, while they are cancelled at startup as well.                  *)
OnlyOwnReports == NoForeignReports(told, orders, 1 .. MaxOrders)

(* What the OMS is told of an order adds up to the order's life.           *)
ReportsAreSound == LivesAreSound(told, orders)

(* Login returns if the connection is not lost under it.                   *)
LoginReturns == <>(loginCall \in {"true", "false"} \/ library.drops > 0)

(* The configuration's cancel_outstanding_orders_on_startup: once Login    *)
(* has returned true the orders left in the market have been asked to be   *)
(* cancelled, if the connection is still there.                            *)
OutstandingCanceled ==
  loginCall = "true" /\ CancelOutstanding /\ library.up =>
    \A k \in 1 .. Leftovers : orders[k].cancel # "no" \/ ~ Alive(orders[k])

=============================================================================
