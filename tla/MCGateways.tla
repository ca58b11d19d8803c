---------------------------- MODULE MCGateways -----------------------------
(***************************************************************************)
(* The gateways for TLC: CtpTradeApi and XtpTradeApi for orders, Quotes    *)
(* for market data, and StubGateway.  They share no state in the code, so  *)
(* a behaviour is of one instance, the subject, and the other modules stay *)
(* in their first state.                                                   *)
(***************************************************************************)
EXTENDS Integers, Sequences, FiniteSets, TLC

CONSTANTS
  Subjects

VARIABLES
  subject,  \* the instance this behaviour is of
  loginCall, status, base, session, nextId, front, asked, wire, orders, told,
  xtpLoginCall, xtpStatus, xtpSession, xtpNextId, xtpLibrary, xtpAsked,
  xtpWire, xtpOrders, xtpTold,
  sent, order_map, cancels, rsp_rb, heard, running, tick, logout,
  conf, main, dispatch, subs, quoteStatus, quoteSession, subscribed, day,
  delivered, ring, journal, drops

ctpVars == <<loginCall, status, base, session, nextId, front, asked, wire,
             orders, told>>
xtpVars == <<xtpLoginCall, xtpStatus, xtpSession, xtpNextId, xtpLibrary,
             xtpAsked, xtpWire, xtpOrders, xtpTold>>
stubVars == <<sent, order_map, cancels, rsp_rb, heard, running, tick, logout>>
quoteVars == <<conf, main, dispatch, subs, quoteStatus, quoteSession,
               subscribed, day, delivered, ring, journal, drops>>
vars == <<subject, ctpVars, xtpVars, stubVars, quoteVars>>

(* Two strategies with a ticker in common, lists with a ticker twice, an   *)
(* empty one and one that is not listed.                                   *)
Subscriptions ==
  {<<<<"a", "b", "a">>, <<"b">>>>, <<<<"a">>, <<>>>>, <<<<"b">>, <<"x">>>>}

CtpOrders == INSTANCE CtpTradeApi WITH
  RefModulus <- 64, MaxOrders <- 2, Volume <- 2, CancelOutstanding <- FALSE,
  Leftovers <- 0, MaxDisconnects <- 0, MaxWire <- 1
CtpSessions == INSTANCE CtpTradeApi WITH
  RefModulus <- 64, MaxOrders <- 1, Volume <- 1, CancelOutstanding <- TRUE,
  Leftovers <- 1, MaxDisconnects <- 2, MaxWire <- 0
CtpLogin == INSTANCE CtpTradeApi WITH
  RefModulus <- 64, MaxOrders <- 0, Volume <- 1, CancelOutstanding <- TRUE,
  Leftovers <- 1, MaxDisconnects <- 2, MaxWire <- 0
XtpOrders == INSTANCE XtpTradeApi WITH
  loginCall <- xtpLoginCall, status <- xtpStatus, session <- xtpSession,
  nextId <- xtpNextId, library <- xtpLibrary, asked <- xtpAsked,
  wire <- xtpWire, orders <- xtpOrders, told <- xtpTold,
  CancelOutstanding <- TRUE, Leftovers <- 1, MaxDrops <- 1, MaxWire <- 0,
  MaxOrders <- 2, Volume <- 1
XtpFills == INSTANCE XtpTradeApi WITH
  loginCall <- xtpLoginCall, status <- xtpStatus, session <- xtpSession,
  nextId <- xtpNextId, library <- xtpLibrary, asked <- xtpAsked,
  wire <- xtpWire, orders <- xtpOrders, told <- xtpTold,
  CancelOutstanding <- TRUE, Leftovers <- 1, MaxDrops <- 1, MaxWire <- 0,
  MaxOrders <- 1, Volume <- 2
Stub == INSTANCE StubGateway WITH
  MaxOrders <- 3, MaxCancels <- 3, Tickers <- 2
CtpQuotes == INSTANCE Quotes WITH
  status <- quoteStatus, session <- quoteSession,
  Exchange <- ("a" :> "SSE" @@ "b" :> "SZE"), Dates <- {1, 2},
  RspErrors <- FALSE, MaxDrops <- 1, Capacity <- 2, Api <- "ctp",
  Configs <- Subscriptions, Leftovers <- {0, 7}, MaxTicks <- 4
XtpQuotes == INSTANCE Quotes WITH
  status <- quoteStatus, session <- quoteSession,
  Exchange <- ("a" :> "SSE" @@ "b" :> "SZE"), Dates <- {1, 2},
  RspErrors <- FALSE, MaxDrops <- 1, Capacity <- 2, Api <- "xtp",
  Configs <- Subscriptions, Leftovers <- {0, 7}, MaxTicks <- 4
QuoteLogin == INSTANCE Quotes WITH
  status <- quoteStatus, session <- quoteSession,
  Exchange <- ("a" :> "SSE" @@ "b" :> "SZE"), Dates <- {1, 2},
  RspErrors <- FALSE, MaxDrops <- 1, Capacity <- 2, Api <- "ctp",
  Configs <- {<<<<"a">>>>}, Leftovers <- {0}, MaxTicks <- 1

(* What the modules assume of their constants. *)
ASSUME InstancesAssumption ==
  /\ CtpOrders!BrokerAssumption
  /\ CtpOrders!CtpAssumption
  /\ CtpSessions!BrokerAssumption
  /\ CtpSessions!CtpAssumption
  /\ CtpLogin!BrokerAssumption
  /\ CtpLogin!CtpAssumption
  /\ XtpOrders!BrokerAssumption
  /\ XtpOrders!XtpAssumption
  /\ XtpFills!BrokerAssumption
  /\ XtpFills!XtpAssumption
  /\ Stub!StubAssumption
  /\ CtpQuotes!QuotesAssumption
  /\ XtpQuotes!QuotesAssumption
  /\ QuoteLogin!QuotesAssumption

CtpInit ==
  \/ subject = "ctp orders" /\ CtpOrders!Init
  \/ subject = "ctp sessions" /\ CtpSessions!Init
  \/ subject = "ctp login" /\ CtpLogin!Init
  \/ subject \notin {"ctp orders", "ctp sessions", "ctp login"} /\ CtpLogin!Init
CtpNext ==
  \/ subject = "ctp orders" /\ CtpOrders!Next
  \/ subject = "ctp sessions" /\ CtpSessions!Next
  \/ subject = "ctp login" /\ CtpLogin!Next

XtpInit ==
  \/ subject = "xtp orders" /\ XtpOrders!Init
  \/ subject = "xtp fills" /\ XtpFills!Init
  \/ subject \notin {"xtp orders", "xtp fills"} /\ XtpFills!Init
XtpNext ==
  \/ subject = "xtp orders" /\ XtpOrders!Next
  \/ subject = "xtp fills" /\ XtpFills!Next

StubInit ==
  \/ subject = "stub" /\ Stub!Init
  \/ subject \notin {"stub"} /\ Stub!Init
StubNext ==
  \/ subject = "stub" /\ Stub!Next

QuoteInit ==
  \/ subject = "ctp quotes" /\ CtpQuotes!Init
  \/ subject = "xtp quotes" /\ XtpQuotes!Init
  \/ subject = "ctp quote login" /\ QuoteLogin!Init
  \/ subject \notin {"ctp quotes", "xtp quotes", "ctp quote login"} /\ QuoteLogin!Init
QuoteNext ==
  \/ subject = "ctp quotes" /\ CtpQuotes!Next
  \/ subject = "xtp quotes" /\ XtpQuotes!Next
  \/ subject = "ctp quote login" /\ QuoteLogin!Next

Init ==
  /\ subject \in Subjects
  /\ CtpInit
  /\ XtpInit
  /\ StubInit
  /\ QuoteInit

Next ==
  /\ UNCHANGED subject
  /\ \/ CtpNext /\ UNCHANGED <<xtpVars, stubVars, quoteVars>>
     \/ XtpNext /\ UNCHANGED <<ctpVars, stubVars, quoteVars>>
     \/ StubNext /\ UNCHANGED <<ctpVars, xtpVars, quoteVars>>
     \/ QuoteNext /\ UNCHANGED <<ctpVars, xtpVars, stubVars>>

Spec == Init /\ [][Next]_vars

(* The main thread in Login and Logout, and the libraries' threads run;    *)
(* the fronts answer and a lost connection is made again.                  *)
FairSpec ==
  /\ Spec
  /\ WF_ctpVars(subject = "ctp login" /\ CtpLogin!Login)
  /\ WF_ctpVars(subject = "ctp login" /\ CtpLogin!Callback)
  /\ WF_ctpVars(subject = "ctp login" /\ CtpLogin!FrontConnects)
  /\ WF_ctpVars(subject = "ctp login" /\ CtpLogin!FrontAnswers)
  /\ WF_xtpVars(subject = "xtp fills" /\ XtpFills!Login)
  /\ WF_xtpVars(subject = "xtp fills" /\ XtpFills!Callback)
  /\ WF_xtpVars(subject = "xtp fills" /\ XtpFills!LibraryAnswers)
  /\ WF_stubVars(subject = "stub" /\ Stub!ProcessRsp)
  /\ WF_stubVars(subject = "stub" /\ Stub!GenerateTickData)
  /\ WF_stubVars(subject = "stub" /\ Stub!Join)
  /\ WF_quoteVars(subject = "ctp quote login" /\ QuoteLogin!Main)
  /\ WF_quoteVars(subject = "ctp quote login" /\ QuoteLogin!LoginCallbacks)
  /\ WF_quoteVars(subject = "ctp quote login" /\ QuoteLogin!ProcessTick)

(* The OMS's counters hold whatever the broker sends: an order ends once,  *)
(* its trades are within its volume and its cancelled volume is what they  *)
(* leave; what carries the id of an order of this run is about that order  *)
(* as long as the connection lasts, and never about one that an earlier    *)
(* run or another session left in the market, even when it does not; and a *)
(* cancel that finds the order traded says nothing of it (OnRtnOrder,      *)
(* OnRtnTrade, OnOrderEvent, StubGateway::CancelOrder).                    *)
ReportsAreSound ==
  /\ subject = "ctp orders" =>
       CtpOrders!TypeOK /\ CtpOrders!OnlyOwnReports /\ CtpOrders!ReportsAreSound
  /\ subject = "ctp sessions" =>
       CtpSessions!LeftoversKeptOut /\ CtpSessions!ReportsAreSound
  /\ subject = "xtp orders" =>
       XtpOrders!TypeOK /\ XtpOrders!OnlyOwnReports /\ XtpOrders!ReportsAreSound
  /\ subject = "xtp fills" => XtpFills!OnlyOwnReports /\ XtpFills!ReportsAreSound
  /\ subject = "stub" => Stub!TypeOK /\ Stub!HeardInOrder /\ Stub!KeptUntilTraded

(* While a session lasts, CancelOrder names the order that the OMS means:  *)
(* session, front and ref are those the order was sent with.               *)
CancelFindsOrder == subject = "ctp orders" => CtpOrders!CancelFindsOrder

(* A strategy's journal and the ring hold all depth data of its tickers,   *)
(* in the order of the exchange, each once, and two ticks of one day are   *)
(* in order, whatever mktime left in the start of the day; an OMS that     *)
(* runs has all its strategies subscribed to while no connection was lost  *)
(* (OMS::InitMQ, OnTick, CtpQuoteApi::UpdateDate, XtpQuoteApi).            *)
QuotesAreKept ==
  /\ subject = "ctp quotes" =>
       CtpQuotes!TypeOK /\ CtpQuotes!JournalsExact /\ CtpQuotes!TimesInOrder
  /\ subject = "xtp quotes" => XtpQuotes!JournalsExact /\ XtpQuotes!EverySubscription

(* Login returns whatever fails during it and however the connection drops *)
(* between its two looks at status_ (XTP: unless it drops), for quotes as  *)
(* well unless OnRspError answers it (README, section 5); a CTP session    *)
(* comes back after the last drop or one of its steps has failed; the      *)
(* stub's orders are traded and its Logout joins the tick thread.          *)
CallsReturn ==
  /\ subject = "ctp login" => CtpLogin!LoginReturns /\ CtpLogin!SessionComesBack
  /\ subject = "xtp fills" => XtpFills!LoginReturns
  /\ subject = "ctp quote login" => QuoteLogin!LoginReturns
  /\ subject = "stub" => Stub!Traded /\ Stub!LogoutReturns
=============================================================================
