---------------------------- MODULE MCBacktest -----------------------------
(***************************************************************************)
(* The backtest gateway for TLC, with either match engine: a behaviour is  *)
(* of one of the two, the subject.                                         *)
(***************************************************************************)
EXTENDS Integers, Sequences, FiniteSets, TLC

CONSTANTS
  Subjects, stranger, common, t1

VARIABLES
  subject,  \* the instance this behaviour is of
  nextId, fed, tick, book, index, account, positions, ring, sent, ends,
  mainLoop, query

gatewayVars == <<nextId, fed, tick, book, index, account, positions, ring,
                 sent, ends, mainLoop, query>>
vars == <<subject, gatewayVars>>

Tickers == {t1}
Strategies == {}
Levels == 2

Req(dir, off, type, price, vol) ==
  [direction |-> dir, offset |-> off, type |-> type, price |-> price, volume |-> vol]

Quote(bid, ask, vol, last, volume, turnover) ==
  [last |-> last, volume |-> volume, turnover |-> turnover,
   bid |-> [l \in 1 .. Levels |-> IF bid > l - 1 THEN bid - (l - 1) ELSE 0],
   ask |-> [l \in 1 .. Levels |-> IF ask > 0 THEN ask + (l - 1) ELSE 0],
   bidVolume |-> [l \in 1 .. Levels |-> IF bid > l - 1 THEN vol ELSE 0],
   askVolume |-> [l \in 1 .. Levels |-> IF ask > 0 THEN vol ELSE 0]]

SimpleRequests ==
  { Req("buy", "open", "limit", 3, 1), Req("sell", "close", "limit", 4, 1),
    Req("sell", "open", "limit", 3, 2), Req("buy", "open", "fak", 4, 1) }

SimpleTicks ==
  { Quote(2, 4, 1, 3, 1, 3), Quote(1, 3, 1, 3, 0, 0), Quote(2, 0, 1, 0, 0, 0) }

AdvancedRequests ==
  { Req("buy", "open", "limit", 3, 1), Req("buy", "open", "limit", 2, 1),
    Req("sell", "open", "limit", 5, 1), Req("sell", "close", "best", 4, 1) }

AdvancedTicks ==
  { Quote(3, 5, 2, 4, 3, 10), Quote(2, 4, 1, 3, 3, 6), Quote(3, 5, 2, 4, 0, 0),
    Quote(4, 6, 1, 5, 5, 30), Quote(3, 0, 1, 3, 4, 12) }

(* One long lot to close and money for three orders.                       *)
InitHoldings == ("buy" :> 1 @@ "sell" :> 0)
InitCash == 12

Simple == INSTANCE BacktestGateway WITH
  Foreign <- stranger, Common <- common, Engine <- "simple",
  Requests <- SimpleRequests, Ticks <- SimpleTicks, MaxOrders <- 2,
  MaxTicks <- 2, MaxQueries <- 1, RspRingSize <- 2
Advanced == INSTANCE BacktestGateway WITH
  Foreign <- stranger, Common <- common, Engine <- "advanced",
  Requests <- AdvancedRequests, Ticks <- AdvancedTicks, MaxOrders <- 3,
  MaxTicks <- 3, MaxQueries <- 0, RspRingSize <- 3

(* What the modules assume of their constants. *)
ASSUME InstancesAssumption ==
  /\ Simple!LevelAssumption
  /\ Simple!BacktestAssumption
  /\ Advanced!LevelAssumption
  /\ Advanced!BacktestAssumption

Init ==
  /\ subject \in Subjects
  /\ \/ subject = "simple" /\ Simple!Init
     \/ subject = "advanced" /\ Advanced!Init

Next ==
  /\ UNCHANGED subject
  /\ \/ subject = "simple" /\ Simple!Next
     \/ subject = "advanced" /\ Advanced!Next

Spec == Init /\ [][Next]_vars

(* An order the gateway took rests or has had its one end; while it rests  *)
(* a cancel finds it at its price (the places marked "bug" in CancelOrder  *)
(* are not reached), and the simple engine leaves no order resting that    *)
(* the tick would match.                                                   *)
RestsUntilItEnds ==
  /\ subject = "simple" => Simple!TypeOK /\ Simple!OrderEndsOnce /\ Simple!NothingLeftToMatch
  /\ subject = "advanced" => Advanced!OrderEndsOnce /\ Advanced!CancelFindsLevel

(* The gateway's pending volume, kept by its calls and by the engine's     *)
(* callbacks, is that of the resting orders, its frozen money theirs at    *)
(* their prices, and closing orders never ask for more than is held        *)
(* (backtest_gateway.cpp: CheckOrder, OnTraded, OnCanceled).               *)
CountersAreResting ==
  /\ subject = "simple" =>
       Simple!PendingIsResting /\ Simple!FrozenIsResting /\ Simple!CloseWithinHoldings
  /\ subject = "advanced" => Advanced!PendingIsResting

(* Of two orders at a price the one further back in the queue does not     *)
(* trade while the other one is left, and no order moves backwards         *)
(* (AdvancedMatchEngine::OnNewTick).                                       *)
QueueIsFair ==
  [][subject = "advanced" /\ Advanced!OnDataFeed(tick') =>
       \A x, y \in book :
         /\ \A z \in book' : z.order = x.order => z.queue \in 0 .. x.queue
         /\ (/\ x.order.direction = y.order.direction /\ x.order.price = y.order.price
             /\ x.queue <= y.queue /\ \E z \in book' : z.order = x.order)
            => \E z \in book' : z.order = y.order]_vars
=============================================================================
