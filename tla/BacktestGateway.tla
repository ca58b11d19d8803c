-------------------------- MODULE BacktestGateway --------------------------
(***************************************************************************)
(* BacktestGateway with one of its match engines: orders and cancels of    *)
(* the OMS, ticks of the data feed, a virtual account and positions.       *)
(*                                                                         *)
(* SendOrder, CancelOrder and OnNotify are called by the OMS's main loop,  *)
(* which is also the thread that takes the reports from the ring: a call   *)
(* that has more to report than the ring has room for never returns, and   *)
(* neither does one whose loop does not end.  The timer thread asks for    *)
(* the account without the lock.                                           *)
(***************************************************************************)
EXTENDS AdvancedMatchEngine

CONSTANTS
  Engine,        \* "simple" or "advanced"
  Requests,      \* what the OMS may send: orders without their id
  Ticks,         \* the ticks the data feed may hold
  InitHoldings,  \* positions before the first order, by side
  InitCash,
  MaxOrders,     \* bound: orders sent
  MaxTicks,      \* bound: length of the data feed
  MaxQueries,    \* bound: account queries of the timer thread
  RspRingSize    \* bound: capacity of the response ring (1024 in the code)

BacktestAssumption ==
  /\ Engine \in {"simple", "advanced"}
  /\ Ticks \subseteq Tick
  /\ {InitCash, MaxOrders, MaxTicks, MaxQueries} \subseteq Nat
  /\ RspRingSize \in Nat \ {0}

VARIABLES
  nextId,     \* the OMS's order ids
  fed,        \* data_cursor_: ticks fed
  tick,       \* current_ticks_, and ticks_ of the engine
  book,       \* the engine's resting orders
  index,      \* id_price_map_ of the advanced engine
  account,    \* fund_calculator_
  positions,  \* pos_calculator_: a PositionDetail for each side
  ring,       \* reports to the OMS
  sent,       \* orders the OMS has in its map or had there
  ends,       \* how many reports of an order's end the OMS has read
  mainLoop,   \* "runs", "loops" in CancelOrder or "blocks" on the full ring
  query       \* the timer thread's copy of the account, and queries done

vars == <<nextId, fed, tick, book, index, account, positions, ring, sent,
          ends, mainLoop, query>>

Init ==
  /\ nextId = 1
  /\ fed = 0
  /\ tick = NoTick
  /\ book = {}
  /\ index = <<>>
  /\ account = [cash |-> InitCash, margin |-> 0, frozen |-> 0]
  /\ positions = [d \in Directions |-> [holdings |-> InitHoldings[d], yd |-> 0,
                                        openPending |-> 0, closePending |-> 0]]
  /\ ring = <<>>
  /\ sent = {}
  /\ ends = [id \in 1 .. MaxOrders |-> 0]
  /\ mainLoop = "runs"
  /\ query = [copy |-> <<>>, done |-> 0]

-----------------------------------------------------------------------------
(* FundCalculator, for contracts of size 1.                                *)

MarketQuote(t) ==
  IF t.last > 0 THEN t.last
  ELSE IF t.ask[1] > 0 /\ t.bid[1] > 0 THEN (t.ask[1] + t.bid[1]) \div 2
  ELSE IF t.ask[1] > 0 THEN t.ask[1] ELSE t.bid[1]

CheckFund(a, o) == IsOffsetOpen(o.offset) => a.cash >= o.volume * o.price

FundPending(a, o, changed) ==
  IF IsOffsetOpen(o.offset)
  THEN [a EXCEPT !.cash = @ - changed * o.price, !.frozen = @ + changed * o.price]
  ELSE a

(* Fault: the order's frozen money is given back at the trade's price.     *)
FundFilledAtTradePrice(a, o, volume, price, t) ==
  IF IsOffsetOpen(o.offset)
  THEN [cash   |-> a.cash,
        margin |-> a.margin + volume * MarketQuote(t),
        frozen |-> a.frozen - volume * price]
  ELSE [a EXCEPT !.margin = @ - volume * MarketQuote(t), !.cash = @ + volume * price]

FundFilled(a, o, volume, price, t) ==
  IF IsOffsetOpen(o.offset)
  THEN [cash   |-> a.cash + volume * o.price - volume * price,
        margin |-> a.margin + volume * MarketQuote(t),
        frozen |-> a.frozen - volume * o.price]
  ELSE [a EXCEPT !.margin = @ - volume * MarketQuote(t), !.cash = @ + volume * price]

UpdatePrice(a, holdings, old, new) ==
  LET changed == holdings * (MarketQuote(new) - MarketQuote(old))
  IN  [a EXCEPT !.margin = @ + changed, !.cash = @ - changed]

-----------------------------------------------------------------------------
(* The gateway as the engine's listener: each event is booked, then put on *)
(* the ring.                                                               *)

PositionsPending(p, o, changed) ==
  [p EXCEPT ![SideOf(o)] = PendingDetail(@, o.offset, changed)]

(* Fault: a cancel does not give back the pending volume.                  *)
BookEventNoCancel(s, e) ==
  IF e.kind = "traded"
  THEN [account   |-> FundFilled(s.account, e.order, e.volume, e.price, s.tick),
        positions |-> [s.positions EXCEPT ![SideOf(e.order)] =
                         TradedDetail(@, e.order.offset, e.volume)],
        tick      |-> s.tick]
  ELSE s

BookEvent(s, e) ==
  CASE e.kind = "traded" ->
         [account   |-> FundFilled(s.account, e.order, e.volume, e.price, s.tick),
          positions |-> [s.positions EXCEPT ![SideOf(e.order)] =
                           TradedDetail(@, e.order.offset, e.volume)],
          tick      |-> s.tick]
    [] e.kind \in {"canceled", "rejected"} ->
         [account   |-> FundPending(s.account, e.order, - e.volume),
          positions |-> PositionsPending(s.positions, e.order, - e.volume),
          tick      |-> s.tick]
    [] e.kind \in {"accepted", "cancelRejected"} -> s

Rsp(e) == [kind |-> e.kind, id |-> e.order.id, volume |-> e.volume, price |-> e.price]

(* What is left of a call when it has to wait for room on the ring: the    *)
(* event it waits with is booked already.                                  *)
Report(events, a, p, t) ==
  LET room    == RspRingSize - Len(ring)
      blocks  == Len(events) > room
      handled == IF blocks THEN SubSeq(events, 1, room + 1) ELSE events
      put     == IF blocks THEN SubSeq(events, 1, room) ELSE events
      s       == FoldLeft(BookEvent, [account |-> a, positions |-> p, tick |-> t], handled)
  IN  /\ account' = s.account
      /\ positions' = s.positions
      /\ ring' = ring \o [i \in DOMAIN put |-> Rsp(put[i])]
      /\ mainLoop' = IF blocks THEN "blocks" ELSE "runs"

EngineInsert(o) ==
  IF Engine = "simple"
  THEN LET r == SimpleInsert(book, o, tick) IN Outcome(r.book, index, r.events)
  ELSE AdvancedInsert(book, index, o, tick)

EngineCancel(id) ==
  IF Engine = "simple"
  THEN LET r == SimpleCancel(book, id) IN Outcome(r.book, index, r.events)
  ELSE AdvancedCancel(book, index, id)

EngineOnNewTick(t) ==
  IF Engine = "simple"
  THEN LET r == SimpleOnNewTick(book, t) IN Outcome(r.book, index, r.events)
  ELSE AdvancedOnNewTick(book, index, tick, t)

-----------------------------------------------------------------------------
CheckOrder(o) ==
  /\ o.type # "market" /\ o.price > 0 /\ o.volume > 0
  /\ CheckFund(account, o)
  /\ IsOffsetClose(o.offset) =>
       LET d == positions[SideOf(o)] IN d.holdings - d.closePending >= o.volume

NewOrder(req) ==
  [id |-> nextId, direction |-> req.direction, offset |-> req.offset,
   type |-> req.type, price |-> req.price, volume |-> req.volume]

(* An order that does not pass leaves everything as it was; InsertOrder    *)
(* knows every type that passes.                                           *)
SendOrder(req) ==
  LET o == NewOrder(req)
      r == EngineInsert(o)
  IN  /\ mainLoop = "runs" /\ nextId <= MaxOrders
      /\ nextId' = nextId + 1
      /\ IF CheckOrder(o)
         THEN /\ Report(r.events, FundPending(account, o, o.volume),
                        PositionsPending(positions, o, o.volume), tick)
              /\ book' = r.book /\ index' = r.index
              /\ sent' = sent \union {nextId}
         ELSE UNCHANGED <<account, positions, ring, mainLoop, book, index, sent>>
      /\ UNCHANGED <<fed, tick, ends, query>>

(* The OMS cancels an order from its map: one that was sent and whose end  *)
(* it has not read yet.                                                    *)
EndKinds == {"traded", "canceled", "rejected"}

CancelOrder(id) ==
  LET r == EngineCancel(id)
  IN  /\ mainLoop = "runs" /\ id \in sent /\ ends[id] = 0
      /\ IF Engine = "advanced" /\ CancelLoops(book, index, id)
         THEN /\ mainLoop' = "loops"
              /\ index' = Unindexed(index, {id})
              /\ UNCHANGED <<book, account, positions, ring>>
         ELSE /\ Report(r.events, account, positions, tick)
              /\ book' = r.book /\ index' = r.index
      /\ UNCHANGED <<nextId, fed, tick, sent, ends, query>>

(* OnNotify: the feed's next tick, if there is one.                        *)
Feed ==
  /\ mainLoop = "runs" /\ fed < MaxTicks
  /\ fed' = fed + 1

OnDataFeed(t) ==
  LET r        == EngineOnNewTick(t)
      holdings == positions["buy"].holdings + positions["sell"].holdings
      priced   == IF positions["buy"].holdings > 0 \/ positions["sell"].holdings > 0
                  THEN UpdatePrice(account, holdings, tick, t) ELSE account
  IN  /\ Feed
      /\ tick' = t
      /\ Report(r.events, priced, positions, t)
      /\ book' = r.book /\ index' = r.index
      /\ UNCHANGED <<nextId, sent, ends, query>>

ProcessRsp ==
  /\ mainLoop = "runs" /\ ring # <<>>
  /\ ends' = [ends EXCEPT ![Head(ring).id] = IF Head(ring).kind \in EndKinds THEN @ + 1 ELSE @]
  /\ ring' = Tail(ring)
  /\ UNCHANGED <<nextId, fed, tick, book, index, account, positions, sent, mainLoop, query>>

(* QueryAccount copies the account field by field, in an order the         *)
(* compiler chooses, and does not take the lock.                           *)
QueryAccount(field) ==
  /\ query.done < MaxQueries /\ field \notin DOMAIN query.copy
  /\ query' = [query EXCEPT !.copy =
                 [f \in DOMAIN @ \union {field} |-> IF f = field THEN account[f] ELSE @[f]]]
  /\ UNCHANGED <<nextId, fed, tick, book, index, account, positions, ring, sent, ends,
                 mainLoop>>

OnQueryAccountEnd ==
  /\ DOMAIN query.copy = DOMAIN account
  /\ query' = [copy |-> <<>>, done |-> query.done + 1]
  /\ UNCHANGED <<nextId, fed, tick, book, index, account, positions, ring, sent, ends,
                 mainLoop>>

Next ==
  \/ \E req \in Requests : SendOrder(req)
  \/ \E id \in 1 .. MaxOrders : CancelOrder(id)
  \/ \E t \in Ticks : OnDataFeed(t)
  \/ ProcessRsp
  \/ \E f \in DOMAIN account : QueryAccount(f)
  \/ OnQueryAccountEnd

Spec == Init /\ [][Next]_vars

-----------------------------------------------------------------------------
Resting == IF Engine = "simple" THEN book ELSE {x.order : x \in book}

OpenOn(side) == {o \in Resting : ~ IsOffsetClose(o.offset) /\ SideOf(o) = side}
CloseOn(side) == {o \in Resting : IsOffsetClose(o.offset) /\ SideOf(o) = side}
VolumeOf(orders) == MapThenSumSet(LAMBDA o : o.volume, orders)

TypeOK ==
  /\ nextId \in 1 .. MaxOrders + 1
  /\ Resting \subseteq EngineOrder
  /\ DOMAIN index \subseteq 1 .. MaxOrders
  /\ positions \in [Directions -> PositionDetail]
  /\ account \in [cash : Int, margin : Int, frozen : Int]
  /\ Len(ring) <= RspRingSize
  /\ mainLoop \in {"runs", "loops", "blocks"}

(* An order the gateway took has one end: it rests, or one report said     *)
(* that it was executed, cancelled or rejected.                            *)
OrderEndsOnce ==
  mainLoop = "runs" =>
    \A id \in sent :
      ends[id] + Cardinality({i \in DOMAIN ring : ring[i].id = id /\ ring[i].kind \in EndKinds})
               + Cardinality({o \in Resting : o.id = id}) = 1

(* The gateway's own counters of pending volume, kept by its calls and by  *)
(* the engine's callbacks, are those of the resting orders.                *)
PendingIsResting ==
  mainLoop = "runs" =>
    \A d \in Directions :
      /\ positions[d].openPending = VolumeOf(OpenOn(d))
      /\ positions[d].closePending = VolumeOf(CloseOn(d))

(* Money is frozen for the resting orders that open positions, each at its *)
(* price, and for nothing else (the comment on Account says that orders    *)
(* not executed yet have money reserved).                                  *)
FrozenIsResting ==
  mainLoop = "runs" =>
    account.frozen = MapThenSumSet(LAMBDA o : IF IsOffsetOpen(o.offset)
                                              THEN o.price * o.volume ELSE 0, Resting)

(* All closing orders together never ask for more than is held: the orders *)
(* that pass CheckOrder one after the other trade in any order later.      *)
CloseWithinHoldings ==
  \A d \in Directions : positions[d].closePending <= positions[d].holdings

(* The simple engine leaves no order resting that the current tick would   *)
(* match, whether it came before or after the tick.                        *)
NothingLeftToMatch ==
  Engine = "simple" => \A o \in book : ~ SimpleMatches(o, tick)

(* The two places marked "bug" in CancelOrder are not reached: the index   *)
(* knows exactly the resting orders, at the price they rest at.            *)
CancelFindsLevel ==
  Engine = "advanced" /\ mainLoop = "runs" =>
    /\ DOMAIN index = {o.id : o \in Resting}
    /\ \A id \in DOMAIN index : ~ CancelAborts(book, index, id)

(* Of two orders at a price the one further back in the queue does not     *)
(* trade while the other one is left, and no order moves backwards.        *)
QueueIsFair ==
  [][OnDataFeed(tick') =>
       \A x, y \in book : Engine = "advanced" =>
         /\ \A z \in book' : z.order = x.order => z.queue \in 0 .. x.queue
         /\ (/\ x.order.direction = y.order.direction /\ x.order.price = y.order.price
             /\ x.queue <= y.queue /\ \E z \in book' : z.order = x.order)
            => \E z \in book' : z.order = y.order]_vars

(* What the comments on the last two loops of OnNewTick say: after a tick  *)
(* sell orders below the bid and buy orders above the ask are executed.    *)
TickLeavesNoCross ==
  [][fed' = fed + 1 /\ mainLoop' = "runs" =>
       \A o \in {x.order : x \in book'} : ~ AdvancedMatches(o, tick')]_vars

(* The OMS calls CancelOrder to cancel an order: the call ends.            *)
CancelReturns == mainLoop # "loops"

(* Total assets are cash, margin and frozen money, in what the timer       *)
(* thread has copied of the account too.                                   *)
AccountAddsUp ==
  DOMAIN query.copy = DOMAIN account =>
    query.copy["cash"] + query.copy["margin"] + query.copy["frozen"] = InitCash

=============================================================================
