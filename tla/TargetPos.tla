----------------------------- MODULE TargetPos -----------------------------
(***************************************************************************)
(* A strategy's TargetPosEngine: on every tick it cancels the orders that  *)
(* the market has left behind and sends the orders that take the position  *)
(* to its target, counting what is still on its way.  Around it are the    *)
(* strategy's loop (a response, then a tick), its queue of commands and    *)
(* what the OMS answers to them (SendRspToStrategy).                       *)
(*                                                                         *)
(* One ticker, price limit zero.                                           *)
(***************************************************************************)
EXTENDS Integers, Sequences, FiniteSets, SequencesExt, FiniteSetsExt, Functions

CONSTANTS
  Targets,     \* what the strategy sets
  Quotes,      \* the ticks: best ask and bid, 0 for none
  MaxOrders,   \* bound of the orders sent
  MaxCancels,  \* bound of the cancels under way
  Patient,     \* is the target only changed when no order is on its way
  Rejects      \* how orders may fail: "send" (or by a risk rule), "exchange"

TargetPosAssumption ==
  /\ Targets \subseteq Int /\ MaxOrders \in Nat /\ MaxCancels \in Nat
  /\ Patient \in BOOLEAN /\ Rejects \subseteq {"send", "exchange"}

VARIABLES
  engine,  \* target_pos_, long_pos_, short_pos_, long_pending_, short_pending_, ask_, bid_
  orders,  \* orders_, by client order id
  cmds,    \* the strategy's commands, not yet executed
  live,    \* order_map_ of the OMS, by order id
  nextId,  \* next_oms_order_id_
  rsps,    \* the responses, not yet read
  open,    \* history: what is left of each order sent, as the responses read say
  base     \* history: the position when the target was set

vars == <<engine, orders, cmds, live, nextId, rsps, open, base>>

NoOrders == [id \in {} |-> 0]
Net == engine.long - engine.short
Sent == DOMAIN open

Init ==
  /\ engine = [target |-> 0, long |-> 0, short |-> 0, longPending |-> 0, shortPending |-> 0,
               ask |-> 0, bid |-> 0]
  /\ orders = NoOrders /\ cmds = <<>> /\ live = NoOrders /\ nextId = 1 /\ rsps = <<>>
  /\ open = NoOrders /\ base = 0

-----------------------------------------------------------------------------
(* The engine. *)

CancelCmd(order_id) == [type |-> "cancel", order_id |-> order_id]

OrderCmd(cid, direction, offset, volume) ==
  [type |-> "order", cid |-> cid, direction |-> direction, offset |-> offset, volume |-> volume]

\* SendOrder notes the ask for the price of every order.
PendingOrder(direction, offset, volume, ask) ==
  [order_id |-> 0, direction |-> direction, offset |-> offset, price |-> ask, volume |-> volume]

Quote(e, tick) ==
  [e EXCEPT !.ask = IF tick.ask > 0 THEN tick.ask ELSE @,
            !.bid = IF tick.bid > 0 THEN tick.bid ELSE @]

\* Known orders (with an order id) whose price the market has left.
LeftBehind(e, order) ==
  /\ order.order_id # 0
  /\ \/ order.direction = "buy" /\ order.price < e.ask
     \/ order.direction = "sell" /\ order.price > e.bid

CancelsOf(ids) ==
  LET sorted == SetToSortSeq(ids, <)
  IN [i \in 1 .. Len(sorted) |-> CancelCmd(orders[sorted[i]].order_id)]

(* Fault: what is on its way does not count. *)
GapHeld(e) == e.target - (e.long - e.short)

Gap(e) == e.target - (e.long + e.longPending - e.short - e.shortPending)

\* The orders of the other direction that are cancelled until the gap is
\* closed, in the order of their client ids, and the gap that is left.
Withdraw(gap, pending, direction) ==
  LET known == {id \in DOMAIN orders :
                  orders[id].direction = direction /\ orders[id].order_id # 0}
      take(s, id) == IF s.gap > 0 THEN [gap |-> s.gap - orders[id].volume, ids |-> s.ids \cup {id}]
                     ELSE s
  IN IF pending > 0
     THEN FoldLeft(take, [gap |-> gap, ids |-> {}], SetToSortSeq(known, <))
     ELSE [gap |-> gap, ids |-> {}]

\* The close and the open volume of the orders that close a gap.
CloseVolume(pos, pending, gap) == Min({pos - pending, gap})
OpenVolume(close, gap) == Max({gap - close, 0})

NewOrders(direction, close, opens) ==
  LET both == <<[offset |-> "close", volume |-> close], [offset |-> "open", volume |-> opens]>>
      sent == SelectSeq(both, LAMBDA o : o.volume > 0)
      first == Cardinality(Sent) + 1
  IN [i \in 1 .. Len(sent) |->
        OrderCmd(first + i - 1, direction, sent[i].offset, sent[i].volume)]

Submit(e, stale, withdrawn, new) ==
  LET byCid == [id \in {new[i].cid : i \in 1 .. Len(new)} |->
                  new[CHOOSE i \in 1 .. Len(new) : new[i].cid = id]]
  IN /\ engine' = e
     /\ cmds' = cmds \o CancelsOf(stale) \o CancelsOf(withdrawn) \o new
     /\ orders' = [id \in DOMAIN orders \cup DOMAIN byCid |->
          IF id \in DOMAIN orders THEN orders[id]
          ELSE PendingOrder(byCid[id].direction, byCid[id].offset, byCid[id].volume, e.ask)]
     /\ open' = [id \in Sent \cup DOMAIN byCid |->
          IF id \in Sent THEN open[id] ELSE byCid[id].volume]

OnTick(tick) ==
  LET e == Quote(engine, tick)
      stale == {id \in DOMAIN orders : LeftBehind(e, orders[id])}
      up == Withdraw(Gap(e), e.shortPending, "sell")
      down == Withdraw(-Gap(e), e.longPending, "buy")
      buyClose == CloseVolume(e.short, e.shortPending, up.gap)
      sellClose == CloseVolume(e.long, e.longPending, down.gap)
  IN /\ Len(SelectSeq(cmds, LAMBDA c : c.type = "cancel")) < MaxCancels
     /\ Cardinality(Sent) + 2 <= MaxOrders
     /\ CASE e.long - e.short = e.target -> Submit(e, stale, {}, <<>>)
          [] e.long - e.short # e.target /\ Gap(e) > 0 /\ e.ask > 0 ->
               IF up.gap <= 0 THEN Submit(e, stale, up.ids, <<>>)
               ELSE Submit([e EXCEPT !.longPending = @ + buyClose + OpenVolume(buyClose, up.gap)],
                           stale, up.ids,
                           NewOrders("buy", buyClose, OpenVolume(buyClose, up.gap)))
          [] e.long - e.short # e.target /\ Gap(e) < 0 /\ e.bid > 0 ->
               IF down.gap <= 0 THEN Submit(e, stale, down.ids, <<>>)
               ELSE Submit([e EXCEPT !.shortPending =
                              @ + sellClose + OpenVolume(sellClose, down.gap)],
                           stale, down.ids,
                           NewOrders("sell", sellClose, OpenVolume(sellClose, down.gap)))
          [] OTHER -> Submit(e, stale, {}, <<>>)
     /\ UNCHANGED <<live, nextId, rsps, base>>

\* The target is the strategy's to set.
SetTargetPos ==
  /\ Patient => \A id \in Sent : open[id] = 0
  /\ \E t \in Targets : engine' = [engine EXCEPT !.target = t]
  /\ base' = Net
  /\ UNCHANGED <<orders, cmds, live, nextId, rsps, open>>

Give(e, direction, volume) ==
  IF direction = "buy" THEN [e EXCEPT !.longPending = @ - volume]
  ELSE [e EXCEPT !.shortPending = @ - volume]

Forget(o, cid) == Restrict(o, DOMAIN o \ {cid})

(* Fault: a cancelled order gives all its volume back. *)
UntradedWhole(rsp) == rsp.volume

Untraded(rsp) == rsp.volume - rsp.traded

OnOrder(e, o, rsp) ==
  LET known == o[rsp.cid]
  IN CASE rsp.cid \notin DOMAIN o -> [engine |-> e, orders |-> o]
       [] rsp.cid \in DOMAIN o /\ rsp.completed /\ rsp.error = "send" /\ known.order_id = 0 ->
            [engine |-> Give(e, known.direction, known.volume), orders |-> Forget(o, rsp.cid)]
       [] rsp.cid \in DOMAIN o /\ rsp.completed /\ rsp.error = "none"
            /\ known.order_id = rsp.order_id ->
            [engine |-> Give(e, known.direction, Untraded(rsp)), orders |-> Forget(o, rsp.cid)]
       [] rsp.cid \in DOMAIN o /\ ~rsp.completed ->
            [engine |-> e, orders |-> [o EXCEPT ![rsp.cid].order_id = rsp.order_id]]
       [] OTHER -> [engine |-> e, orders |-> o]

OnTrade(e, rsp) ==
  LET held == CASE rsp.direction = "buy" /\ rsp.offset = "open" -> [e EXCEPT !.long = @ + rsp.this]
                [] rsp.direction = "buy" /\ rsp.offset # "open" -> [e EXCEPT !.short = @ - rsp.this]
                [] rsp.direction = "sell" /\ rsp.offset = "open" -> [e EXCEPT !.short = @ + rsp.this]
                [] OTHER -> [e EXCEPT !.long = @ - rsp.this]
  IN Give(held, rsp.direction, rsp.this)

\* Strategy::OnOrderResponse: OnOrder, then OnTrade when something was traded.
OnOrderResponse ==
  /\ rsps # <<>> /\ rsps' = Tail(rsps)
  /\ LET rsp == Head(rsps)
         r == OnOrder(engine, orders, rsp)
     IN /\ engine' = IF rsp.this > 0 THEN OnTrade(r.engine, rsp) ELSE r.engine
        /\ orders' = r.orders
        /\ open' = [open EXCEPT ![rsp.cid] = IF rsp.completed THEN 0 ELSE @ - rsp.this]
  /\ UNCHANGED <<cmds, live, nextId, base>>

-----------------------------------------------------------------------------
(* The OMS and the exchange: what they answer. *)

Rsp(order, this, error) ==
  [cid |-> order.cid, order_id |-> order.order_id, direction |-> order.direction,
   offset |-> order.offset, volume |-> order.volume, traded |-> order.traded, this |-> this,
   completed |-> order.canceled + order.traded = order.volume \/ error # "none", error |-> error]

\* The strategy's position as the OMS knows it: ahead of the engine's by the
\* trades not yet read.
OmsPosition ==
  FoldLeft(OnTrade, engine, SelectSeq(rsps, LAMBDA rsp : rsp.this > 0))

\* PositionRisk: a close needs what is held and not being closed already.
Enough(order) ==
  LET closing == {id \in DOMAIN live : live[id].offset = "close"
                                         /\ live[id].direction = order.direction}
      held == IF order.direction = "buy" THEN OmsPosition.short ELSE OmsPosition.long
  IN order.offset = "close" =>
       held - FoldSet(LAMBDA id, n : n + live[id].volume - live[id].traded, 0, closing)
         >= order.volume

\* ExecuteCmd: an order is sent, or refused before it is; a cancel reaches the
\* order if it still lives.
ExecuteOrder(order) ==
  /\ nextId' = nextId + 1
  /\ \/ /\ Enough(order)
        /\ live' = [id \in DOMAIN live \cup {nextId} |->
              IF id = nextId THEN order ELSE live[id]]
        /\ UNCHANGED rsps
     \/ /\ "send" \in Rejects \/ ~Enough(order)
        /\ rsps' = Append(rsps, Rsp(order, 0, "send")) /\ UNCHANGED live

ExecuteCancel(order_id) ==
  /\ live' = IF order_id \in DOMAIN live THEN [live EXCEPT ![order_id].cancel = TRUE] ELSE live
  /\ UNCHANGED <<nextId, rsps>>

Execute ==
  /\ cmds # <<>> /\ cmds' = Tail(cmds)
  /\ LET cmd == Head(cmds)
     IN IF cmd.type = "cancel" THEN ExecuteCancel(cmd.order_id)
        ELSE ExecuteOrder([cid |-> cmd.cid, order_id |-> nextId, direction |-> cmd.direction,
               offset |-> cmd.offset, volume |-> cmd.volume, traded |-> 0, canceled |-> 0,
               accepted |-> FALSE, cancel |-> FALSE])
  /\ UNCHANGED <<engine, orders, open, base>>

Ended(order) == order.traded + order.canceled = order.volume

\* The response is written; an order that has ended leaves the map.
Report(order, answers) ==
  /\ live' = IF Ended(order) THEN Restrict(live, DOMAIN live \ {order.order_id})
             ELSE [live EXCEPT ![order.order_id] = order]
  /\ rsps' = rsps \o answers
  /\ UNCHANGED <<engine, orders, cmds, nextId, open, base>>

Accepted(id) ==
  /\ ~live[id].accepted
  /\ LET order == [live[id] EXCEPT !.accepted = TRUE]
     IN Report(order, <<Rsp(order, 0, "none")>>)

Rejected(id) ==
  /\ "exchange" \in Rejects /\ ~live[id].accepted
  /\ live' = Restrict(live, DOMAIN live \ {id})
  /\ rsps' = Append(rsps, Rsp(live[id], 0, "exchange"))
  /\ UNCHANGED <<engine, orders, cmds, nextId, open, base>>

\* A trade of an order not yet accepted is reported after its acceptance.
Traded(id) ==
  \E v \in 1 .. live[id].volume - live[id].traded - live[id].canceled :
    LET accepted == [live[id] EXCEPT !.accepted = TRUE]
        order == [accepted EXCEPT !.traded = @ + v]
    IN Report(order, (IF live[id].accepted THEN <<>> ELSE <<Rsp(accepted, 0, "none")>>)
                       \o <<Rsp(order, v, "none")>>)

Canceled(id) ==
  /\ live[id].cancel /\ live[id].accepted
  /\ LET order == [live[id] EXCEPT !.canceled = live[id].volume - live[id].traded]
     IN Report(order, <<Rsp(order, 0, "none")>>)

Market == \E id \in DOMAIN live : Accepted(id) \/ Rejected(id) \/ Traded(id) \/ Canceled(id)

Next ==
  \/ \E tick \in Quotes : OnTick(tick)
  \/ OnOrderResponse \/ SetTargetPos \/ Execute \/ Market

Spec == Init /\ [][Next]_vars

-----------------------------------------------------------------------------
Left(direction) ==
  LET ofDirection == {id \in Sent : open[id] > 0 /\ id \in DOMAIN orders
                                     /\ orders[id].direction = direction}
  IN FoldSet(LAMBDA id, n : n + open[id], 0, ofDirection)

TypeOK ==
  /\ engine.long \in Int /\ engine.short \in Int
  /\ \A id \in Sent : open[id] \in Nat
  /\ DOMAIN orders \subseteq Sent

\* The pending volumes are what the engine's orders have left, over accepted,
\* partly traded, cancelled and refused orders (OnTick, OnOrder, OnTrade).
PendingIsLeft ==
  /\ engine.longPending = Left("buy") /\ engine.shortPending = Left("sell")
  /\ \A id \in Sent : open[id] > 0 => id \in DOMAIN orders

\* The engine never has more on the way than takes the position to its target:
\* with everything traded, and none of it, the position is between where it
\* was and the target.
NeverTooMuch ==
  /\ Net + Left("buy") <= Max({engine.target, base})
  /\ Net - Left("sell") >= Min({engine.target, base})

\* Nothing negative is held: what is closed was held (CloseVolume).
NothingOverclosed == engine.long >= 0 /\ engine.short >= 0

\* With nothing on the way and both prices known, a position away from the
\* target makes the next tick send an order (SetTargetPos: "设置目标仓位").
Quiet == cmds = <<>> /\ rsps = <<>> /\ DOMAIN live = {}
NeverStuck == (Quiet /\ Net # engine.target) => Gap(engine) # 0
=============================================================================
