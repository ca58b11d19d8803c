------------------------ MODULE AdvancedMatchEngine ------------------------
(***************************************************************************)
(* AdvancedMatchEngine: a resting order has a place in the queue at its    *)
(* price; from volume and turnover between two ticks the engine estimates  *)
(* how much traded on either side and moves the queues forward.            *)
(*                                                                         *)
(* The book is a set of InnerOrders: their order in the list of a price    *)
(* level is the order of their ids, since ids are given in the order of    *)
(* insertion.  index is id_price_map_.  When the last order of a level is  *)
(* filled the code erases the level's list and then compares the iterator  *)
(* with that list's end; both are the address of the list's own sentinel,  *)
(* so the loop ends without reading the freed memory.                      *)
(***************************************************************************)
EXTENDS MatchEngine

InnerOrder(o, queue) == [order |-> o, queue |-> queue]

AdvancedMatches(o, tick) ==
  /\ (IF o.direction = "buy" THEN tick.askVolume[1] ELSE tick.bidVolume[1]) > 0
  /\ AtOrBeyond(o, Touch(o, tick))

OwnPrices(o, tick) == IF o.direction = "buy" THEN tick.bid ELSE tick.ask
OwnVolumes(o, tick) == IF o.direction = "buy" THEN tick.bidVolume ELSE tick.askVolume

(* The volume quoted at the order's price, if it is one of the levels.     *)
QueuePosition(o, tick) ==
  LET at == {l \in 1 .. Levels : OwnPrices(o, tick)[l] = o.price}
  IN  IF at = {} THEN 0 ELSE OwnVolumes(o, tick)[Min(at)]

(* The book with its index, and the events of the call.                    *)
Outcome(book, index, events) == [book |-> book, index |-> index, events |-> events]

Indexed(index, o) == [i \in DOMAIN index \union {o.id} |-> IF i = o.id THEN o.price ELSE index[i]]
Unindexed(index, ids) == [i \in DOMAIN index \ ids |-> index[i]]

AdvancedInsert(book, index, o, tick) ==
  LET rest(x)   == Outcome(book \union {InnerOrder(x, QueuePosition(x, tick))},
                           Indexed(index, x), <<Accepted(o)>>)
      answer(e) == Outcome(book, index, <<e>>)
  IN  CASE o.type = "best" ->
             IF OwnVolumes(o, tick)[1] = 0 THEN answer(Rejected(o))
             ELSE rest([o EXCEPT !.price = OwnBest(o, tick)])
        [] o.type = "market" ->
             IF (IF o.direction = "buy" THEN tick.askVolume[1] ELSE tick.bidVolume[1]) = 0
             THEN answer(Canceled(o)) ELSE answer(Traded(o, Touch(o, tick)))
        [] o.type \in {"limit", "fak", "fok"} /\ AdvancedMatches(o, tick) ->
             answer(Traded(o, Touch(o, tick)))
        [] o.type = "limit" /\ ~ AdvancedMatches(o, tick) -> rest(o)
        [] o.type \in {"fak", "fok"} /\ ~ AdvancedMatches(o, tick) ->
             answer(Canceled(o))

-----------------------------------------------------------------------------
(* CancelOrder looks for the order's price among the bids first, and walks *)
(* the list found there with a loop that only ends at its first order: any *)
(* other order is looked for for ever.                                     *)

SideAt(book, direction, price) ==
  {x \in book : x.order.direction = direction /\ x.order.price = price}

LevelList(book, price) ==
  LET bids == SideAt(book, "buy", price)
  IN  IF bids # {} THEN bids ELSE SideAt(book, "sell", price)

IsFirst(x, list) == x \in list /\ \A y \in list : x.order.id <= y.order.id

AdvancedKnows(index, id) == id \in DOMAIN index

CancelAborts(book, index, id) ==
  AdvancedKnows(index, id) /\ LevelList(book, index[id]) = {}

CancelLoops(book, index, id) ==
  /\ AdvancedKnows(index, id) /\ ~ CancelAborts(book, index, id)
  /\ ~ \E x \in book : x.order.id = id /\ IsFirst(x, LevelList(book, index[id]))

(* When the loop ends: nothing happens to an unknown order.                *)
AdvancedCancel(book, index, id) ==
  LET found == {x \in book : AdvancedKnows(index, id) /\ x.order.id = id}
  IN  Outcome(book \ found, Unindexed(index, {id}),
              [k \in 1 .. Cardinality(found) |-> Canceled((CHOOSE x \in found : TRUE).order)])

-----------------------------------------------------------------------------
(* OnNewTick                                                               *)

(* How much of the volume traded against the sell side, by the average     *)
(* price; std::round is away from zero at a half.  avg >= ask and          *)
(* avg <= bid are comparisons of turnover with volume times price.         *)
AskFilled(prev, tick) ==
  LET spread == tick.ask[1] - tick.bid[1]
      above  == tick.turnover - tick.volume * tick.bid[1]
  IN  CASE prev.askVolume[1] = 0 -> 0
        [] prev.askVolume[1] > 0 /\ prev.bidVolume[1] = 0 -> tick.volume
        [] prev.askVolume[1] > 0 /\ prev.bidVolume[1] > 0 ->
             IF tick.turnover >= tick.volume * tick.ask[1] THEN tick.volume
             ELSE IF above <= 0 THEN 0
             ELSE (2 * above + spread) \div (2 * spread)

BidFilled(prev, tick) ==
  IF prev.bidVolume[1] = 0 THEN 0
  ELSE IF prev.askVolume[1] = 0 THEN tick.volume
  ELSE tick.volume - AskFilled(prev, tick)

(* The order lists of a side from its best price on.                       *)
InBookOrder(xs) ==
  LET before(a, b) ==
        \/ a.order.price = b.order.price /\ a.order.id < b.order.id
        \/ a.order.direction = "buy" /\ a.order.price > b.order.price
        \/ a.order.direction = "sell" /\ a.order.price < b.order.price
      sorted == SetToSortSeq(xs, before)
  IN  [i \in DOMAIN sorted |-> sorted[i].order]

(* Fault: the filled orders stay in the index.                             *)
FillKeepsIndex(s, xs) ==
  Outcome(s.book \ xs, s.index, s.events \o TradeAll(InBookOrder(xs)))

(* All orders of xs trade at their own price.                              *)
Fill(s, xs) ==
  Outcome(s.book \ xs, Unindexed(s.index, {x.order.id : x \in xs}),
          s.events \o TradeAll(InBookOrder(xs)))

(* Fault: the test is turned around.                                      *)
MoveQueueBack(s, xs, filled) ==
  LET hit == {x \in xs : x.queue > filled}
      t   == Fill(s, hit)
  IN  Outcome((t.book \ xs) \union {InnerOrder(x.order, x.queue - filled) : x \in xs \ hit},
              t.index, t.events)

(* One level of the walk: the volume filled reaches orders it exceeds the  *)
(* place of, and moves the others forward.                                 *)
MoveQueue(s, xs, filled) ==
  LET hit   == {x \in xs : x.queue < filled}
      moved == {InnerOrder(x.order, x.queue - filled) : x \in xs \ hit}
      t     == Fill(s, hit)
  IN  Outcome((t.book \ xs) \union moved, t.index, t.events)

WalkLevels(s, direction, prices, volumes, filled) ==
  LET step(w, l) ==
        IF w.filled <= 0 \/ volumes[l] = 0 THEN w
        ELSE [state  |-> MoveQueue(w.state, SideAt(w.state.book, direction, prices[l]), w.filled),
              filled |-> w.filled - volumes[l]]
  IN  FoldLeft(step, [state |-> s, filled |-> filled], [l \in 1 .. Levels |-> l]).state

(* Both walks start with the orders the new best price has passed: bids    *)
(* above the best bid; asks below the best bid too, not the best ask.      *)
FillBids(s, tick, filled) ==
  LET passed == {x \in s.book : x.order.direction = "buy" /\ tick.bidVolume[1] > 0
                                /\ x.order.price > tick.bid[1]}
  IN  IF filled <= 0 THEN s
      ELSE WalkLevels(Fill(s, passed), "buy", tick.bid, tick.bidVolume, filled)

FillAsks(s, tick, filled) ==
  LET passed == {x \in s.book : x.order.direction = "sell" /\ tick.askVolume[1] > 0
                                /\ x.order.price < tick.bid[1]}
  IN  IF filled <= 0 THEN s
      ELSE WalkLevels(Fill(s, passed), "sell", tick.ask, tick.askVolume, filled)

(* The orders that cross the other side's best price, if it has volume.    *)
Crossing(book, direction, tick) ==
  {x \in book : x.order.direction = direction /\ AdvancedMatches(x.order, tick)}

FillCrossing(s, tick) ==
  LET t == Fill(s, Crossing(s.book, "sell", tick))
  IN  Fill(t, Crossing(t.book, "buy", tick))

(* The first tick, and a tick without new volume, only replace the old.    *)
AdvancedOnNewTick(book, index, prev, tick) ==
  LET s == Outcome(book, index, <<>>)
      b == FillBids(s, tick, BidFilled(prev, tick))
      a == FillAsks(b, tick, AskFilled(prev, tick))
  IN  IF prev = NoTick \/ tick.volume = 0 THEN s ELSE FillCrossing(a, tick)

=============================================================================
