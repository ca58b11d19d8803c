---------------------------- MODULE MatchEngine ----------------------------
(***************************************************************************)
(* What the match engines of the backtest gateway work on: ticks with      *)
(* Levels price levels (0 is a level nobody quotes), the orders they get   *)
(* and the events they call their listener with.  An engine is a set of    *)
(* operators from its book to a new book and the events of the call; the   *)
(* books of two tickers are independent, so there is one.                  *)
(* SimpleMatchEngine is the last part: an order trades in full when the    *)
(* other side's best price reaches its limit.                              *)
(***************************************************************************)
EXTENDS PositionManager, SequencesExt

CONSTANT Levels   \* kMaxMarketLevel

LevelAssumption == Levels \in Nat \ {0}

(* last_price, the levels, and by how much volume and turnover (in lots    *)
(* times price) went up since the tick before.                             *)
Tick ==
  [last : Nat, ask : [1 .. Levels -> Nat], askVolume : [1 .. Levels -> Nat],
   bid : [1 .. Levels -> Nat], bidVolume : [1 .. Levels -> Nat],
   volume : Nat, turnover : Nat]

(* The zero-filled TickData the engines start with.                        *)
NoTick ==
  [last |-> 0, ask |-> [l \in 1 .. Levels |-> 0], askVolume |-> [l \in 1 .. Levels |-> 0],
   bid |-> [l \in 1 .. Levels |-> 0], bidVolume |-> [l \in 1 .. Levels |-> 0],
   volume |-> 0, turnover |-> 0]

EngineOrder ==
  [id : Nat, direction : Directions, offset : Offsets, type : OrderTypes,
   price : Nat, volume : Int]

(* OrderEventListener: the order is the one the engine passes on.          *)
Event(kind, o, volume, price) ==
  [kind |-> kind, order |-> o, volume |-> volume, price |-> price]

Accepted(o) == Event("accepted", o, 0, 0)
Rejected(o) == Event("rejected", o, o.volume, 0)
Canceled(o) == Event("canceled", o, o.volume, 0)
Traded(o, price) == Event("traded", o, o.volume, price)

(* The best price of the other side, and of the order's own side.          *)
Touch(o, tick) == IF o.direction = "buy" THEN tick.ask[1] ELSE tick.bid[1]
OwnBest(o, tick) == IF o.direction = "buy" THEN tick.bid[1] ELSE tick.ask[1]

AtOrBeyond(o, price) ==
  IF o.direction = "buy" THEN o.price >= price ELSE o.price <= price

TradeAll(orders) == [i \in DOMAIN orders |-> Traded(orders[i], orders[i].price)]

-----------------------------------------------------------------------------
(* SimpleMatchEngine.  Its book is the set of resting orders.              *)

SimpleMatches(o, tick) == Touch(o, tick) > 0 /\ AtOrBeyond(o, Touch(o, tick))

(* Fault: a limit order that matches is traded and kept.                   *)
SimpleInsertKept(book, o, tick) ==
  [book   |-> IF o.type = "limit" THEN book \union {o} ELSE book,
   events |-> IF SimpleMatches(o, tick) THEN <<Traded(o, Touch(o, tick))>>
              ELSE IF o.type = "limit" THEN <<Accepted(o)>> ELSE <<Canceled(o)>>]

SimpleInsert(book, o, tick) ==
  LET rest(x)   == [book |-> book \union {x}, events |-> <<Accepted(o)>>]
      answer(e) == [book |-> book, events |-> <<e>>]
  IN  CASE o.type = "best" ->
             IF OwnBest(o, tick) = 0 THEN answer(Rejected(o))
             ELSE rest([o EXCEPT !.price = OwnBest(o, tick)])
        [] o.type = "market" ->
             IF Touch(o, tick) = 0 THEN answer(Canceled(o))
             ELSE answer(Traded(o, Touch(o, tick)))
        [] o.type \in {"limit", "fak", "fok"} /\ SimpleMatches(o, tick) ->
             answer(Traded(o, Touch(o, tick)))
        [] o.type = "limit" /\ ~ SimpleMatches(o, tick) -> rest(o)
        [] o.type \in {"fak", "fok"} /\ ~ SimpleMatches(o, tick) ->
             answer(Canceled(o))

SimpleCancel(book, id) ==
  LET found == {o \in book : o.id = id}
  IN  [book   |-> book \ found,
       events |-> IF found = {}
                  THEN <<[kind |-> "cancelRejected", order |-> [id |-> id],
                          volume |-> 0, price |-> 0]>>
                  ELSE <<Canceled(CHOOSE o \in found : TRUE)>>]

(* The map is walked in the order of the ids.                              *)
SimpleOnNewTick(book, tick) ==
  LET hit == {o \in book : SimpleMatches(o, tick)}
  IN  [book   |-> book \ hit,
       events |-> TradeAll(SetToSortSeq(hit, LAMBDA a, b : a.id < b.id))]

=============================================================================
