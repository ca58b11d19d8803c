------------------------------ MODULE OrderBook ------------------------------
(***************************************************************************)
(* The limit order book: a map of the orders, and for each side the levels *)
(* with their orders in time priority and their total volume.  The levels, *)
(* the totals and the map are kept side by side by every operation.        *)
(*                                                                         *)
(* The caller is one that adds an order once, unless it Repeats, removes   *)
(* it as it is, keeps its side and modifies an unknown one only where      *)
(* there is a level.                                                       *)
(***************************************************************************)
EXTENDS Integers, Sequences, FiniteSets, SequencesExt, FiniteSetsExt, Functions

CONSTANTS
  Ids,
  Prices,
  Volumes,
  MaxLevels,  \* kMaxMarketLevel
  Repeats     \* does the caller add an id again

OrderBookAssumption ==
  /\ Prices \subseteq Nat /\ Volumes \subseteq Nat \ {0} /\ MaxLevels \in Nat \ {0}
  /\ Repeats \in BOOLEAN

VARIABLES
  orders,  \* order_map_
  levels,  \* buy_levels_ and sell_levels_, by side and price
  arrived  \* history: the ids in the order of their arrival at their price

vars == <<orders, levels, arrived>>

Sides == {"buy", "sell"}
Order(id, side, volume, price) == [id |-> id, side |-> side, volume |-> volume, price |-> price]

NoLevels == [k \in {} |-> 0]
Key(order) == <<order.side, order.price>>

Init == orders = [id \in {} |-> 0] /\ levels = NoLevels /\ arrived = <<>>

With(f, k, v) == [x \in DOMAIN f \cup {k} |-> IF x = k THEN v ELSE f[x]]
Without(f, k) == Restrict(f, DOMAIN f \ {k})

-----------------------------------------------------------------------------
(* A price level. *)

LevelAdd(level, order) == [list |-> Append(level.list, order), total |-> level.total + order.volume]

PlaceOf(level, id) == CHOOSE i \in 1 .. Len(level.list) : level.list[i].id = id

(* Fault: the modified order goes to the end. *)
LevelModifyLast(level, order) ==
  LET i == PlaceOf(level, order.id)
  IN [list |-> Append(RemoveAt(level.list, i), order),
      total |-> level.total + order.volume - level.list[i].volume]

LevelModify(level, order) ==
  LET i == PlaceOf(level, order.id)
  IN [list |-> [level.list EXCEPT ![i] = order],
      total |-> level.total + order.volume - level.list[i].volume]

LevelRemove(level, order) ==
  [list |-> RemoveAt(level.list, PlaceOf(level, order.id)), total |-> level.total - order.volume]

-----------------------------------------------------------------------------
(* The book. *)

FindOrCreateLevel(ls, key) == IF key \in DOMAIN ls THEN ls[key] ELSE [list |-> <<>>, total |-> 0]

Put(ls, order) ==
  With(ls, Key(order), LevelAdd(FindOrCreateLevel(ls, Key(order)), order))

\* A level whose total is zero is erased.
Take(ls, order) ==
  LET level == LevelRemove(ls[Key(order)], order)
  IN IF level.total = 0 THEN Without(ls, Key(order)) ELSE [ls EXCEPT ![Key(order)] = level]

Arrive(id) == arrived' = Append(SelectSeq(arrived, LAMBDA x : x # id), id)

\* emplace leaves an order of the map as it is.
AddOrder(order) ==
  /\ levels' = Put(levels, order)
  /\ orders' = IF order.id \in DOMAIN orders THEN orders ELSE With(orders, order.id, order)
  /\ Arrive(order.id)

\* An unknown order is put on its level, which must be there.
ModifyUnknown(order) ==
  /\ order.id \notin DOMAIN orders /\ Key(order) \in DOMAIN levels
  /\ levels' = [levels EXCEPT ![Key(order)] = LevelAdd(@, order)]
  /\ orders' = With(orders, order.id, order) /\ Arrive(order.id)

\* Another price: off the old level, and to the end of the new one.
Move(order) ==
  /\ levels' = Put(Take(levels, orders[order.id]), order) /\ Arrive(order.id)

Resize(order) ==
  /\ levels' = [levels EXCEPT ![Key(order)] = LevelModify(@, order)]
  /\ UNCHANGED arrived

ModifyKnown(order) ==
  /\ order.id \in DOMAIN orders /\ orders[order.id].side = order.side
  /\ orders[order.id].price # order.price => Move(order)
  /\ orders[order.id].price = order.price => Resize(order)
  /\ orders' = [orders EXCEPT ![order.id] = order]

ModifyOrder(order) == ModifyUnknown(order) \/ ModifyKnown(order)

RemoveOrder(id) ==
  /\ id \in DOMAIN orders
  /\ orders' = Without(orders, id) /\ levels' = Take(levels, orders[id])
  /\ arrived' = SelectSeq(arrived, LAMBDA x : x # id)

Next ==
  \/ \E id \in Ids, side \in Sides, v \in Volumes, p \in Prices :
       \/ (id \in DOMAIN orders => Repeats) /\ AddOrder(Order(id, side, v, p))
       \/ ModifyOrder(Order(id, side, v, p))
  \/ \E id \in Ids : RemoveOrder(id)

Spec == Init /\ [][Next]_vars

-----------------------------------------------------------------------------
(* to_tick: the first levels of each side. *)

(* Fault: the bids start at the lowest. *)
BetterLow(side, p, q) == p < q

Better(side, p, q) == IF side = "buy" THEN p > q ELSE p < q

Depth(side) ==
  LET prices == {k[2] : k \in {x \in DOMAIN levels : x[1] = side}}
      sorted == SetToSortSeq(prices, LAMBDA p, q : Better(side, p, q))
  IN [i \in 1 .. Min({Len(sorted), MaxLevels}) |->
        [price |-> sorted[i], volume |-> levels[<<side, sorted[i]>>].total]]

-----------------------------------------------------------------------------
VolumeAt(key) ==
  LET own == {id \in DOMAIN orders : Key(orders[id]) = key}
  IN FoldSet(LAMBDA id, n : n + orders[id].volume, 0, own)

TypeOK ==
  /\ DOMAIN orders \subseteq Ids /\ \A id \in DOMAIN orders : orders[id].id = id
  /\ DOMAIN levels \subseteq Sides \X Prices
  /\ \A k \in DOMAIN levels : levels[k].total > 0 /\ levels[k].list # <<>>

\* The levels hold the orders of the map, as they are, and no others, through
\* every change of price and volume.
LevelsHoldOrders ==
  /\ \A id \in DOMAIN orders :
       /\ Key(orders[id]) \in DOMAIN levels
       /\ orders[id] \in Range(levels[Key(orders[id])].list)
  /\ \A k \in DOMAIN levels : \A i \in 1 .. Len(levels[k].list) :
       LET order == levels[k].list[i]
       IN order.id \in DOMAIN orders /\ orders[order.id] = order /\ Key(order) = k

\* A level's total, which is changed by differences, is the sum of its orders.
TotalsAddUp == \A k \in DOMAIN levels : levels[k].total = VolumeAt(k)

\* Time priority: the orders of a level are in the order they came to it; a
\* change of volume keeps an order's place, one of price does not.
FirstComeFirst ==
  \A k \in DOMAIN levels :
    LET place(i) == CHOOSE n \in 1 .. Len(arrived) : arrived[n] = levels[k].list[i].id
    IN \A i, j \in 1 .. Len(levels[k].list) : i < j => place(i) < place(j)

\* What a tick shows are the best prices of the orders there are, from the best
\* on, with all their volume.
TickShowsBest ==
  \A side \in Sides :
    LET shown == Depth(side)
        prices == {orders[id].price : id \in {x \in DOMAIN orders : orders[x].side = side}}
        better(p) == Cardinality({q \in prices : IF side = "buy" THEN q > p ELSE q < p})
    IN /\ Len(shown) = Min({Cardinality(prices), MaxLevels})
       /\ \A i \in 1 .. Len(shown) :
            /\ shown[i].price \in prices /\ better(shown[i].price) = i - 1
            /\ shown[i].volume = VolumeAt(<<side, shown[i].price>>)
=============================================================================
