------------------------------- MODULE Broker -------------------------------
(***************************************************************************)
(* The broker behind a gateway as the vendor's library shows it (external),*)
(* and what the OMS relies on in the reports it gets through the gateway.  *)
(*                                                                         *)
(* An order has the OMS's id, 0 for one that an earlier run of the trader  *)
(* left, and a tag, the number the library names it with.  told is the     *)
(* history of the reports given to the OMS; about is the place of the      *)
(* order in the broker's book that the report really is about.  An order   *)
(* is asked to be cancelled once (a bound).                                *)
(***************************************************************************)
EXTENDS Sums, Sequences, FiniteSetsExt

CONSTANTS
  MaxOrders,  \* bound: orders of this run
  Volume      \* the volume of each order

BrokerAssumption == MaxOrders \in Nat /\ Volume \in Nat \ {0}

OrderStates == {"sent", "queueing", "traded", "canceled", "rejected"}

BrokerOrder ==
  [id : 0 .. MaxOrders, tag : Nat, session : Nat, traded : 0 .. Volume,
   state : OrderStates, cancel : {"no", "asked", "answered"}]

BrokerSent(id, tag, session) ==
  [id |-> id, tag |-> tag, session |-> session, traded |-> 0, state |-> "sent",
   cancel |-> "no"]

Alive(o) == o.state \in {"sent", "queueing"}

BrokerFilled(o, volume) ==
  [o EXCEPT !.traded = @ + volume,
            !.state = IF o.traded + volume = Volume THEN "traded" ELSE "queueing"]

Told(id, kind, volume, about) ==
  [id |-> id, kind |-> kind, volume |-> volume, about |-> about]

-----------------------------------------------------------------------------
(* A report that has the id of a live order of this run is about it.       *)
NoForeignReports(told, orders, ids) ==
  \A i \in DOMAIN told : told[i].id \in ids => orders[told[i].about].id = told[i].id

(* A report about an order of this run has its id.                         *)
ReportsHaveIds(told, orders) ==
  \A i \in DOMAIN told : orders[told[i].about].id \in {0, told[i].id}

(* The volume that the reports of q say order k has traded.                *)
TradeOf(r, k) == IF r.kind = "traded" /\ r.about = k THEN r.volume ELSE 0

VolumeOf(q, k) == SumTo([i \in 1 .. Len(q) |-> TradeOf(q[i], k)], Len(q))

(* What the OMS's counters need of the reports about one order: one end at *)
(* most, no more trades than there were, the cancelled volume what is left.*)
Ends(r) == r.kind \in {"canceled", "rejected"}

LifeOf(told, k, o) ==
  LET about == {i \in DOMAIN told : told[i].about = k}
  IN  /\ \A i, j \in about : Ends(told[i]) /\ Ends(told[j]) => i = j
      /\ VolumeOf(told, k) <= o.traded
      /\ \A i \in about :
           /\ told[i].kind = "canceled" => told[i].volume = Volume - o.traded
           /\ told[i].kind = "rejected" => o.traded = 0

LivesAreSound(told, orders) ==
  \A k \in DOMAIN orders : orders[k].id > 0 => LifeOf(told, k, orders[k])

=============================================================================
