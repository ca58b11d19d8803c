----------------------------- MODULE OmsReports -----------------------------
(***************************************************************************)
(* Oms implements OrderReports: the view of an order is what the responses *)
(* about it in the response queues add up to.                              *)
(***************************************************************************)
EXTENDS Oms

CONSTANT MaxVolume   \* bound: largest volume in Requests

ASSUME MaxVolumeAssumption ==
  MaxVolume \in Nat /\ \A req \in Requests : req.volume <= MaxVolume

(* The places of the responses about an order in queue q, and the lots the *)
(* first n responses of q say were filled of it.                           *)
About(q, id) == {k \in 1 .. Len(q) : q[k].id = id}

Told(q, id, n) ==
  SumTo([k \in 1 .. n |-> IF q[k].id = id THEN q[k].thisTraded ELSE 0], n)

(* What the responses in q say of an order.                                *)
View(q, id) ==
  LET about     == About(q, id)
      completed == {k \in about : q[k].completed}
  IN  [phase   |-> IF about = {} THEN "silent"
                   ELSE IF completed # {} THEN "done" ELSE "working",
       filled  |-> Told(q, id, Len(q)),
       answers |-> Cardinality(completed),
       failed  |-> \E k \in about : q[k].error # "NoError"]

(* The strategies that were told about an order.                           *)
Hearers(id) == {s \in Strategies : About(rspMq[s], id) # {}}

ViewOf(id) ==
  LET hearers == Hearers(id)
  IN  View(IF hearers = {} THEN <<>> ELSE rspMq[CHOOSE s \in hearers : TRUE], id)

Reports == INSTANCE OrderReports WITH view <- [i \in OrderIds |-> ViewOf(i)]

(* The responses the OMS writes for an order have the life OrderReports    *)
(* promises, whatever the order of the gateway's reports.                  *)
ReportsImplemented == Reports!Spec

(* A strategy never reads of an order it did not send: all responses about *)
(* one order are in one queue.                                             *)
OneHears(id) == \A s, r \in Hearers(id) : s = r

(* The completed response is the last about its order, and is there when   *)
(* the order is over.                                                      *)
CompletedIsLast(q, id, over) ==
  \A k \in About(q, id) :
    q[k].completed <=> over /\ \A j \in About(q, id) : j <= k

(* In every response about the order the total the strategy is told is the *)
(* sum of the fills it was told and at most the volume it asked for, and a *)
(* first fill comes after another response.                                *)
TotalsAddUp(q, id) ==
  \A k \in About(q, id) :
    /\ q[k].traded = Told(q, id, k)
    /\ q[k].traded <= q[k].original
    /\ q[k].thisTraded > 0 => \E j \in About(q, id) : j < k

(* The responses about an order tell one strategy, and add up at every     *)
(* point of its queue.                                                     *)
ReportsAddUp ==
  \A i \in OrderIds :
    /\ OneHears(i)
    /\ \A s \in Strategies :
         /\ CompletedIsLast(rspMq[s], i, i < nextOrderId /\ i \notin Live)
         /\ TotalsAddUp(rspMq[s], i)

=============================================================================
