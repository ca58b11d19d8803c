---------------------------- MODULE OrderReports ----------------------------
(***************************************************************************)
(* What the trader promises a strategy about the responses to its orders,  *)
(* without saying how: they give every order the same shape of life.  An   *)
(* order is silent, then perhaps working, with fills that only grow, then  *)
(* done, and the completed response is said once.  An error says that      *)
(* nothing was filled.                                                     *)
(***************************************************************************)
EXTENDS Integers

CONSTANTS OrderIds, MaxVolume

VARIABLE view   \* what the responses written so far say of every order

(* What may be said of an order, with n lots filled.                       *)
Silent == [phase |-> "silent", filled |-> 0, answers |-> 0, failed |-> FALSE]

Working(n) == [phase |-> "working", filled |-> n, answers |-> 0, failed |-> FALSE]

Done(n, failed) == [phase |-> "done", filled |-> n, answers |-> 1, failed |-> failed]

Init == view = [i \in OrderIds |-> Silent]

(* v is said of order i and nothing of the others.  (The second conjunct   *)
(* implies the first, which spares TLC most evaluations of the second.)    *)
Become(i, v) == view'[i] = v /\ view' = [view EXCEPT ![i] = v]

(* An accepted response, or a cancel that came before the last fills.      *)
Accept(i) == view[i].phase = "silent" /\ Become(i, Working(0))

(* A fill, the last one perhaps.                                           *)
Fill(i, n) ==
  \/ Become(i, Working(view[i].filled + n))
  \/ Become(i, Done(view[i].filled + n, FALSE))

(* The rest was cancelled.                                                 *)
Cancel(i) == Become(i, Done(view[i].filled, FALSE))

(* Refused by a risk rule, not sent, or rejected.                          *)
Fail(i) == view[i].filled = 0 /\ Become(i, Done(0, TRUE))

(* Nothing is said of an order after it is done.                           *)
Next ==
  \E i \in OrderIds :
    /\ view[i].phase # "done"
    /\ \/ Accept(i) \/ Cancel(i) \/ Fail(i)
       \/ \E n \in 1 .. MaxVolume - view[i].filled : Fill(i, n)

Spec == Init /\ [][Next]_view

=============================================================================
