-------------------------------- MODULE MCOms --------------------------------
(***************************************************************************)
(* Instances of Oms for TLC.                                               *)
(***************************************************************************)
EXTENDS OmsReports

CONSTANTS s1, s2, stranger, common, t1

Req(s, dir, off, type, price, vol) ==
  [mq |-> IF s = stranger THEN s1 ELSE s, strategy |-> s, ticker |-> t1,
   direction |-> dir, offset |-> off, type |-> type, price |-> price,
   volume |-> vol, withoutCheck |-> FALSE]

Unchecked(req) == [req EXCEPT !.withoutCheck = TRUE]

(* Opening and closing, on both sides, by two strategies, and an order     *)
(* past the risk rules of a strategy nobody configured.                    *)
LedgerRequests ==
  { Req(s1, "buy", "open", "limit", 2, 2),
    Req(s1, "sell", "close", "limit", 3, 1),
    Req(s2, "sell", "open", "fak", 2, 1),
    Req(s2, "buy", "close_today", "limit", 1, 2),
    Unchecked(Req(stranger, "buy", "open", "limit", 1, 1)) }

(* Orders whose life the strategies follow.                                *)
FollowedRequests ==
  { Req(s1, "buy", "open", "limit", 1, 2), Req(s2, "sell", "close", "fak", 1, 2) }

(* Beside them a market order past the risk rules, of a strategy nobody    *)
(* configured.                                                             *)
ReportRequests ==
  FollowedRequests \cup {Unchecked(Req(stranger, "sell", "open", "market", 0, 1))}

MCMarginUnit == [t \in Tickers |-> [d \in Directions |-> IF d = "buy" THEN 1 ELSE 2]]

Detail(h) == [holdings |-> h, yd |-> 0, openPending |-> 0, closePending |-> 0]

(* s1 is long 1, s2 is short 2, the pool holds two lots nobody owns.       *)
MCInitBook ==
  [p \in Pools |-> [t \in Tickers |-> [d \in Directions |->
     Detail(IF p = s1 /\ d = "buy" THEN 1
            ELSE IF p = s2 /\ d = "sell" THEN 2
            ELSE IF p = Common THEN 2 ELSE 0)]]]

MCInitAccount == [totalAsset |-> 10, cash |-> 6, margin |-> 4, frozen |-> 0]

(* The broker counts margin, and an order as frozen, in its own way.       *)
MCBrokerAccounts == {[totalAsset |-> 11, cash |-> 3, margin |-> 5, frozen |-> 3]}
=============================================================================
