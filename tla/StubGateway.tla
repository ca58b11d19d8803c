---------------------------- MODULE StubGateway -----------------------------
(***************************************************************************)
(* The stub gateway under the OMS: it trades an order inside SendOrder,    *)
(* answers every cancel, whatever became of the order, and ticks from a    *)
(* thread of its own.  The OMS executes commands and takes reports on one  *)
(* thread, commands first; the report ring (1024 in gateway.h) has room    *)
(* for them.                                                               *)
(***************************************************************************)
EXTENDS Integers, Sequences, FiniteSets

CONSTANTS
  MaxOrders,   \* bound: orders
  MaxCancels,  \* bound: cancels that reach the gateway
  Tickers      \* how many tickers are subscribed

StubAssumption == MaxOrders \in Nat /\ MaxCancels \in Nat /\ Tickers \in Nat

VARIABLES
  sent,       \* the order id given last
  order_map,  \* the orders of the OMS: id -> accepted
  cancels,    \* history: cancels that reached the gateway
  rsp_rb,     \* the gateway's reports
  heard,      \* history: what strategies were told of each order
  running,    \* running_
  tick,       \* tick_thread_: None, Ended, or the next place in sub_list_
  logout      \* does Logout wait for the tick thread

omsVars == <<sent, order_map, cancels, rsp_rb, heard>>
tickVars == <<running, tick, logout>>
vars == <<omsVars, tickVars>>

Orders == 1 .. MaxOrders
None == 0
Ended == -1
Round == Tickers + 1  \* behind the last ticker

Init ==
  /\ sent = 0 /\ order_map = <<>> /\ cancels = 0 /\ rsp_rb = <<>>
  /\ heard = [o \in Orders |-> <<>>]
  /\ running = FALSE /\ tick = None /\ logout = FALSE

Report(o, kind) == [order |-> o, kind |-> kind]

SendReports(o) == <<Report(o, "accepted"), Report(o, "traded")>>

SendOrder ==
  LET o == sent + 1
  IN /\ o \in Orders /\ sent' = o
     /\ rsp_rb' = rsp_rb \o SendReports(o)
     /\ order_map' = [k \in DOMAIN order_map \cup {o} |-> k # o /\ order_map[k]]
     /\ UNCHANGED <<cancels, heard, tickVars>>

\* The report cancels no volume: OrderCanceledRsp{order_id}.
CancelReport(o) == Append(rsp_rb, Report(o, "canceled"))

CancelOrder(o) ==
  /\ cancels < MaxCancels /\ cancels' = cancels + 1
  /\ o \in DOMAIN order_map /\ rsp_rb' = CancelReport(o)
  /\ UNCHANGED <<sent, order_map, heard, tickVars>>

\* What the strategy is told: a trade of an order that was not accepted tells
\* both, a second acceptance nothing.
Told(rsp, accepted) ==
  CASE rsp.kind = "accepted" -> IF accepted THEN <<>> ELSE <<"accepted">>
    [] rsp.kind = "traded" -> IF accepted THEN <<"traded">> ELSE <<"accepted", "traded">>
    [] rsp.kind = "canceled" -> <<"canceled">>

\* A trade is of the whole volume and a cancel of none: the trade ends the order.
After(rsp) ==
  IF rsp.kind = "traded"
  THEN [k \in DOMAIN order_map \ {rsp.order} |-> order_map[k]]
  ELSE [order_map EXCEPT ![rsp.order] = @ \/ rsp.kind = "accepted"]

ProcessRsp ==
  LET rsp == Head(rsp_rb)
      o == rsp.order
  IN /\ rsp_rb # <<>> /\ rsp_rb' = Tail(rsp_rb)
     /\ \/ o \notin DOMAIN order_map /\ UNCHANGED <<order_map, heard>>
        \/ /\ o \in DOMAIN order_map /\ order_map' = After(rsp)
           /\ heard' = [heard EXCEPT ![o] = @ \o Told(rsp, order_map[o])]
     /\ UNCHANGED <<sent, cancels, tickVars>>

-----------------------------------------------------------------------------
(* The tick thread, and the user who starts and ends it. *)

Subscribe ==
  /\ ~running /\ tick = None /\ ~logout
  /\ running' = TRUE /\ tick' = Round /\ UNCHANGED <<logout, omsVars>>

Logout ==
  /\ ~logout /\ running' = FALSE /\ logout' = TRUE /\ UNCHANGED <<tick, omsVars>>

Join ==
  /\ logout /\ tick \in {None, Ended} /\ tick' = None /\ logout' = FALSE
  /\ UNCHANGED <<running, omsVars>>

(* Fault: the thread looks at running_ only when it starts. *)
NextRoundAlways == IF tick = Round THEN 1 ELSE tick + 1

NextRound == IF running THEN 1 ELSE Ended

StartRound ==
  /\ tick = Round /\ tick' = NextRound /\ UNCHANGED <<running, logout, omsVars>>

\* A tick of a known ticker, and a sleep; others are skipped.
GenerateTick ==
  /\ tick \in 1 .. Tickers /\ tick' = tick + 1
  /\ UNCHANGED <<running, logout, omsVars>>

GenerateTickData == StartRound \/ GenerateTick

Next ==
  \/ SendOrder \/ ProcessRsp \/ Subscribe \/ Logout \/ Join \/ GenerateTickData
  \/ \E o \in Orders : CancelOrder(o)

Spec == Init /\ [][Next]_vars /\ WF_vars(ProcessRsp) /\ WF_vars(GenerateTickData) /\ WF_vars(Join)

-----------------------------------------------------------------------------
TypeOK ==
  /\ sent \in 0 .. MaxOrders /\ DOMAIN order_map \subseteq 1 .. sent
  /\ tick \in -1 .. Round /\ (running => tick \in 1 .. Round)

\* A cancel report is behind the trade and finds no order: no strategy hears
\* of a cancel of what was traded (CancelOrder knows nothing of the order).
HeardInOrder ==
  \A o \in Orders : heard[o] \in {<<>>, <<"accepted">>, <<"accepted", "traded">>}

\* An order is in the OMS's map from SendOrder until its trade is told, though
\* both reports are on the ring before the map has it.
KeptUntilTraded ==
  \A o \in Orders : o \in DOMAIN order_map <=> sent >= o /\ Len(heard[o]) < 2

\* Every order is traded in the end.
Traded == \A o \in Orders : sent >= o ~> heard[o] = <<"accepted", "traded">>

\* Logout ends the tick thread in the middle of any round.
LogoutReturns == logout ~> ~logout
=============================================================================
