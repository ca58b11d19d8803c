------------------------------ MODULE MainLoop ------------------------------
(***************************************************************************)
(* How the trader's loops and the strategies' loops turn: the main loop    *)
(* drains every command queue and then takes up to three reports, the tick *)
(* thread passes ticks on, a strategy reads a response and then a tick.    *)
(* In a backtest a strategy's notification after each tick makes the       *)
(* gateway feed the next one.                                              *)
(*                                                                         *)
(* Queues are sequences; an order is its strategy, the tick it had read    *)
(* last and whether it was decided on that tick or on a response.  Every   *)
(* order is accepted and then traded.                                      *)
(***************************************************************************)
EXTENDS Integers, Sequences, FiniteSets, SequencesExt, Functions

CONSTANTS
  Strategies,  \* the command queues, in the order of their readers: 1 .. n
  Backtest,    \* RunBacktest and the backtest gateway, or Run and a market
  Waits,       \* does a strategy wait for the end of its order to send another
  Reactions,   \* bound: orders that a strategy sends from OnOrder and OnTrade
  MaxTicks     \* the ticks of the data file

MainLoopAssumption ==
  /\ Strategies \in Nat \ {0} /\ Backtest \in BOOLEAN /\ Waits \in BOOLEAN
  /\ Reactions \in Nat /\ MaxTicks \in Nat

VARIABLES
  cmdq,   \* trade_mq of every strategy
  ring,   \* rsp_rb_, the gateway's reports
  rspq,   \* rsp_mq of every strategy
  tickq,  \* tick_rb_
  mdq,    \* md_mq of every strategy
  main,   \* where the main loop is: in ProcessCmd at a reader, or in ProcessRsp
  strat,  \* what every strategy's loop reads next, the orders it has not heard the end of,
          \* the tick it has read and the orders it sent on responses
  working, \* the orders at the market, or in the match engine
  fed,    \* data_cursor_
  late    \* history: what orders were decided on that were executed after a later tick was fed

vars == <<cmdq, ring, rspq, tickq, mdq, main, strat, working, fed, late>>

Readers == 1 .. Strategies
Order(s, tick, on) == [type |-> "order", s |-> s, tick |-> tick, on |-> on]
Notify(s) == [type |-> "notify", s |-> s, tick |-> 0, on |-> "tick"]

OnInit(s) == IF Backtest THEN <<Notify(s)>> ELSE <<>>

(* Fault: no notification before the loop. *)
InitQuiet ==
  /\ cmdq = [s \in Readers |-> <<>>] /\ ring = <<>> /\ rspq = [s \in Readers |-> <<>>]
  /\ tickq = <<>> /\ mdq = [s \in Readers |-> <<>>]
  /\ main = [at |-> "cmd", reader |-> 1, count |-> 0]
  /\ strat = [s \in Readers |-> [reads |-> "rsp", open |-> 0, tick |-> 0, reacted |-> 0]]
  /\ working = <<>> /\ fed = 0 /\ late = {}

Init ==
  /\ cmdq = [s \in Readers |-> OnInit(s)] /\ ring = <<>> /\ rspq = [s \in Readers |-> <<>>]
  /\ tickq = <<>> /\ mdq = [s \in Readers |-> <<>>]
  /\ main = [at |-> "cmd", reader |-> 1, count |-> 0]
  /\ strat = [s \in Readers |-> [reads |-> "rsp", open |-> 0, tick |-> 0, reacted |-> 0]]
  /\ working = <<>> /\ fed = 0 /\ late = {}

-----------------------------------------------------------------------------
(* The main loop. *)

Rsp(order, completed) == [s |-> order.s, completed |-> completed]

\* The backtest gateway accepts at once; the market does so when it likes.
SendOrder(order) ==
  /\ IF Backtest THEN ring' = Append(ring, Rsp(order, FALSE)) ELSE UNCHANGED ring
  /\ working' = Append(working, order)
  /\ late' = IF Backtest /\ order.tick # fed THEN late \cup {order.on} ELSE late
  /\ UNCHANGED <<tickq, fed>>

\* OnNotify: the next tick trades what rests and goes to the tick thread.
Feed ==
  IF Backtest /\ fed < MaxTicks
  THEN /\ fed' = fed + 1 /\ tickq' = Append(tickq, fed + 1)
       /\ ring' = ring \o [i \in 1 .. Len(working) |-> Rsp(working[i], TRUE)]
       /\ working' = <<>> /\ UNCHANGED late
  ELSE UNCHANGED <<fed, tickq, ring, working, late>>

ExecuteCmd ==
  LET cmd == Head(cmdq[main.reader])
  IN /\ main.at = "cmd" /\ cmdq[main.reader] # <<>>
     /\ cmdq' = [cmdq EXCEPT ![main.reader] = Tail(@)]
     /\ IF cmd.type = "order" THEN SendOrder(cmd) ELSE Feed
     /\ UNCHANGED <<rspq, mdq, main, strat>>

(* Fault: the count of reports is not set back. *)
NextReaderCounting ==
  /\ main.at = "cmd" /\ cmdq[main.reader] = <<>>
  /\ main' = IF main.reader < Strategies THEN [main EXCEPT !.reader = @ + 1]
             ELSE [main EXCEPT !.at = "rsp", !.reader = 1]
  /\ UNCHANGED <<cmdq, ring, rspq, tickq, mdq, strat, working, fed, late>>

\* A reader without a frame: the next one, and after the last the reports.
NextReader ==
  /\ main.at = "cmd" /\ cmdq[main.reader] = <<>>
  /\ main' = IF main.reader < Strategies THEN [main EXCEPT !.reader = @ + 1]
             ELSE [at |-> "rsp", reader |-> 1, count |-> 0]
  /\ UNCHANGED <<cmdq, ring, rspq, tickq, mdq, strat, working, fed, late>>

RspsPerTurn == 3

ProcessRsp ==
  /\ main.at = "rsp" /\ main.count < RspsPerTurn /\ ring # <<>>
  /\ ring' = Tail(ring) /\ main' = [main EXCEPT !.count = @ + 1]
  /\ rspq' = [rspq EXCEPT ![Head(ring).s] = Append(@, Head(ring))]
  /\ UNCHANGED <<cmdq, tickq, mdq, strat, working, fed, late>>

EndTurn ==
  /\ main.at = "rsp" /\ (main.count = RspsPerTurn \/ ring = <<>>)
  /\ main' = [main EXCEPT !.at = "cmd"]
  /\ UNCHANGED <<cmdq, ring, rspq, tickq, mdq, strat, working, fed, late>>

Run == ExecuteCmd \/ NextReader \/ ProcessRsp \/ EndTurn

\* The tick thread.
ProcessTick ==
  /\ tickq # <<>> /\ tickq' = Tail(tickq)
  /\ mdq' = [s \in Readers |-> Append(mdq[s], Head(tickq))]
  /\ UNCHANGED <<cmdq, ring, rspq, main, strat, working, fed, late>>

-----------------------------------------------------------------------------
(* The strategies' loops. *)

\* A strategy sends at most one order for a tick, or for a response.
Orders(s, tick, on, open) ==
  {<<>>} \cup (IF Waits /\ open > 0 THEN {} ELSE {<<Order(s, tick, on)>>})

\* OnOrderResponse: OnOrder and OnTrade.
Answers(s, open) ==
  IF strat[s].reacted < Reactions THEN Orders(s, strat[s].tick, "rsp", open) ELSE {<<>>}

ReadRsp(s) ==
  /\ strat[s].reads = "rsp"
  /\ IF rspq[s] = <<>>
     THEN strat' = [strat EXCEPT ![s].reads = "tick"] /\ UNCHANGED <<cmdq, rspq>>
     ELSE LET open == strat[s].open - (IF Head(rspq[s]).completed THEN 1 ELSE 0)
          IN  \E orders \in Answers(s, open) :
                /\ rspq' = [rspq EXCEPT ![s] = Tail(@)]
                /\ cmdq' = [cmdq EXCEPT ![s] = @ \o orders]
                /\ strat' = [strat EXCEPT ![s] =
                     [reads |-> "tick", open |-> open + Len(orders), tick |-> @.tick,
                      reacted |-> @.reacted + Len(orders)]]
  /\ UNCHANGED <<ring, tickq, mdq, main, working, fed, late>>

(* Fault: the notification is written before the strategy has seen the tick. *)
OnTickMsgNotified(s, orders) == (IF Backtest THEN <<Notify(s)>> ELSE <<>>) \o orders

OnTickMsg(s, orders) == orders \o (IF Backtest THEN <<Notify(s)>> ELSE <<>>)

ReadTick(s) ==
  /\ strat[s].reads = "tick"
  /\ IF mdq[s] = <<>>
     THEN strat' = [strat EXCEPT ![s].reads = "rsp"] /\ UNCHANGED <<cmdq, mdq>>
     ELSE \E orders \in Orders(s, Head(mdq[s]), "tick", strat[s].open) :
            /\ mdq' = [mdq EXCEPT ![s] = Tail(@)]
            /\ cmdq' = [cmdq EXCEPT ![s] = @ \o OnTickMsg(s, orders)]
            /\ strat' = [strat EXCEPT ![s] =
                 [reads |-> "rsp", open |-> @.open + Len(orders), tick |-> Head(mdq[s]),
                  reacted |-> @.reacted]]
  /\ UNCHANGED <<ring, rspq, tickq, main, working, fed, late>>

Strategy(s) == ReadRsp(s) \/ ReadTick(s)

-----------------------------------------------------------------------------
(* The market: it ticks for ever, a tick when the last one was read. *)

Quote ==
  /\ ~Backtest /\ tickq = <<>> /\ \A s \in Readers : mdq[s] = <<>>
  /\ tickq' = <<0>>
  /\ UNCHANGED <<cmdq, ring, rspq, mdq, main, strat, working, fed, late>>

\* The order sent first is accepted and traded.
Market ==
  /\ ~Backtest /\ working # <<>> /\ working' = Tail(working)
  /\ ring' = ring \o <<Rsp(Head(working), FALSE), Rsp(Head(working), TRUE)>>
  /\ UNCHANGED <<cmdq, rspq, tickq, mdq, main, strat, fed, late>>

Next == Run \/ ProcessTick \/ Quote \/ Market \/ \E s \in Readers : Strategy(s)

\* Every loop is a thread or a process of its own and is scheduled.
Fairness ==
  /\ WF_vars(Run) /\ WF_vars(ProcessTick) /\ WF_vars(Quote) /\ WF_vars(Market)
  /\ \A s \in Readers : WF_vars(Strategy(s))

Spec == Init /\ [][Next]_vars /\ Fairness

-----------------------------------------------------------------------------
TypeOK ==
  /\ main.reader \in Readers /\ main.count \in 0 .. 3
  /\ fed \in 0 .. MaxTicks /\ late \subseteq {"tick", "rsp"}
  /\ \A s \in Readers : strat[s].open \in Nat /\ strat[s].reacted \in 0 .. Reactions

\* In a backtest with one strategy the orders decided on a tick are in the
\* match engine before the next tick is fed: over the tick ring, two queues
\* and the loop that drains them, whatever orders its callbacks for responses
\* send meanwhile (Strategy::RunBacktest, ProcessCmd).
NoLateOrder == "tick" \notin late

\* The same of the orders that those callbacks send.
NoLateAnswer == "rsp" \notin late

\* The feed runs to its end, whatever the strategies do: the chain of
\* notifications and ticks is not broken.
FeedRunsToEnd == Backtest => <>(fed = MaxTicks)

\* A strategy hears the end of its order, in a market that never stops and
\* beside other strategies, when they wait for theirs (ProcessCmd's inner
\* loop ends).
Answered == \A s \in Readers : strat[s].open > 0 ~> strat[s].open = 0
=============================================================================
