----------------------------- MODULE MCRuntime -----------------------------
(***************************************************************************)
(* What runs around the OMS, for TLC: MainLoop (the loops of the trader    *)
(* and of the strategies), TargetPos (a strategy that follows a target     *)
(* position), Throttle (how many orders the OMS lets through in a period)  *)
(* and TimerThread (what the OMS does regularly).  A behaviour is of one   *)
(* instance, the subject; the others stay in their first state.            *)
(***************************************************************************)
EXTENDS Integers, Sequences, FiniteSets

CONSTANTS
  Subjects

VARIABLES
  subject,  \* the instance this behaviour is of
  engine, orders, cmds, live, nextId, rsps, open, base,
  clock, times, current, sent, refused,
  now, queue, adding, thread, running, stopping, runs, removed,
  cmdq, ring, rspq, tickq, mdq, main, strat, working, fed, late

targetVars == <<engine, orders, cmds, live, nextId, rsps, open, base>>
throttleVars == <<clock, times, current, sent, refused>>
timerVars == <<now, queue, adding, thread, running, stopping, runs, removed>>
loopVars == <<cmdq, ring, rspq, tickq, mdq, main, strat, working, fed, late>>
vars == <<subject, targetVars, throttleVars, timerVars, loopVars>>

TwoQuotes == {[ask |-> 2, bid |-> 1], [ask |-> 3, bid |-> 2]}
LongShort == {-1, 2}
OneEachWay == {-1, 1}

\* A live strategy has not heard the end of its order.
Open(s) == subject = "live" /\ strat[s].open > 0

PatientTarget == INSTANCE TargetPos WITH
  Quotes <- TwoQuotes, MaxOrders <- 5, MaxCancels <- 1, Patient <- TRUE,
  Targets <- LongShort, Rejects <- {"send"}
RefusedTarget == INSTANCE TargetPos WITH
  Quotes <- TwoQuotes, MaxOrders <- 5, MaxCancels <- 1, Patient <- TRUE,
  Targets <- OneEachWay, Rejects <- {"send", "exchange"}
Rate == INSTANCE Throttle WITH
  now <- clock, queue <- times, Limit <- 2, Period <- 3, Width <- 16,
  Start <- 3, MaxTime <- 9, Unchecked <- FALSE, MaxSent <- 6
Emergency == INSTANCE Throttle WITH
  now <- clock, queue <- times, Limit <- 2, Period <- 3, Width <- 16,
  Start <- 3, MaxTime <- 9, Unchecked <- TRUE, MaxSent <- 5
Timed == INSTANCE TimerThread WITH
  Tasks <- {0, 1}, Intervals <- {1, 2}, Horizon <- 4, Once <- {TRUE, FALSE}
Ticking == INSTANCE TimerThread WITH
  Tasks <- {0, 1}, Intervals <- {1, 2}, Horizon <- 2, Once <- {FALSE}
Backtesting == INSTANCE MainLoop WITH
  Strategies <- 1, Backtest <- TRUE, Waits <- FALSE, Reactions <- 0, MaxTicks <- 4
Answering == INSTANCE MainLoop WITH
  Strategies <- 1, Backtest <- TRUE, Waits <- FALSE, Reactions <- 2, MaxTicks <- 3
Live == INSTANCE MainLoop WITH
  Strategies <- 2, Backtest <- FALSE, Waits <- TRUE, Reactions <- 0, MaxTicks <- 0

(* What the modules assume of their constants. *)
ASSUME InstancesAssumption ==
  /\ PatientTarget!TargetPosAssumption
  /\ RefusedTarget!TargetPosAssumption
  /\ Rate!ThrottleAssumption
  /\ Emergency!ThrottleAssumption
  /\ Timed!TimerAssumption
  /\ Ticking!TimerAssumption
  /\ Backtesting!MainLoopAssumption
  /\ Answering!MainLoopAssumption
  /\ Live!MainLoopAssumption

TargetInit ==
  \/ subject = "patient target" /\ PatientTarget!Init
  \/ subject = "refused target" /\ RefusedTarget!Init
  \/ subject \notin {"patient target", "refused target"} /\ PatientTarget!Init
TargetNext ==
  \/ subject = "patient target" /\ PatientTarget!Next
  \/ subject = "refused target" /\ RefusedTarget!Next

ThrottleInit ==
  \/ subject = "rate" /\ Rate!Init
  \/ subject = "emergency" /\ Emergency!Init
  \/ subject \notin {"rate", "emergency"} /\ Rate!Init
ThrottleNext ==
  \/ subject = "rate" /\ Rate!Next
  \/ subject = "emergency" /\ Emergency!Next

TimerInit ==
  \/ subject = "tasks" /\ Timed!Init
  \/ subject = "ticking" /\ Ticking!Init
  \/ subject \notin {"tasks", "ticking"} /\ Ticking!Init
TimerNext ==
  \/ subject = "tasks" /\ Timed!Next
  \/ subject = "ticking" /\ Ticking!Next

LoopInit ==
  \/ subject = "backtest" /\ Backtesting!Init
  \/ subject = "answering" /\ Answering!Init
  \/ subject = "live" /\ Live!Init
  \/ subject \notin {"backtest", "answering", "live"} /\ Backtesting!Init
LoopNext ==
  \/ subject = "backtest" /\ Backtesting!Next
  \/ subject = "answering" /\ Answering!Next
  \/ subject = "live" /\ Live!Next

Init ==
  /\ subject \in Subjects
  /\ TargetInit
  /\ ThrottleInit
  /\ TimerInit
  /\ LoopInit

Next ==
  /\ UNCHANGED subject
  /\ \/ TargetNext /\ UNCHANGED <<throttleVars, timerVars, loopVars>>
     \/ ThrottleNext /\ UNCHANGED <<targetVars, timerVars, loopVars>>
     \/ TimerNext /\ UNCHANGED <<targetVars, throttleVars, loopVars>>
     \/ LoopNext /\ UNCHANGED <<targetVars, throttleVars, timerVars>>

Spec == Init /\ [][Next]_vars

(* Every loop is a thread or a process of its own; the market goes on, the *)
(* clock too; a mutex that is often free is had at last.                   *)
FairSpec ==
  /\ Spec
  /\ WF_timerVars(subject = "ticking" /\ Ticking!Tick)
  /\ WF_timerVars(subject = "ticking" /\ Ticking!MainLoop)
  /\ WF_timerVars(subject = "ticking" /\ Ticking!StopNotify)
  /\ WF_timerVars(subject = "ticking" /\ Ticking!StopJoin)
  /\ \A t \in {0, 1} : SF_timerVars(subject = "ticking" /\ Ticking!Emplace(t))
  /\ WF_loopVars(subject = "backtest" /\ Backtesting!Run)
  /\ WF_loopVars(subject = "backtest" /\ Backtesting!ProcessTick)
  /\ WF_loopVars(subject = "backtest" /\ Backtesting!Strategy(1))
  /\ WF_loopVars(subject = "answering" /\ Answering!Run)
  /\ WF_loopVars(subject = "answering" /\ Answering!ProcessTick)
  /\ WF_loopVars(subject = "answering" /\ Answering!Strategy(1))
  /\ WF_loopVars(subject = "live" /\ Live!Run)
  /\ WF_loopVars(subject = "live" /\ Live!ProcessTick)
  /\ WF_loopVars(subject = "live" /\ Live!Quote)
  /\ WF_loopVars(subject = "live" /\ Live!Market)
  /\ \A s \in {1, 2} : WF_loopVars(subject = "live" /\ Live!Strategy(s))

(* An engine that follows its target never has more on the way than takes  *)
(* the position there, its pending volumes are what its orders have left,  *)
(* over trades, cancels and refusals, it closes no more than it holds and  *)
(* with nothing on the way it does not rest away from the target           *)
(* (TargetPosEngine::OnTick, OnOrder, OnTrade).                            *)
NeverTooMuch ==
  /\ subject = "patient target" =>
       /\ PatientTarget!TypeOK /\ PatientTarget!PendingIsLeft
       /\ PatientTarget!NeverTooMuch /\ PatientTarget!NeverStuck
  /\ subject = "refused target" => RefusedTarget!NothingOverclosed

(* No period has more orders than the limit, at the instants where it      *)
(* ends, and an order is refused only when the last period is full, the    *)
(* orders that skipped the check counted                                   *)
(* (ThrottleRateRisk::CheckOrderRequest, OnOrderSent).                     *)
AtMostLimit ==
  /\ subject = "rate" => Rate!TypeOK /\ Rate!AtMostLimit /\ Rate!RefusedForCause
  /\ subject = "emergency" => Emergency!RefusedForCause

(* A timed task runs when it is due and never before, none once its        *)
(* removal has returned; it loses no round when a callback is late, and    *)
(* the thread does not sleep past a task that was added meanwhile          *)
(* (TimerThread::MainLoop, AddTask, RemoveTask).                           *)
TasksRunWhenDue ==
  /\ [](subject = "tasks" => Timed!TypeOK /\ Timed!RoundsAddUp /\ Timed!SleepsNoLonger)
  /\ [][subject = "tasks" =>
          /\ \A t \in {0, 1} : runs'[t] > runs[t] => now >= queue[t].expiry
          /\ \A t \in removed : runs'[t] = runs[t]]_timerVars

(* In a backtest with one strategy the orders decided on a tick are in the *)
(* match engine before the next tick is fed: over the tick ring, two       *)
(* queues and the loop that drains them, whatever orders the strategy's    *)
(* callbacks for responses put between them (Strategy::RunBacktest,        *)
(* OMS::ProcessCmd).                                                       *)
NoLateOrder ==
  /\ subject = "backtest" => Backtesting!TypeOK /\ Backtesting!NoLateOrder
  /\ subject = "answering" => Answering!TypeOK /\ Answering!NoLateOrder

(* The backtest's feed runs to its end; strategies that wait hear the end  *)
(* of their orders, in a market that never stops and beside each other; a  *)
(* due task runs, and the timer's Stop returns, though its notification    *)
(* may come between the thread's look at running_ and its wait.            *)
EveryoneIsServed ==
  /\ subject = "backtest" => Backtesting!FeedRunsToEnd
  /\ subject = "answering" => Answering!FeedRunsToEnd
  /\ \A s \in {1, 2} : Open(s) ~> ~Open(s)
  /\ subject = "ticking" => Ticking!DueRuns /\ Ticking!StopReturns
=============================================================================
