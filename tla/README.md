# A TLA+ verification of ft

`ft` is a trading system in C++17.  Strategies run in processes of their own
and write order commands to a trader process; the trader checks them against
risk rules, sends them through a gateway to a broker or an exchange, follows
what becomes of them and answers the strategies.  This directory holds TLA+
models of the parts of `ft` whose correctness depends on the order in which
things happen, the TLC configurations that check them on small instances, and
theorems about them checked by TLAPS.

All paths below are relative to the repository.  A definition of a module names
the function it translates in its comment or in `PROJECT.json` ("map").

## 1. The system

```
 strategy process --- trade queue (journal) --->  +-----------------------------+
   Strategy, OrderSender                          | trader process              |
   TargetPosEngine, BarGenerator                  |   main loop:                |
 strategy process <-- response queue (journal) -- |     ProcessTick             |
                                                  |     ProcessCmd -> SendOrder |
                                                  |     ProcessRsp -> handlers  |
 quote queues     <-- md queue (journal) -------- |   timer thread: OnTimer     |
                                                  |   writer thread: redis      |
                                                  +-------------+---------------+
                                             gateway (CTP, XTP, |  ring buffers:
                                             backtest, stub)    |  orders, ticks, queries
                                                  +-------------v---------------+
                                                  | broker / exchange           |
                                                  +-----------------------------+
```

### 1.1 Inventory

For each component: its state, its operations, with whom it interacts, what is
hard about it, and what makes it correct.

| Component (source) | State | Operations | Interacts with | Hard behaviour | Correct when |
|---|---|---|---|---|---|
| Order management system (`src/trader/oms.cpp`) | `next_order_id_`, `order_map_`, `account_`, `pos_manager_`, journal readers and writers, one spin lock | `SendOrder`, `CancelOrder`, `CancelForTicker`, `CancelAll`, handlers of the five gateway responses, `OnTimer`/`OnAccount`, `OnTick`, start-up (`Init*`, `OnPositions`, `RecoveryStrategyPositions`) | strategies by journals, gateway by calls and rings, risk rules and position manager by calls, redis by the writer thread | trades, accepted and cancel reports arrive in any order; commands interleave with reports; a send may fail; the timer replaces the account in between | an order is answered completely and completed once; no trade is dropped; counters and account follow the orders |
| Risk rules (`src/trader/risk/`) | pointers to the account, the position manager and the order map; a queue of times (throttle) | `CheckOrderRequest`, `OnOrderSent`, `OnOrderTraded`, `OnOrderCanceled`, `OnOrderRejected`, ... | called by the OMS under its lock | several orders are under way before the first one trades; partial fills at other prices than the order's; orders that skip the checks | no self trade, no close of more than is held, frozen money equals what orders may need |
| Position manager and calculator (`src/component/position/`) | holdings, yesterday's holdings, pending opens and closes, per strategy, ticker and side; a common pool | `UpdatePending`, `UpdateTraded`, `GetPosition`, `SetPosition`, `MovePosition` | OMS, position risk, redis through a callback | strategies that are not configured; pending counters kept in small steps | counters are never negative, holdings follow executions |
| Gateway base class (`src/trader/gateway/gateway.h`) | three ring buffers | `OnOrderAccepted`, ... (producer), `Get*RB` (consumer) | vendor threads, main loop, timer thread | a callback blocks on a full ring | reports reach the OMS once and in order |
| Ring buffer (`include/ft/utils/ring_buffer.h`) | two atomic indices, slots | `Put`, `Get`, `PutWithBlocking`, `GetWithBlocking` | one producer, one consumer thread | each decides on an old value of the other's index; indices wrap | bounded queue, nothing lost, repeated or reordered, no slot shared |
| Position store (`src/trader/trader_db_updater.h`, `src/component/trader_db.cpp`) | ring of updates, redis keys, a writer thread | `SetPosition`, writer loop, `GetAllPositions`, `ClearPositions` | OMS (main thread), redis | the writer ends after a failed SET; start-up reads while the writer writes; crash between two updates | after a restart the store says what each strategy holds |
| Throttle rule (`.../throttle_rate_risk.cpp`) | a queue of send times | `Check`, `OnOrderSent` | OMS | a send that was not checked is counted at a stale time | at most the configured number of orders in any period |
| CTP gateway (`src/trader/gateway/ctp/`) | connection flags, `order_ref_base_`, query buffers | login, reconnection, `SendOrder`, `CancelOrder`, callbacks, queries | vendor threads, OMS | reconnection while orders are live; callbacks in vendor order | a report is attributed to the order it is about |
| XTP gateway (`src/trader/gateway/xtp/`) | session, query buffers | the same | the same | trade and order events are separate streams | the same |
| Backtest gateway and match engines (`src/trader/gateway/backtest/`) | order lists by price, virtual account, current ticks | `SendOrder`, `CancelOrder`, `OnDataFeed`, matching per tick | OMS main loop, on the same thread | producer and consumer of its rings are one thread; lists are changed while iterated | each lot of an order is executed or cancelled once |
| Stub gateway (`src/trader/gateway/stub/`) | orders' answers on the ring, `running_`, a tick thread | `SendOrder`, `CancelOrder`, `Subscribe`, `Logout` | OMS | a cancel of an order it has already traded; a thread to be joined | an order is traded, its cancel says nothing, `Logout` returns |
| Quote gateways (`ctp_quote_api.cpp`, `_xtp_quote_api.cpp`) | `status_`, subscription list, the converter's day | `Login`, `Subscribe`, `OnRtnDepthMarketData`, `OnDepthMarketData` | OMS (tick ring), strategies (journals) | login by callbacks, reconnection, days changing under way | every tick of a subscribed ticker reaches its strategies once, in order |
| Strategy runtime (`src/strategy/strategy.cpp`, `include/ft/strategy/`) | readers of its queues | `SendOrder`, `CancelOrder`, `OnTick`, `OnOrderResponse` | trader by journals | responses for many orders interleave | a strategy hears of its own orders only |
| Target position engine (`src/strategy/algo_order/target_pos_engine.cpp`) | target, holdings, pending volumes, orders | `SetTargetPos`, `OnTick`, `OnOrder`, `OnTrade` | strategy runtime | pending counters against responses in any order; rejected orders | it reaches the target and never overshoots |
| Bar generator (`src/strategy/bar_generator.cpp`) | current bar per ticker and period | `OnTick` | strategy runtime | period boundaries | each tick is in one bar |
| Journal (`src/component/yijinjing/`) | memory-mapped pages of frames | `write_frame`, `getNextFrame`, page change, `seekTime` | one writer, many readers, other processes | a reader sees a frame while it is written; page changes; a writer that crashes | readers see all frames in order, none half written |
| Lock-free queue (`src/utils/lockfree-queue/`) | two rings of node ids in shared memory | `LFQueue_push`, `LFQueue_pop` | many producers and consumers | lap counters, helping | bounded queue |
| Timer thread (`include/ft/utils/timer_thread.h`) | task map, `running_`, condition variable | `AddTask`, `RemoveTask`, `Start`, `Stop`, main loop | OMS | a stop that is not noticed, tasks that change the task map | tasks run once per interval, `Stop` returns |
| Order book (`src/component/order_book/`) | price levels, order table | `AddOrder`, `ModifyOrder`, `ExecuteOrder`, `RemoveOrder`, `Tick` | market data users | three structures kept side by side | levels hold the orders, totals add up |
| Page service (`src/component/yijinjing/paged/`) | clients, a shared table of messages, counts of readers and writers per page, mapped pages, tasks | `reg_journal`, `initiate_page`, `release_page`, `exit_client`, `start_comm`, tasks | journal clients in other processes | clients that die while their request is open | a page is mapped while somebody uses it and no longer |
| Networking (`src/component/networking.cpp`) | task queue, async handle, connections, receive buffers | `Connect`, `Disconnect`, `SendMsg`, the loop's callbacks | any thread, peers | TCP cuts the stream; wakeups coalesce; writes retried on the loop's thread | messages arrive whole and in order |
| Contract table and its collector (`src/component/contract_table.cpp`, `src/tools/contract_collector.cpp`) | two indices of the contracts, a file, the query ring | `QueryContractList`, `Init`, `GetByIndex`, `GetByTicker` | gateways, every program | the ring is shorter than the list; two exchanges answer | the table holds every contract the library listed |
| Calendar (`src/utils/datetime.cpp`) | year, month, day, time fields | `+`, `-`, conversions | market data, tools | ends of months and leap years, borrowing | days added add up |
| Spin lock, YAML configuration, market server, demos, benchmarks | | | | | section 8 |

### 1.2 How the core works

The OMS's handlers hold `spinlock_` from their first read to their last write
(the lock is taken in `SendOrder`, in the cancel functions, in every response
handler and in `OnAccount`), so each is one atomic action.  What interleaves
is: which command the main loop executes, which report is next on the ring,
when the timer thread brings a new account, and what happens at the exchange.
An order takes an id, passes the rules, is sent, put in the map, and booked by
the rules (`OnOrderSent`).  Every report about it is booked by the rules and
answered to the strategy; the report that makes `traded + canceled == volume`,
or a rejection, erases the order.  Position and account are therefore ledgers
kept in small steps by calls that must add up, whatever the order of events.

## 2. Layout

The OMS is the core: every other part is an input to it or uses its answers, so
it was modelled first and is what the theorems are about.  Around it, what it
rests on (rings, journals, gateways, store, start-up), then the strategy side.

| Concern | Modules | Run |
|---|---|---|
| The OMS between strategies and exchange | `TradeMsg` <- `PositionManager` <- `RiskRules` <- `Oms`; abstract: `OrderReports`, refined in `OmsReports` | `oms_*` (`MCOms`) |
| Theorems | `Sums`, `OmsProofs`; `GatewayProofs`; `RingBufferProofs`; `LFQueueProofs`; `ThrottleProofs`; `RuntimeProofs`; `RecoveryProofs` | section 6 |
| How threads and processes talk | `RingBuffer`, `LFQueue` (abstract: `Fifo`), `Journal`, `PageEngine`, `Networking` | `queues`, `queues_progress` (`MCQueues`) |
| Gateways to a real market | `Broker` <- `CtpTradeApi`, `XtpTradeApi`; `Quotes`; `StubGateway` | `gateways` (`MCGateways`) |
| The simulated market | `PositionManager` <- `MatchEngine` <- `AdvancedMatchEngine` <- `BacktestGateway` | `backtest` (`MCBacktest`) |
| Start and restart | `Contracts`; `QueryAnswers` <- `Startup`; `Recovery` | `startup` (`MCStartup`) |
| Market data | `BarGenerator`, `OrderBook`, `Datetime` | `market_data` (`MCMarketData`) |
| Loops, throttle, timer, target position | `MainLoop`, `Throttle`, `TimerThread`, `TargetPos` | `runtime` (`MCRuntime`) |

`A <- B` reads: B extends A.  What one module assumes of another is checked
there: `Oms` uses the ring as a sequence, which `RingBuffer` implements; it
assumes of its `exchange` that an order has one end and that executions stay
within its volume, which `ReportsAreSound` says of the CTP and XTP gateways over
`Broker` (proved, section 6), and `OrderEndsOnce` of the backtest gateway; it uses journals as
sequences, which `ReadsWhatWasWritten` says of `Journal`; it takes the initial
book as given, which `Startup` and `Recovery` produce; `OrderReports` is what
`TargetPos` relies on.

**Composite instances.**  Modules of one concern share no variable in the code,
so checking them side by side would only multiply their states.  `MCQueues`,
`MCGateways`, `MCBacktest`, `MCStartup`, `MCMarketData` and `MCRuntime` hold a
variable `subject` that names one *instance* of a module, `INSTANCE ... WITH` its
constants and variables; `Next` steps that instance and leaves the variables of
the others at their first state.  The constant `Subjects` of a cfg lists the
instances of the run, and each property says, per subject, what is checked of
it.  `ASSUME InstancesAssumption` conjoins the assumptions of all instances.

## 3. Modules and code

### 3.1 The order management system

* **`TradeMsg`**: directions, offsets, order types, `OrderRequest` (the fields
  of `TraderOrderReq` and `TraderCommand` that `SendOrder` reads).  Prices are
  naturals (multiples of the tick), on which the code's comparisons with a
  slack of 1e-5 are exact.  `IsOffsetClose` is a mask test in the code, and
  `kOffsetNone` passes it.
* **`PositionManager`**: the position book.  `UpdatePending`, `UpdateTraded`
  are the functions of the same name with the calculator's part
  (`PendingDetail`, `TradedDetail`); `FindCalculator` falls back to the common
  pool while `GetPosition` (in `Available`) does not.
* **`RiskRules`**: the checks and hooks of `FundRisk`, `PositionRisk` and
  `SelfTradeRisk` as pure operators on account and book.  The fund rule's slack
  of 10 per cent is `11 * cash >= 10 * margin`.  `MarginUnit` is contract size
  times margin rate and may differ between the directions.
* **`Oms`**: one action per way out of `SendOrder` (`RefuseOrder`, `FailToSend`,
  `SubmitOrder`), one per cancel command, one per response handler
  (`OnAccepted`, `OnRejected`, `OnTraded`, `OnCanceled`, `OnCancelRejected`), and
  `OnAccount` for the timer thread.  `rspRing` is the gateway's order ring;
  `rspMq` are the response queues.  `exchange` and `cancelReq` are external: an
  order at the exchange has an open volume, may be accepted (once or again),
  executed, rejected, cancelled on request or at once when its type may not
  rest; executions are reported later and on their own stream, so that a cancel
  report may come before trade reports and an accepted report after them.
  `baseline` is a history variable: what the last answer of the broker said.
* **`OrderReports`**: what a strategy is promised about each order;
  **`OmsReports`** maps the response queues to it and states the refinement: an
  order's reports are the positions of the queues that name it, and of these
  the last response counts.
* Sums over the orders, and over the reports about one, are `SumTo` of `Sums`, a
  recursive function.

### 3.2 Queues, journals, connections

* **`RingBuffer`**: every load, move and store of `Put` and `Get` is a step.
  A thread may load an old value of the other's index, never one older than it
  has loaded before (`seenTail`, `seenHead`): release stores and acquire loads
  of one location.  Indices wrap at `Modulus` as 2^64 does in the code.
  **`Fifo`** is the bounded queue it implements.
* **`LFQueue`**: `LFQueue_push`, `LFQueue_pop` and the pointer variants over the
  two rings of ring.h, one atomic access per step (`LoadTail`, `LoadFilled`,
  `Take`, `FixTail`, ...), with overwriting, pause, reset, dump and load, and
  processes that end anywhere.  It refines `Fifo` too: `Queued` are the nodes of
  the sequence numbers that were given and not yet taken (`NextTaken` up to
  `NextGiven`), which the slots tell and not the indices, as these may be behind.
* **`Journal`**: `JournalWriter::write_frame`, `Journal::loadNextPage`, page
  locating and readers that merge journals.  The stores of a write are steps of
  their own, in the order of the code, and reach the shared memory in it (x86);
  `FinishPage`, `ClearNext` and the page's creation may be cut by a crash.
* **`PageEngine`**: the service's threads (`Comm` for `start_comm`, the tasks
  `PidCheck` and `TempPage`, `StopAll`), with clients that ask, end without
  notice and come back under the same name.  Clients and socket are external.
* **`Networking`**: `SendMsg`, `Connect`, `Disconnect` as tasks, the async handle
  with its coalesced wakeups, the loop's callbacks, and a TCP stream that is
  delivered in any pieces.

### 3.3 Gateways

* **`Broker`** (external): a broker's book behind a vendor's library, and what
  the OMS relies on in the reports it is told (`LivesAreSound`,
  `NoForeignReports`).
* **`CtpTradeApi`**: the login as the chain of callbacks it is (front connected,
  authentication, login, settlement, outstanding orders) beside the waiting
  thread; `OnRtnOrder` and `OnRtnTrade` with the tables of submit and order
  status; references of orders that wrap at `RefModulus`; disconnections.
* **`XtpTradeApi`**: the same for `OnOrderEvent`, `OnTradeEvent` and the answers to
  cancels, with events of other sessions of the account.
* **`Quotes`**: `CtpQuoteApi` and `XtpQuoteApi` up to the journals of the
  strategies: `InitMQ`, `Login`, `Subscribe`, `UpdateDate`, the conversion of
  depth data, `OnTick` of the OMS on the tick thread.
* **`StubGateway`**, **`BacktestGateway`** with **`MatchEngine`** (its last part is
  the simple engine) and **`AdvancedMatchEngine`** (both engines are operators from a book and a call to
  a new book and the events for the listener): orders, cancels, ticks, the
  account, and a main loop that is caller and reader of the report ring.

### 3.4 Start, restart, data

* **`QueryAnswers`**: how the trade APIs answer queries in parts, with errors,
  `pos_cache_` and the ends of answers.  **`Startup`** is the OMS over it:
  `InitAccount`, `InitPositions`, `InitTradeInfo`, then `OnTimer`.
* **`Recovery`**: `TraderDBUpdater` with its ring and thread, the redis session,
  `OnPositions`, `RecoveryStrategyPositions` and `MovePosition`; a crash keeps the
  store and the broker's positions.
* **`Contracts`**: the collector program, the two quote APIs' contract queries,
  the file, `ContractTable::Init`.
* **`BarGenerator`**, **`OrderBook`**, **`Datetime`**: the operations of the
  classes, against histories of what they were given.

### 3.5 The loops

* **`MainLoop`**: `Run` with the inner loop of `ProcessCmd` and three responses per
  `ProcessRsp`, the tick thread, `Strategy::Run` and `RunBacktest`; a strategy
  sends orders on ticks (`OnTick`) and on responses (`OnOrder`, `OnTrade`; the
  bound `Reactions`), and an order says which.
* **`TargetPos`**: `OnTick`, `OnOrder`, `OnTrade`, `SetTargetPos` beside the OMS
  that executes its commands and the queue of responses.
* **`Throttle`**: `CheckOrderRequest` and `OnOrderSent` on a clock of `Width` values.
* **`TimerThread`**: `AddTask` (which reads the clock before it has the mutex),
  `RemoveTask`, `Start`, `Stop`, `MainLoop` with its wait.

**Faults.**  Operators that a comment introduces as faults are plausible errors
of the code next to which they stand.  No specification uses them: each takes
the place of the operator it perturbs, to try that a property notices it.
`PROJECT.json` names one for each property of each run; of composite properties
other parts have theirs too:

| Property | Faults its parts notice besides |
|---|---|
| `NoSharedSlot` | `RingBuffer.StoreTailEarly` |
| `ReadsWhatWasWritten` | `Journal.ClearNextNever`, `Networking.LeftAll` |
| `PagesAreCounted` | `PageEngine.ReleasePageOneSide` |
| `EverythingArrives` | `Journal.FinishPageNever`, `RingBuffer.EmptyBySlot` |
| `CallsReturn` (queues) | `LFQueue.LookAgainForever`, `PageEngine.LookOn` |
| `ReportsAreSound` | `CtpTradeApi.RefBaseZero`, `XtpTradeApi.OrderReportsFallThrough`, `XtpTradeApi.EventAnySession` |
| `QuotesAreKept` | `Quotes.WritersFirst` |
| `CallsReturn` (gateways) | `Quotes.OnRspUserLoginSilent`, `StubGateway.NextRoundAlways` |
| `RestsUntilItEnds` | `MatchEngine.SimpleInsertKept` |
| `CountersAreResting` | `BacktestGateway.FundFilledAtTradePrice` |
| `PositionsAreBrokers` | `QueryAnswers.CachedAnew` |
| `HoldingsAreRecovered`, `StartupSettles` | `Recovery.ModifyPositionOld`, `Recovery.SetOnce` |
| `LevelsAreOrders`, `DaysAddUp` | `OrderBook.BetterLow`, `Datetime.TimeModPlain` |
| `NeverTooMuch`, `EveryoneIsServed` | `TargetPos.GapHeld`, `MainLoop.InitQuiet` |

## 4. Runs

| Run (cfg) | Question | Instances and bounds |
|---|---|---|
| `oms_ledger` (`MCOmsLedger`) | Are the counters, the account and the holdings what the orders and their executions say; does no assertion of the calculator fire, no close exceed holdings, no order meet another of the account, no trade get lost? | 2 strategies and a stranger past the risk rules, 5 requests (open and close, both sides, one `fak`, one `close_today`), 2 orders, ring of 2, trade prices on both sides of the limits, one answer of the broker that counts otherwise than the trader; 967,000 states |
| `oms_reports` (`MCOmsReports`) | Does what a strategy reads follow `OrderReports`, sends that fail included? | 2 requests of volume 2 and an unchecked market order of a stranger, `SendMayFail`, ring of 1 |
| `oms_progress` (`MCOmsProgress`) | Does an order the exchange has finished get completed, and does a cancel end its order? | 2 requests, `FairSpec` |
| `queues` (`MCQueues`) | Is every queue a bounded queue or a faithful stream, with nothing shared that must not be? | ring of 4 with 8 index values; lock-free queue full, overwriting, crashing, paused; journals with a crash and two merged; page service with two lives of a name; one stream, two links |
| `queues_progress` (`MCQueuesProgress`) | Does all that is put in arrive, does who waits go on? | ring of 2 with 4 index values; lock-free queue drained, crashing; journal read; page service answering, stopping; delivery over two links |
| `gateways` (`MCGateways`) | May the OMS rely on the reports, cancels, ticks and logins of the gateways? | CTP: two orders in one session, one order over three sessions with an order of an earlier run, login under two disconnections; XTP: two orders, one with partial fills; stub: 3 orders; quotes: 4 ticks, one lost connection |
| `backtest` (`MCBacktest`) | Do orders end once, and are counters, index and queue places those of the book? | simple engine: 2 of 4 requests, 2 of 3 ticks, ring of 2; advanced: 3 of 4 requests, 3 of 5 ticks on two levels, ring of 3 |
| `startup` (`MCStartup`) | Does the trader start with all of what library, broker and store hold, or after an error with none of it? | 10 contracts over a ring of 3, 7 on two exchanges, of which XTP's are all in a table or none; 5 rows of CTP, two sides of a ticker, one only frozen and one empty, 3 of XTP, each with answers without errors and with errors and a drop; 3 trades and a crash with a store that is slow, or fails, 2 trades and two crashes |
| `market_data` (`MCMarketData`) | Are bars, levels and dates what was put into them? | 5 ticks over three minutes of two tickers; 3 orders at 3 prices, no id twice; 1,500 days from 2100-02-20 by steps of -29, 1, 28 and 366; all fields around their carries from 1999-12-20 |
| `runtime` (`MCRuntime`) | Does nobody send too much or too late, and does everybody's turn come? | targets -1, 1, 2 with up to 5 orders; 6 orders at 2 per 3 ticks of time; 2 tasks of interval 1 and 2; one strategy in a backtest of 4 ticks, one of 3 ticks that sends 2 orders on responses too, two in a market that never stops |
| `oms_send_failure`, `oms_account_identity` | findings, section 5 | as `oms_ledger` |

Deadlock is checked in the `oms_*` runs.  The composite runs do not check it:
most of their instances may stop (a page service that was stopped, a collector
that has exited, a bounded history that is full, a failed assertion of the code),
and what must not stop is a liveness property of `queues_progress`, `CallsReturn`,
`StartupSettles` or `EveryoneIsServed`.

**Why the bounds are enough.**  Two orders are what the interactions between
orders need: self trade, two closes of one position, a close beside an open,
two orders whose reports alternate on the ring, a completed order beside a live
one.  Volume 2 gives a partial fill before and after a cancel.  A ring of two
holds a cancel report and a trade report in both orders, and is full often, so
that callbacks wait.  One accepted report per order is enough since `accepted`
is a flag.  The theorems of section 6 hold without these bounds.  The rings take
their indices around the wrap and their slots around twice; the lock-free queue
needs two producers and a consumer for every helping step, and one crash for
each point at which a slot and its index disagree.  Two sessions of a gateway
are needed for a report to cross from one to the next, and a third for a drop
inside the second login.  Two journals and two crashes, two lives of a client's
name, lists longer than the ring that carries them, three orders at three
prices (a level that empties in the middle), a century that is no leap year:
each is the smallest instance in which the case occurs at all.

**Properties of the OMS.**

* `PendingAccounted`, `FrozenAccounted`: the counters `PositionRisk` keeps and
  the money `FundRisk` freezes, kept by calls from five handlers, equal at any
  time what the order map says.
* `AssetNotLost`: cash, margin and frozen money never add up to less than in
  the broker's last answer.
* `PositionAsserts`, `NoOverClose`: the assertions of the calculator; all close
  orders under way together never ask for more than is held.
* `NoSelfTrade`: of two orders of the account open at the exchange none can
  trade with the other; it speaks of the exchange's state, the check of the
  order map's.
* `NoTradeLost`, `HoldingsFollowTrades`: an order leaves the map only when
  nothing of it is outstanding at the exchange or on the ring, and holdings are
  initial holdings plus executions taken from the ring.
* `FinalReportOnce`: what makes giving back sound: a rejection or cancel report
  reaches a live order once, a rejection only before its trades.
* `ReportsAddUp`, `ReportsImplemented`: what strategies read.
* `FinishedOrderCompletes`, `CancelEndsOrder`: progress.

**Properties of the other runs** are composed, per subject, of the named
properties of the modules; the comment of each in its MC module lists what it
says: `NoSharedSlot`, `QueuesAreFifo`, `ReadsWhatWasWritten`, `PagesAreCounted`,
`EverythingArrives`, `CallsReturn` (queues); `ReportsAreSound`, `CancelFindsOrder`,
`QuotesAreKept`, `CallsReturn` (gateways); `RestsUntilItEnds`,
`CountersAreResting`, `QueueIsFair` (backtest); `ContractsReachTable`,
`QueriesDoNotMix`, `PositionsAreBrokers`, `HoldingsAreRecovered`, `StartupSettles`
(startup); `BarsAreMinutes`, `LevelsAreOrders`, `DaysAddUp` (market data);
`NeverTooMuch`, `AtMostLimit`, `NoLateOrder`, `TasksRunWhenDue`,
`EveryoneIsServed` (runtime).

**Fairness.**  In `Oms`, `MainLoopFairness` (weak, on `ProcessRsp`): `Run` alternates
`ProcessCmd` and `ProcessRsp` for ever.  It assumes that `ProcessCmd` returns, which
its inner `while` only does when strategies pause: `MainLoop` models that loop
itself, and its progress is shown for strategies that wait for the end of an
order before they send the next (`Waits`).  `ExchangeFairness` (strong, on the
answer to a cancel and on reporting an execution): the broker answers and
reports; a callback that finds the ring full spins until there is room, so it is
enabled again and again rather than for ever.  Nothing makes the exchange
execute or a strategy send.  Elsewhere: threads and processes of the trader run
(weak fairness); a store becomes visible; fronts and libraries answer requests
while the connection is there, and reconnect; the clock goes on.  Strong fairness
is assumed where a thread competes for a mutex that is free again and again
(`TimerThread.Emplace`), or a callback for a ring.  Crashes, drops, errors and the
users' calls are never fair.

## 5. Findings

Two runs show what the code does against its own text:

1. **A send that fails** (`oms_send_failure`).  `SendOrder` calls
   `OnOrderRejected` (oms.cpp:195) although `OnOrderSent` was not called: the
   pending counter becomes negative and the assertion at calculator.cpp:48
   fires (the build does not define `NDEBUG`); frozen money goes negative too.
2. **The account's identity** (`oms_account_identity`).  trade_msg.h:134 says
   `total_asset = cash + margin + fronzen`.  Cutting a negative margin off to
   zero after adding the whole amount to cash breaks it.

The other disagreements met while modelling are stated as properties of their
modules, which TLC finds violated on the instance given here.  No run lists
them; the constants that are not given are those of the MC module.  The passing
runs use instances in which they do not occur, and cover the rest of the
component's behaviour.

| Property | What the code does, against which text | Instance |
|---|---|---|
| `Oms.NoSelfTrade` | self_trade_risk.cpp:34 says a market order is refused outright; only the resting order is tested for it, and a market order to buy has price 0 | requests: a limit sell and a market buy |
| `Oms.PositionAsserts` | an emergency close, which the comment at oms.cpp:174 allows, is booked on the strategy that sent it; when another one holds the position, holdings become negative (calculator.cpp:94 asserts otherwise) | an unchecked close |
| `Oms.FrozenCoversOrders` | `OnAccount` replaces the account with an answer the broker may have given before the order: its frozen money is gone (trade_msg.h:139: orders not yet traded have money reserved) | `BrokerAccounts` holds the initial account |
| `BacktestGateway.FrozenIsResting` | a `kBest` order is frozen at the price it came with and released at the price it rests at (backtest_gateway.cpp:47) | simple engine, a `best` order away from the market |
| `BacktestGateway.TickLeavesNoCross` | `OnNewTick` returns before its last loops when a tick has no volume, although "all sell orders below the bid must trade" (advanced_match_engine.cpp:328) | advanced engine, a tick that rises without volume |
| `BacktestGateway.CancelReturns` | the loop at advanced_match_engine.cpp:140 never advances: a cancel of any order but the first of its price does not return, with the lock held | advanced engine, two orders at a price |
| `BacktestGateway.AccountAddsUp` | `QueryAccount` copies the account without the lock (backtest_gateway.cpp:74) | simple engine, `MaxQueries = 1` |
| `CtpTradeApi.RefGivesId`, `CancelFindsOrder` | a reconnection moves `order_ref_base_`, so reports of earlier orders get other ids and cancels name other orders (GatewayDevelopment.md:41, gateway.h:61) | `MaxDisconnects = 1`, `MaxOrders = 1`, `MaxWire = 1` |
| `CtpTradeApi.OnlyOwnReports` | an order sent between the front's answer to a login and `OnRspUserLogin` gets a ref of the old base (ctp_trade_api.cpp:142); once the base has moved, its reports carry the id of an older order (ctp_trade_api.h:102; gateway.h:61) | `MaxDisconnects = 1`, `MaxOrders = 3`, `Volume = 1`, `MaxWire = 0`, `Leftovers = 0` |
| `XtpTradeApi.OutstandingCanceled` | `OnQueryOrder` answers an error with `status_ = 1`: `Login` returns true with nothing cancelled (xtp_trade_api.cpp:328, :64) | one leftover |
| `Startup.QueriesDoNotMix` | `OnRspQryTrade` ends an error with the end of a contract query (ctp_trade_api.cpp:596), against the assertion at oms.cpp:355 | CTP, `MayFail`, `Trades = 1` |
| `Startup.AllPositions` | an error ends the positions like an account without any (ctp_trade_api.cpp:456, xtp_trade_api.cpp:221), against "query all positions" (oms.cpp:305) | CTP or XTP, `MayFail` |
| `Startup.AccountIsRefreshed` | `OnTimer` waits for a result although `QueryAccount` returned false (oms.cpp:533); the timer never runs again | CTP, `MayFail` |
| `Contracts.AllContracts` | `OnQueryAllTickers` pushes contracts it has moved from, and clears those of the first exchange (_xtp_quote_api.cpp:142, :154) | XTP |
| `Quotes.LoginReturns` | `OnRspError` stores 0, the value `Login` waits on (ctp_quote_api.cpp:113); GatewayDevelopment.md:11 | CTP, `RspErrors` |
| `Quotes.QuotesResume` | nothing subscribes again after a reconnection (ctp_quote_api.cpp:100; ctp_trade_api.h:40) | CTP, `MaxDrops = 1` |
| `Quotes.BestLevelFirst` | levels 5..9 are written over 0..4 (_xtp_quote_api.cpp:201; README.md:252) | XTP |
| `Recovery.WrittenBeforeRecovery` | a sleep of 100 ms stands for "makes sure the positions have been written" (oms.cpp:487) | any |
| `LFQueue.PopReturns` | a pop of an empty queue does not return; queue.h:59 says it returns a negative value | `FairSpec` |
| `LFQueue.SeqIsItems` | a failed compare-and-swap overwrites the sequence number that is returned (ring.h:119, :72) | two producers |
| `Journal.MergedInOrder` | a frame's time is taken before it becomes visible (JournalWriter.cpp:50), so merged journals are not "in nano time order" (JournalReader.cpp:21) | two writers |
| `Journal.HoldsWhatWasWritten` | nothing keeps a second writer from a journal (JournalWriter.cpp:21, :82); `order_sender.h` makes one in every process | two writers of one journal |
| `Journal.EveryFrameIsRead` | a crash between creating the next page and ending the current one leaves readers there (Journal.cpp:73) | `MaxCrashes = 1`, `MaxPages = 4` |
| `Journal.LaterFramesAreRead` | a reader made before the journal's first page is expired for good (Journal.cpp:62; README.md:395) | `Starts = {"now"}` |
| `Journal.SeekFindsJournal` | a page without its header counts as no journal (Journal.cpp:60-62) | `Starts = {"now"}` |
| `PageEngine.CountsAreUsers` | `last_page_num` is set for a refused request too, and released at the next (PageEngine.cpp:435) | three clients, two of them writers |
| `PageEngine.SlotsAreOwned` | a request of a client that was just freed is served (PageEngine.cpp:424) | `DiesAsking` |
| `PageEngine.TaskIsRemoved` | `remove_task_by_name` erases only what it has not found (PageEngine.cpp:225; PageEngine.h:111) | `Removes` |
| `TargetPos.NeverStuck` | an order rejected after it was sent stays pending (target_pos_engine.cpp:140) | `Rejects = {"exchange"}` |
| `TargetPos.NeverStuck` | the close volume is negative when sells are under way (target_pos_engine.cpp:81) | not `Patient` |
| `Throttle.AtMostLimit` | the start of the period wraps while the machine has been up for less than one (throttle_rate_risk.cpp:32) | `Start = 0` |
| `Throttle.CheckedHasRoom` | an unchecked order is counted at the time of an earlier check (throttle_rate_risk.cpp:53) | `Unchecked` |
| `BarGenerator.OneBarPerMinute` | the bar's time has 32 bits, the tick's 64 (bar_generator.cpp:25) | `Width = 4` |
| `BarGenerator.BarIsItsMinute` | the first bar for a late callback covers everything since the start (bar_generator.cpp:27) | not `Registered` |
| `Networking.Received` | a message sent before its connection is made is retried on the loop's own thread for ever (networking.cpp:204) | `Eager` |
| `Networking.Received` | two nodes that both write more than the kernel holds wait for each other (networking.cpp:204) | both send, `Cap = 2` |
| `OrderBook.LevelsHoldOrders` | an id added twice is twice on its level while the map keeps the first order (order_book.cpp:11); test_order_book.cpp:13-19 adds two orders with id 0 | `Repeats` |
| `MainLoop.NoLateAnswer` | an order sent on a response (strategy.h:54-68) may be behind the notification of a tick read before it, and is executed after the next tick was fed (strategy.cpp:76, :88) | `Answering` |
| `Datetime.DifferenceIsAdded` | `Datetime + Timedelta` drops whole days unless the hours pass midnight (datetime.cpp:271) | `WholeDays` |
| `Datetime.Normalised` | an exact negative multiple of a base gives the base (datetime.h:35) | a difference of -60 seconds |
| `Datetime.BackAgain` | `operator-` passes seconds as hours (datetime.cpp:280) | `BackSpec` |

A document and the code number contracts differently: doc/ContractTable.md:6-8
gives the first contract the `ticker_id` 0, the code 1 (contract_table.cpp:93),
and `get_by_index` refuses 0 (contract_table.h:36), which the advanced engine
takes for "no tick yet" (advanced_match_engine.cpp:170).  `Contracts` numbers as
the code does, and `TableAgrees` says that ids and places belong together.

## 6. Theorems

All hold for every value of the constants that satisfies the named assumptions
of the modules: any strategies, tickers, requests, initial book, ring size and
number of orders (`OmsAssumption`, `MarginAssumption`, `PoolAssumption`); any
capacity that divides the number of index values (`RingAssumption`); any number
of nodes, producers, consumers, pushes, crashes and pauses
(`LFQueueAssumption`); any limit, period and clock (`ThrottleAssumption`); any
tasks and intervals (`TimerAssumption`); any orders, volumes, leftovers and
dropped connections at a gateway (`BrokerAssumption`, `CtpAssumption`,
`XtpAssumption`, `StubAssumption`); any ticks of a backtest
(`MainLoopAssumption`); any strategies with names of their own, holdings,
trades and crashes (`RecoveryAssumption`); any finite contract table and any rows of positions at
the broker, those of today no more than all under CTP (`QueryAssumption`).
`CtpAssumption` bounds the refs that all runs and
sessions use below the number of values an order ref has, which in the code is
2^64.

| Theorem | Says | Further assumption |
|---|---|---|
| `TypeCorrect` (`OmsProofs`) | `[]TypeOK` of `Oms` | none |
| `FinalReportCorrect` | `[]FinalReportOnce` | none |
| `LedgersCorrect` | `[]Ledgers`, the two below together | every send succeeds |
| `PendingCorrect` | `[]PendingAccounted` | every send succeeds |
| `FrozenCorrect` | `[]FrozenAccounted` | every send succeeds |
| `TradesAccounted` | `[]TradeInv` | none |
| `NoTradeLostCorrect` | `[]NoTradeLost` | none |
| `HoldingsCorrect` | `[]HoldingsFollowTrades` | none |
| `AssetCorrect` | `[]AssetNotLost` | none |
| `CloseCorrect` | `[]NoOverClose` | `ClosesAreChecked` |
| `PositionCorrect` | `[]PositionAsserts` | every send succeeds, `ClosesAreChecked` |
| `SelfTradeCorrect` | `[]NoSelfTrade` | `UnseenMeetNothing` |
| `HeardCorrect` | `[]HeardInv` | none |
| `ReportsCorrect` | `[]ReportsAddUp` | none |
| `ReportsRefined` | `ReportsImplemented`: `Oms` implements `OrderReports` | none |
| `RingTypeCorrect`, `RingInvCorrect` (`RingBufferProofs`) | `[]TypeOK`, `[]RingInv` | none |
| `RingRaceCorrect` | `[]NoSlotRace` | none |
| `RingFifoCorrect` | `RingBuffer` implements `Fifo` | none |
| `QueueTypeCorrect`, `NodesCorrect` (`LFQueueProofs`) | `[]TypeOK`, `[]NodeInv` | none |
| `SharedNodeCorrect` | `[]NoSharedNode` | none |
| `EncloseCorrect` | `[]IndicesEnclose` | none |
| `NodeLostCorrect` | `[]NoNodeLost` | none |
| `ResetCorrect` | `[][ResetRepairs]_vars` | none |
| `QueueStepsCorrect` | every step but a reset or a load is one of `Fifo` | none |
| `QueueFifoCorrect` | `LFQueue` implements `Fifo` | nobody pauses |
| `LimitCorrect` (`ThrottleProofs`) | `[]AtMostLimit` of `Throttle` | `Limited`, every order is checked, `Period <= Start` |
| `RoomCorrect` | `CheckedHasRoom` | as `LimitCorrect` |
| `RefusalCorrect` | `[]RefusedForCause` | none |
| `ThrottleTypeCorrect` | `[]TypeOK` | every order is checked |
| `RoundsCorrect` (`RuntimeProofs`) | `[]RoundsAddUp` of `TimerThread` | none |
| `SleepCorrect` | `[]SleepsNoLonger` | none |
| `NeverEarlyCorrect` | `NeverEarly` | none |
| `RemovedCorrect` | `RemovedNeverRuns` | none |
| `TimerTypeCorrect` | `[]TypeOK` | none |
| `NoLateOrderCorrect` | `[]NoLateOrder` of `MainLoop` | a backtest, one strategy |
| `QueriesDoNotMixCorrect`, `YesterdayCorrect` | `[]QueriesDoNotMix`, `[](TypeOK /\ YesterdayWithinHoldings)` of `Startup` | under CTP no errors |
| `AllPositionsCorrect` | `[]AllPositionsOrNone`; `[]AllPositions` without errors | the same; a side of a ticker has one row |
| `PoolsDivideBrokerCorrect` (`RecoveryProofs`) | `[](TypeOK /\ PoolsDivideBroker)` of `Recovery` | none |
| `RecoveredCorrect` | `[](Recovered /\ StoreFollowsBook)` | a store that answers (`~ SetFails`) |
| `XtpTypeCorrect`, `XtpOwnReportsCorrect`, `XtpReportsCorrect` (`GatewayProofs`) | `[]TypeOK`, `[]OnlyOwnReports`, `[]ReportsAreSound` of `XtpTradeApi` | none |
| `CtpTypeCorrect`, `CtpReportsCorrect`, `CtpLeftoversCorrect` | `[]TypeOK`, `[]ReportsAreSound`, `[]LeftoversKeptOut` of `CtpTradeApi` | none |
| `CtpOwnReportsCorrect` | `[](OnlyOwnReports /\ RefGivesId)` | `MaxDisconnects = 0` |
| `CtpCancelFindsCorrect` | `[]CancelFindsOrder` | `MaxDisconnects = 0` |
| `StubTypeCorrect`, `StubHeardCorrect`, `StubKeptCorrect` | `[]TypeOK`, `[]HeardInOrder`, `[]KeptUntilTraded` of `StubGateway` | none |

The further assumptions are needed, and the constants of `oms_ledger` and, for
the others, those of the instances `Rate`, `CtpOrders`, `Backtesting`,
`Answering`, `CtpQueries`, `XtpQueries`, `XtpAnswered`, `Restart` and `TwoRestarts` satisfy
them.  Finding 1 is a counterexample to
what needs every send to succeed (`~ SendMayFail`).  `ClosesAreChecked` (no close order skips the risk
rules) excludes the emergency close of section 5.  `UnseenMeetNothing` says of
the requests `SelfTradeRisk` does not see, those that skip the rules and market
orders, that none could trade with another request; the market order of section
5 is the counterexample.  A reset or a load replaces what the lock-free queue
holds, which no bounded queue does; both wait for a pause.  The throttle limits
nothing when it is not configured (`Limited`), counts unchecked orders at a stale
time, and drops everything while its period starts before the clock does
(section 5).  With a reconnection of CTP ids, refs and cancels no longer belong
together (section 5); what is told of one order is sound all the same, and
leftovers stay out.  With two strategies in a backtest the notification of one
makes the gateway feed the next tick while the other has not ordered yet.  An
error of CTP's answer about the trades ends it like another query's (section 5;
that the positions are all or none after CTP's errors too is checked on `CtpErrors`);
and of two rows for one side of a ticker `pos_cache_` keeps the last.  A position
that redis did not take is not written again, so that a restart finds an older one;
the pools divide the broker's holdings even then.

### 6.1 The order management system

**Ledgers.**  `PendingAccounted` is not inductive: a second cancel report for a
live order would give its volume back twice, and a rejection after a partial
fill would give back what was already taken off.  `FinalReportOnce` excludes
both: `ReportsOnRing` says that a final report on the ring is the only one for
its order, that its order is closed at the exchange, and that the order was not
cancelled before; `LiveOrders` and `ExchangeCounts` tie the map to the exchange.
It is inductive with `TypeOK`, whether sends fail or not, and `Ledgers` is
inductive on top of it.  A handler changes one order of the map.  `StoreEffect`
shows that storing and erasing change that order only (erasing counts as
storing it with nothing left), `SumToUpdate` that a sum changes by as much as
its one changed term, `PendingEffect`, `TradedEffect` and `FundEffect` what the
position manager and the fund rule do to the counters; `LedgerStep` puts them
together, once for all handlers.  `OnAccount` sets `baseline` so that the frozen
ledger starts anew.  `Sums` derives the facts about `SumTo` by induction on a
set of naturals (from the well-foundedness of `<`).

**Trades.**  That no trade finds its order gone is a statement about the past of
the exchange: an order is erased when the map counts nothing as outstanding, so
the map's count must be the exchange's.  `TradeInv` says of a live order that it
has counted the executions less those still to be reported and those on the
ring, that something of it is left, and that what is open, executed and
cancelled makes up its volume until a final report is on the ring; of one that
is not live, that nothing of it is at the exchange or on the ring; and of a
cancel report, that it is about all that was not executed, although trade
reports may come after it.  `HoldingsInv` adds, per pool, ticker and side, that
holdings are the initial ones plus the executions taken from the ring.

**Risk rules.**  That holdings stay above zero follows from `NoOverClose` for the
pools of the strategies: a trade that closes was asked for, and asked for within
the holdings.  Orders of senders that are not configured are booked in the common
pool; `CommonInv` says that none of them closes, as `PositionRisk` finds no
position of such a sender, and so trades there only add.  `NoSelfTrade` follows from
the check of the map because every order open at the exchange is live in it
(`ExchangeCounts`), and a live order keeps the request it was checked with.

**Reports.**  `HeardInv` says what the responses about an order tell, by the
positions of the queues: one strategy was told, while it lives the responses
leave it open and their total is the map's count, and when it is over they end
with the completed one.  A handler appends one response to one queue
(`Growing`); `Tells` are the kinds of it, and of the other orders nothing was
told.  With it each step is one of `OrderReports` or a stutter.

### 6.2 The ring and the lock-free queue

**`RingBuffer`.**  A thread decides on an old index of the other.  `RingInv` says
that the tail the producer saw last, the tail, the head the consumer saw last and
the head lie in this order on the circle of index values, within one capacity:
as distances from the first, which the wrap does not disturb.  Capacity divides
the number of values, so two places of that window have different slots
(`NoSlotRace`), and the slots from tail to head hold the items of `Fifo` in order.

**`LFQueue`.**  `Window` describes one ring by two sequence numbers, the next one
taken and the next one given: the slots between them are filled and carry
their own numbers, those after them up to one turn are free and carry theirs,
and each index is at its number or one step behind.  A compare-and-swap of a
slot that succeeds moves the window by one (`TakeMovesWindow`,
`GiveMovesWindow`): the number a process loaded, however old, can then only be
the next, since no other one of the window has that slot.  Moving an index,
for oneself or for somebody else, leaves the window alone (`IndexMoves`),
because it happens only when its slot has changed.  That is what `LocalInv` says
of each program counter.  `NodeInv` joins the windows of both rings with: an
id is in one slot at most, a process that holds one holds it alone, and a
producer's node holds its item from `Fill` to the slot.  A ring is not full
while a process holds an id (`NotFull`: the ids in its slots would be all of them,
by the pigeonhole principle), so a push never meets a filled slot of the turn
before.  From `NodeInv` follow the absence of sharing, the enclosing indices and
the steps of `Fifo`; that nothing is lost needs `AllKept` besides, which includes
the file of a dump.

### 6.3 The gateways

`ReportsAreSound` speaks of what the OMS was told, and each callback tells it
something according to the message it reads.  What is inductive therefore counts
the messages on the wire as what they will be told as.

**`XtpTradeApi`, `CtpTradeApi`.**  `Sound` says of one order, told and on the
wire together: trades no more than were executed, one final report at most and
only when the order has ended, and what a final report says is cancelled is
what the trades leave.  A message is read as what its handler would say of it
(`XtpSaid`, `CtpSaid`): an event without a consequence adds nothing, a
cancellation on the wire is already the order's end.  A callback then moves a
report from the wire to what was told, which leaves the sum alone
(`SumTo`), a broker's step adds to the wire what it does to its book, and a lost
connection only takes from the wire, which `Sound` allows.  The other half,
which order is meant, is `XtpOwns` for XTP and the rest of `CtpInv` for CTP.  XTP filters by session, so an
event that passes is about an order of this one.  CTP computes the id from the
ref: `order_ref_base_` of a session stays above the refs of the earlier run, since
the front answers a login with the greatest ref in use, and refs below a base
wrap to ids that no order has (`CtpAssumption`).  For this it matters that at
most one login message is on the wire: the invariant counts the answer under
way, the request made and the connection reported as one token.  While the
connection lasts the base does not move after the first order, so id and ref
determine one another (`OneSession`).

**`StubGateway`.**  `SendOrder` puts acceptance and trade on the ring before the OMS
has the order.  The invariant follows one order through the ring: its
reports there, in the order of its life, are what has not yet been heard, the
OMS has it as long as its trade is among them, and the report of a cancel
stands behind both, so that it finds the order gone.

### 6.4 The throttle, the timer, the main loop, the start and the restart

**`Throttle`.**  `AtMostLimit` counts a set; what is inductive is `Spaced`: every
order is a period or more after the one `Limit` orders before it.  It needs to
know what the rule's queue is: the times of the last orders sent (`Latest`), all
earlier ones being older than the period (`EarlierBy`).  With unchecked orders the
queue holds times that are too early, but never too late (`Counted`), so that what
is refused still has a cause: the queue is in order, so its first time being in the
period puts all of it there (`FullIsFull`).

**`TimerThread`.**  `TimerInv` says that a task is in one of three places (being
added, in the queue, gone), that the run of a callback is counted before the
expiry moves, and that a thread that waits does so no longer than to the expiry
of any task or to a time that has passed; adding a task ends the wait.

**`MainLoop`.**  Whether an order is late depends on five queues and three
threads, but with one strategy there is one token (`OneToken`): the strategy's
notification in its command queue, or the tick it makes the gateway feed, in the
tick ring or in the strategy's queue.  While the token is there, no other tick
is under way; and what the strategy ordered on the tick stands before the
notification that it writes after it, so that it is executed while the tick is
still the last one fed.  Orders sent on responses come in at any time: behind a
notification, or while the tick is under way, there is nothing else in the queue
(`InOrder`, `NoneOnTick`).

**`Startup`.**  That a query finds the ring empty is a statement about the whole
exchange before it.  `Reads` says for every place of the reading thread what the
ring can hold and which query can be under way: nothing, or its own query without
results, or results of its own kind with its own end last and nothing after them
(`EndsIn`), so that the thread leaves when the ring is empty.  A lost answer
leaves the thread where it waits.  `PositionsOK` adds what the positions say, on
their way through three places: `pos_cache_` covers the rows answered so far
(`Covers`; a row of one side leaves the other alone), and once the answer has
ended, what was read and what is on the ring are together all that was gathered
(`Whole`), in whatever order the map gives them.

**`Recovery`.**  `PoolsInv` says how the pools divide the broker's holdings at every
step of `MovePosition`: what is taken from the common pool and not yet given to the
strategy is in hand (`InHand`), and the trades under way make up the rest
(`Divided`).  That a report never takes more than its pool has is about all reports
before it, so `Covered` says it of every prefix of the queue; that the exchange has
something to close for a pool which still waits for reports needs the same sum pool
by pool (`NetDivided`).  `StoreInv` follows a position to the store: the newest one
of a pool in the ring, with the updater's thread or in the store (`Now`) is the
book's, or, of a strategy whose sides are being moved, what `Moving` says.  A
strategy that is still to be moved is untouched in the book, the ring and the
thread (`Untouched`), so that what the store has of it is what it had at the crash
(`Kept`); and as the strategies' holdings then were within the broker's
(`Restoring`), the common pool has enough for each of them and the recovery does
not stop.

### 6.5 Only model-checked

Liveness under fairness and `ENABLED` are out of the prover's reach, and so is
what the folds over sequences in the data modules compute for every input.
`queues`, `gateways`, `startup`, `runtime` and `oms_*` check on small instances the
safety properties the theorems above are about; of the other components (the
simulated market, the market data, the contract table, the quotes, the journal, its
page service and the network) everything is left to TLC, and so are `TypeOK` of
`MainLoop` (that a strategy's count of open orders is not negative needs the
reports matched to the orders) and the properties of `TargetPos`, whose pending
volumes are folds.

## 7. What is abstracted in the modelled parts

* Formatting, logging, `privdata` (except where a gateway keeps an id in it) and
  user data of orders; tickers that are not in the contract table; valuation
  (`cost_price`, `float_pnl`, `TotalAssets`), on which no behaviour depends;
  `total_asset` and `balance` beyond what finding 2 needs.
* Prices are whole multiples of the tick and volumes small numbers.  The
  advanced engine's estimate of the traded volume is integer arithmetic on them.
* The trade queues in `Oms`: a command is executed the moment `Oms` chooses it,
  which covers any order in which the loop over the readers finds commands;
  `MainLoop` has the queues.  Its strategies send at most one order for a tick or
  a response; orders of `OnInit` stand before the first notification and are left out.
* `OnSecondaryMarketTraded` is the only trade handler of `Oms`; primary market
  trades of funds are not handled by the code either.
* Handlers of the OMS, the backtest gateway and the order sender are atomic
  because they hold a spin lock from their first read to their last write.
* `Oms` has no lost reports: a reconnection belongs to `CtpTradeApi`, where
  messages under way are lost with the connection.
* Vendor structures are records of the fields the code reads; the mapping of
  enumerations is kept, the conversion of strings and numbers is not.
* A frame of a `Journal` is cells with a header; its data are bytes only as far as
  they may look like a header.  Sequence numbers of `LFQueue` do not wrap.
* Time is counted in ticks, and the clocks of the models end.

## 8. What is not modelled, and why

* **Spin lock**: one atomic test-and-set and one clear; a module would restate
  them.
* **Market server**: its class has no definitions and its main is empty.
* **Publish/subscribe** over `Networking` (its constructors abort) and the
  destructor of `NetworkNode`.
* **YAML configuration** and other files: read once; the models take them
  as constants.  **`strptime`** and the comparison operators of the calendar.
* **Field conversions** of the CTP and XTP gateways, `OnRspUserLogout`, which only
  answers a logout nobody asks for, and the CSV feed, which is part of
  `BacktestGateway` as the sequence of its ticks.
* **Creation and attachment** of the lock-free queue's segment (its initial
  state) and the second seek and expiry of a journal's reader (nothing calls
  them).
* **Demos, benchmarks** and the other tools: clients of the strategy interface.

Hazards that no property of a run covers.  Two the code does not avoid: the cancel
loop of the advanced engine (section 5), and a backtest whose one call reports
more than its ring holds, for which the main loop then waits itself; in the model
`mainLoop` stays in "loops" or "blocks", and the safety properties hold there too.
Others are misuse of an interface or lie outside the states the models start in:
a callback of the timer that calls the timer, whose mutex is held; two processes
that create the lock-free queue at once; client order ids that start anew with a
strategy's restart; callers of the order book that name an unknown order;
`uv_close` of a handle that is closing.
