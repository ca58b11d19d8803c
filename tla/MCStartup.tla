----------------------------- MODULE MCStartup -----------------------------
(***************************************************************************)
(* Starting and restarting the trader, for TLC: Contracts (the table both  *)
(* processes need), Startup with QueryAnswers (what the OMS asks of the    *)
(* gateway) and Recovery (what it then takes from the store).  A behaviour *)
(* is of one instance, the subject; the others stay in their first state.  *)
(***************************************************************************)
EXTENDS Integers, Sequences, FiniteSets

CONSTANTS
  Subjects

VARIABLES
  subject,  \* the instance this behaviour is of
  collector, sent, lists, failed, count, gathered, pushing, listed, contracts,
  table,
  asked, cache, results, funds, drops, at, account, loaded, book,
  broker, reports, trader, index, stored, moving, pools, queue, writer,
  context, db, before, clean, trades, crashes

contractsVars == <<collector, sent, lists, failed, count, gathered, pushing,
                   listed, contracts, table>>
queriesVars == <<asked, cache, results, funds, drops, at, account, loaded,
                 book>>
recoveryVars == <<broker, reports, trader, index, stored, moving, pools,
                  queue, writer, context, db, before, clean,
                  trades, crashes>>
vars == <<subject, contractsVars, queriesVars, recoveryVars>>

Tradable(ticker) == [ticker |-> ticker, traded |-> TRUE]
Index == [ticker |-> "index", traded |-> FALSE]

\* More contracts than the ring has room for.
CtpLists == <<[i \in 1 .. 10 |->
                 Tradable(<<"a", "b", "c", "d", "e", "f", "g", "h", "i", "j">>[i])]>>

XtpLists == <<<<Tradable("a"), Index, Tradable("b"), Tradable("c")>>,
              <<Tradable("d"), Tradable("e"), Index>>>>

Row(ticker, side, holdings, today, frozen) ==
  [ticker |-> ticker, side |-> side, holdings |-> holdings, today |-> today, frozen |-> frozen]

CtpRows == <<Row("rb", "long", 3, 1, 1), Row("xx", "long", 1, 0, 0), Row("cu", "short", 0, 0, 1),
             Row("al", "long", 0, 0, 0), Row("rb", "short", 2, 2, 0)>>

XtpRows == <<Row("rb", "long", 3, 1, 0), Row("xx", "long", 1, 1, 0), Row("cu", "long", 1, 2, 0)>>

CtpContracts == INSTANCE Contracts WITH
  main <- collector, asked <- lists, results <- listed, MayFail <- TRUE,
  Capacity <- 3, Api <- "ctp", Lists <- CtpLists
XtpContracts == INSTANCE Contracts WITH
  main <- collector, asked <- lists, results <- listed, MayFail <- TRUE,
  Capacity <- 3, Api <- "xtp", Lists <- XtpLists
CtpQueries == INSTANCE Startup WITH
  Tickers <- {"rb", "cu", "al"}, Trades <- 2, Api <- "ctp", Rows <- CtpRows,
  MayFail <- FALSE, MaxDrops <- 0, MaxChanges <- 4
CtpErrors == INSTANCE Startup WITH
  Tickers <- {"rb", "cu", "al"}, Trades <- 2, Api <- "ctp", Rows <- CtpRows,
  MayFail <- TRUE, MaxDrops <- 1, MaxChanges <- 2
XtpAnswered == INSTANCE Startup WITH
  Tickers <- {"rb", "cu"}, Trades <- 2, Api <- "xtp", Rows <- XtpRows,
  MayFail <- FALSE, MaxDrops <- 0, MaxChanges <- 2
XtpQueries == INSTANCE Startup WITH
  Tickers <- {"rb", "cu"}, Trades <- 2, Api <- "xtp", Rows <- XtpRows,
  MayFail <- TRUE, MaxDrops <- 1, MaxChanges <- 3
Restart == INSTANCE Recovery WITH
  main <- trader, loaded <- stored, book <- pools, Strategies <- <<"s1", "s2">>,
  Sizes <- {0, 1}, Capacity <- 2, MaxTrades <- 3, MaxCrashes <- 1,
  SetFails <- FALSE
FailingStore == INSTANCE Recovery WITH
  main <- trader, loaded <- stored, book <- pools, Strategies <- <<"s1", "s2">>,
  Sizes <- {0, 1}, Capacity <- 2, MaxTrades <- 3, MaxCrashes <- 1,
  SetFails <- TRUE
TwoRestarts == INSTANCE Recovery WITH
  main <- trader, loaded <- stored, book <- pools, Strategies <- <<"s1", "s2">>,
  Sizes <- {0, 1}, Capacity <- 2, MaxTrades <- 2, MaxCrashes <- 2,
  SetFails <- FALSE

(* What the modules assume of their constants. *)
ASSUME InstancesAssumption ==
  /\ CtpContracts!ContractsAssumption
  /\ XtpContracts!ContractsAssumption
  /\ CtpQueries!QueryAssumption
  /\ CtpErrors!QueryAssumption
  /\ XtpAnswered!QueryAssumption
  /\ XtpQueries!QueryAssumption
  /\ Restart!RecoveryAssumption
  /\ FailingStore!RecoveryAssumption
  /\ TwoRestarts!RecoveryAssumption

ContractsInit ==
  \/ subject = "ctp contracts" /\ CtpContracts!Init
  \/ subject = "xtp contracts" /\ XtpContracts!Init
  \/ subject \notin {"ctp contracts", "xtp contracts"} /\ CtpContracts!Init
ContractsNext ==
  \/ subject = "ctp contracts" /\ CtpContracts!Next
  \/ subject = "xtp contracts" /\ XtpContracts!Next

QueriesInit ==
  \/ subject = "ctp queries" /\ CtpQueries!Init
  \/ subject = "ctp errors" /\ CtpErrors!Init
  \/ subject = "xtp answered" /\ XtpAnswered!Init
  \/ subject = "xtp queries" /\ XtpQueries!Init
  \/ subject \notin {"ctp queries", "ctp errors", "xtp answered", "xtp queries"}
     /\ CtpQueries!Init
QueriesNext ==
  \/ subject = "ctp queries" /\ CtpQueries!Next
  \/ subject = "ctp errors" /\ CtpErrors!Next
  \/ subject = "xtp answered" /\ XtpAnswered!Next
  \/ subject = "xtp queries" /\ XtpQueries!Next

RecoveryInit ==
  \/ subject = "restart" /\ Restart!Init
  \/ subject = "failing store" /\ FailingStore!Init
  \/ subject = "two restarts" /\ TwoRestarts!Init
  \/ subject \notin {"restart", "failing store", "two restarts"} /\ TwoRestarts!Init
RecoveryNext ==
  \/ subject = "restart" /\ Restart!Next
  \/ subject = "failing store" /\ FailingStore!Next
  \/ subject = "two restarts" /\ TwoRestarts!Next

Init ==
  /\ subject \in Subjects
  /\ ContractsInit
  /\ QueriesInit
  /\ RecoveryInit

Next ==
  /\ UNCHANGED subject
  /\ \/ ContractsNext /\ UNCHANGED <<queriesVars, recoveryVars>>
     \/ QueriesNext /\ UNCHANGED <<contractsVars, recoveryVars>>
     \/ RecoveryNext /\ UNCHANGED <<contractsVars, queriesVars>>

Spec == Init /\ [][Next]_vars

(* The collector and the library it asks run, and so do the OMS's threads, *)
(* the library's callbacks when their lock is free, the main loop and the  *)
(* store's writer thread.                                                  *)
FairSpec ==
  /\ Spec
  /\ WF_contractsVars(subject = "ctp contracts" /\ CtpContracts!Collector)
  /\ WF_contractsVars(subject = "ctp contracts" /\ CtpContracts!Library)
  /\ WF_contractsVars(subject = "xtp contracts" /\ XtpContracts!Collector)
  /\ WF_contractsVars(subject = "xtp contracts" /\ XtpContracts!Library)
  /\ WF_queriesVars(subject = "ctp queries" /\ CtpQueries!Thread)
  /\ WF_queriesVars(subject = "ctp queries" /\ CtpQueries!Library)
  /\ SF_queriesVars(subject = "ctp queries" /\ CtpQueries!Callback(FALSE)
                      /\ UNCHANGED <<at, account, loaded, book>>)
  /\ WF_recoveryVars(subject = "two restarts" /\ TwoRestarts!Main)
  /\ WF_recoveryVars(subject = "two restarts" /\ TwoRestarts!Writer)

(* Without errors the end of the list is behind all its contracts, over    *)
(* two answers and a ring shorter than either.  Under CTP every contract   *)
(* that the library lists reaches the table through the collector's file,  *)
(* and is found by the ticker_id it gets there.  Under XTP contracts are   *)
(* lost (README, section 5), but none of it gets into a program: its table *)
(* is the whole list or it does not load (contract_collector,              *)
(* ContractTable::Init).                                                   *)
ContractsReachTable ==
  /\ subject = "ctp contracts" =>
       /\ CtpContracts!TypeOK /\ CtpContracts!EndIsLast
       /\ CtpContracts!AllContracts /\ CtpContracts!TableAgrees
  /\ subject = "xtp contracts" =>
       XtpContracts!EndIsLast /\ XtpContracts!AllContractsOrNone

(* Queries do not mix, whatever failed before: none reads the results of   *)
(* another, and no assertion of OnPositions, OnTrades or OnTimer fails     *)
(* (the XTP gateway with errors and drops, the CTP one without).           *)
QueriesDoNotMix ==
  /\ subject = "ctp queries" => CtpQueries!QueriesDoNotMix
  /\ subject = "xtp queries" => XtpQueries!TypeOK /\ XtpQueries!QueriesDoNotMix

(* Without errors the trader starts with all of the broker's positions;    *)
(* with errors and drops never with a part of them, although, after an     *)
(* error in their answer, with none (README, section 5).  The pools that   *)
(* are recovered divide them: no holding is in two pools and none in no    *)
(* pool, whatever the store said (OMS::InitPositions, OnPositions).        *)
PositionsAreBrokers ==
  /\ subject = "ctp queries" =>
       CtpQueries!AllPositions /\ CtpQueries!YesterdayWithinHoldings
  /\ subject = "ctp errors" => CtpErrors!AllPositionsOrNone
  /\ subject = "xtp answered" => XtpAnswered!AllPositions
  /\ subject = "xtp queries" =>
       XtpQueries!AllPositionsOrNone /\ XtpQueries!YesterdayWithinHoldings
  /\ subject = "restart" => Restart!PoolsDivideBroker
  /\ subject = "failing store" => FailingStore!PoolsDivideBroker
  /\ subject = "two restarts" => TwoRestarts!PoolsDivideBroker

(* After a crash with nothing under way each strategy gets its holdings    *)
(* back: the store, with what is queued for it, is never behind the book   *)
(* (TraderDBUpdater, OMS::OnPositions).                                    *)
HoldingsAreRecovered ==
  /\ subject = "restart" => Restart!TypeOK /\ Restart!Recovered /\ Restart!StoreFollowsBook
  /\ subject = "two restarts" => TwoRestarts!Recovered /\ TwoRestarts!StoreFollowsBook

(* The collector ends, however long the lists are for the ring and         *)
(* whatever fails; the timer brings the broker's last account; and with a  *)
(* store that answers all trades reach the store.                          *)
StartupSettles ==
  /\ subject = "ctp contracts" => CtpContracts!CollectorEnds
  /\ subject = "xtp contracts" => XtpContracts!CollectorEnds
  /\ subject = "ctp queries" => CtpQueries!AccountIsRefreshed
  /\ subject = "two restarts" => TwoRestarts!StoreCatchesUp
=============================================================================
