---------------------------- MODULE QueryAnswers ----------------------------
(***************************************************************************)
(* How the CTP and XTP trade APIs answer the OMS's queries: a query sends  *)
(* a request; the library answers in parts, each a callback on its own     *)
(* thread, or with an error; the callbacks put the results on the ring     *)
(* qry_result_rb_, which one thread at a time reads.                       *)
(***************************************************************************)
EXTENDS Integers, Sequences, FiniteSets, SequencesExt

CONSTANTS
  Api,         \* "ctp" or "xtp"
  Tickers,     \* the tickers of the contract table
  Rows,        \* the broker's rows: [ticker, side, holdings, today, frozen]
  Trades,      \* how many trades the account has made today
  MayFail,     \* may a request fail to be sent or be answered with an error
  MaxDrops,    \* bound: how often the connection and the answer are lost
  MaxChanges   \* bound: changes of the account at the broker

Sides == {"long", "short"}

QueryAssumption ==
  /\ Api \in {"ctp", "xtp"} /\ MayFail \in BOOLEAN /\ IsFiniteSet(Tickers)
  /\ Rows \in Seq(ToSet(Rows))
  /\ \A i \in DOMAIN Rows :
       /\ Rows[i].side \in Sides /\ {Rows[i].holdings, Rows[i].today, Rows[i].frozen} \subseteq Nat
       /\ Api = "xtp" => Rows[i].side = "long"
       /\ Api = "ctp" => Rows[i].today <= Rows[i].holdings
  /\ {Trades, MaxDrops, MaxChanges} \subseteq Nat

VARIABLES
  asked,    \* the query under way at the broker: its kind and parts answered
  cache,    \* pos_cache_: a position for each ticker seen
  results,  \* qry_result_rb_
  funds,    \* the account at the broker: a number that changes
  drops     \* lost connections

answers == <<asked, cache, results, funds, drops>>

NoQuery == [kind |-> "nothing", part |-> 0]

AnswersInit ==
  asked = NoQuery /\ cache = <<>> /\ results = <<>> /\ funds = 0 /\ drops = 0

-----------------------------------------------------------------------------
(* Queries: a request that cannot be sent makes the query return false.    *)
Query(kind, ok) ==
  IF ok THEN asked' = [kind |-> kind, part |-> 0] ELSE MayFail /\ UNCHANGED asked

QueryAccount(ok) == Query("account", ok)
QueryPositions(ok) == Query("positions", ok)
QueryTrades(ok) == Query("trades", ok)

-----------------------------------------------------------------------------
(* What the callbacks put on the ring.                                     *)
Result(kind, data) == <<[kind |-> kind, data |-> data]>>
OnQueryAccount == Result("account", funds)
OnQueryAccountEnd == Result("accountEnd", 0)
OnQueryPosition(pos) == Result("position", pos)
OnQueryPositionEnd == Result("positionEnd", 0)
OnQueryTrade == Result("trade", asked.part)
OnQueryTradeEnd == Result("tradeEnd", 0)
OnQueryContractEnd == Result("contractEnd", 0)

Put(new) == results' = results \o new
Answered == asked' = NoQuery
NextPart == asked' = [asked EXCEPT !.part = @ + 1]
Part(kind, error) == asked.kind = kind /\ (error => MayFail)
IsLast(parts) == asked.part + 1 >= parts

(* The account: one part, pushed with its end.                             *)
AccountParts(error) ==
  /\ Part("account", error)
  /\ Put((IF error THEN <<>> ELSE OnQueryAccount) \o OnQueryAccountEnd)
  /\ Answered
  /\ UNCHANGED <<cache, funds, drops>>

OnRspQryTradingAccount(error) == Api = "ctp" /\ AccountParts(error)
OnQueryAsset(error) == Api = "xtp" /\ AccountParts(error)

(* The position a row says, given what pos_cache_ has for its ticker.      *)
NoDetail == [holdings |-> 0, yd |-> 0, frozen |-> 0]
NoPosition == [s \in Sides |-> NoDetail]

CtpPosition(before, row) ==
  [before EXCEPT ![row.side] =
     [holdings |-> row.holdings, yd |-> row.holdings - row.today, frozen |-> row.frozen]]

(* What can be sold may exceed the total the broker says (today is that).  *)
XtpPosition(before, row) ==
  [before EXCEPT !["long"] =
     [holdings |-> IF row.today > row.holdings THEN row.today ELSE row.holdings,
      yd |-> row.holdings, frozen |-> @.frozen]]

CacheWith(ticker, pos) ==
  [t \in DOMAIN cache \union {ticker} |-> IF t = ticker THEN pos ELSE cache[t]]

(* Fault: a row starts its ticker's position anew.                         *)
CachedAnew(row) ==
  IF row.ticker \notin Tickers THEN cache
  ELSE CacheWith(row.ticker, IF Api = "ctp" THEN CtpPosition(NoPosition, row)
                             ELSE XtpPosition(NoPosition, row))

(* A ticker that the contract table does not have is left out.             *)
Cached(row) ==
  LET before == IF row.ticker \in DOMAIN cache THEN cache[row.ticker] ELSE NoPosition
  IN  IF row.ticker \notin Tickers THEN cache
      ELSE CacheWith(row.ticker, IF Api = "ctp" THEN CtpPosition(before, row)
                                 ELSE XtpPosition(before, row))

CachePushed(positions) ==
  SetToSeq({OnQueryPosition([ticker |-> t, pos |-> positions[t]])[1] : t \in DOMAIN positions})

(* The last part pushes what was gathered; an error drops it, and the      *)
(* answer ends as if there were no positions.                              *)
PositionParts(error) ==
  /\ Part("positions", error)
  /\ LET updated == IF Rows = <<>> THEN cache ELSE Cached(Rows[asked.part + 1])
     IN  IF error
         THEN Put(OnQueryPositionEnd) /\ cache' = <<>> /\ Answered
         ELSE IF IsLast(Len(Rows))
         THEN Put(CachePushed(updated) \o OnQueryPositionEnd) /\ cache' = <<>> /\ Answered
         ELSE cache' = updated /\ NextPart /\ UNCHANGED results
  /\ UNCHANGED <<funds, drops>>

OnRspQryInvestorPosition(error) == Api = "ctp" /\ PositionParts(error)
OnXtpQueryPosition(error) == Api = "xtp" /\ PositionParts(error)

TradeParts(error, end) ==
  /\ Part("trades", error)
  /\ IF error THEN Put(end) /\ Answered
     ELSE /\ Put((IF Trades = 0 THEN <<>> ELSE OnQueryTrade)
                 \o (IF IsLast(Trades) THEN OnQueryTradeEnd ELSE <<>>))
          /\ IF IsLast(Trades) THEN Answered ELSE NextPart
  /\ UNCHANGED <<cache, funds, drops>>

(* An error ends CTP's answer as if contracts had been asked for.          *)
OnRspQryTrade(error) == Api = "ctp" /\ TradeParts(error, OnQueryContractEnd)
OnXtpQueryTrade(error) == Api = "xtp" /\ TradeParts(error, OnQueryTradeEnd)

Callback(error) ==
  \/ OnRspQryTradingAccount(error) \/ OnQueryAsset(error)
  \/ OnRspQryInvestorPosition(error) \/ OnXtpQueryPosition(error)
  \/ OnRspQryTrade(error) \/ OnXtpQueryTrade(error)

-----------------------------------------------------------------------------
(* The broker (external).                                                  *)
FundsChange ==
  /\ funds < MaxChanges /\ funds' = funds + 1
  /\ UNCHANGED <<asked, cache, results, drops>>

AnswerLost ==
  /\ asked # NoQuery /\ drops < MaxDrops
  /\ drops' = drops + 1 /\ Answered
  /\ UNCHANGED <<cache, results, funds>>

=============================================================================
