------------------------------- MODULE Quotes -------------------------------
(***************************************************************************)
(* Market data: the login and the subscription of a quote API, the         *)
(* callbacks that turn the library's depth data into ticks, the ring of    *)
(* ticks, and the OMS's tick thread that copies each tick to the journals  *)
(* of the strategies that subscribed to its ticker.                        *)
(*                                                                         *)
(* CTP logs in through callbacks and reconnects by itself; XTP logs in and *)
(* answers in one call.  A session that ends takes its subscriptions along.*)
(* An uninitialised struct tm adds one of Leftovers to a day's start.      *)
(***************************************************************************)
EXTENDS Integers, Sequences, FiniteSets, SequencesExt

CONSTANTS
  Api,        \* "ctp" or "xtp"
  Exchange,   \* of each ticker of the contract table
  Configs,    \* the possible subscription lists of the strategies
  Dates,      \* action days of the library's depth data
  Leftovers,  \* what mktime adds for the fields nobody set
  RspErrors,  \* may the library answer a login with OnRspError
  MaxTicks,   \* bound of the depth data
  MaxDrops,   \* bound of the lost connections
  Capacity    \* of the ring; 4096 in the code

QuotesAssumption ==
  /\ Api \in {"ctp", "xtp"} /\ RspErrors \in BOOLEAN
  /\ MaxTicks \in Nat /\ MaxDrops \in Nat /\ Capacity \in Nat \ {0}

VARIABLES
  conf,        \* subscription_list of each strategy
  main,        \* Init of the OMS: "mq", "login", "waits", "returns", "subscribes", ...
  dispatch,    \* md_dispatch_map_: the strategies of a ticker
  subs,        \* subscription_set_
  status,      \* status_ of CtpQuoteApi
  session,     \* the library's: "down", "up", "asked" or "in"
  subscribed,  \* what the session sends
  day,         \* the converter's date and the start of its day
  delivered,   \* history: depth data the library called back with
  ring,        \* tick_rb_
  journal,     \* md_mq of each strategy
  drops

vars == <<conf, main, dispatch, subs, status, session, subscribed, day, delivered, ring,
          journal, drops>>

Strategies == DOMAIN conf
Tickers == DOMAIN Exchange
Listed(list) == Range(list)

Init ==
  /\ conf \in Configs
  /\ main = "mq" /\ dispatch = [t \in Tickers |-> <<>>] /\ subs = {}
  /\ status = 0 /\ session = "down" /\ subscribed = {}
  /\ day = [date |-> 0, start |-> 0]
  /\ delivered = <<>> /\ ring = <<>>
  /\ journal = [i \in DOMAIN conf |-> <<>>]
  /\ drops = 0

-----------------------------------------------------------------------------
(* The OMS's main thread                                                   *)

(* Fault: a ticker an earlier strategy has is not dispatched again.        *)
WritersFirst(t) ==
  LET all == SelectSeq([i \in Strategies |-> i], LAMBDA i : t \in Listed(conf[i]))
  IN  IF all = <<>> THEN <<>> ELSE <<Head(all)>>

(* InitMQ: one journal writer per strategy, its lists in order.            *)
Writers(t) == SelectSeq([i \in Strategies |-> i], LAMBDA i : t \in Listed(conf[i]))

Requested == UNION {Listed(conf[i]) : i \in Strategies}

InitMQ ==
  /\ main = "mq"
  /\ IF Requested \subseteq Tickers
     THEN /\ dispatch' = [t \in Tickers |-> Writers(t)]
          /\ subs' = Requested
          /\ main' = "login"
     ELSE main' = "fails" /\ UNCHANGED <<dispatch, subs>>
  /\ UNCHANGED <<conf, status, session, subscribed, day, delivered, ring, journal, drops>>

CtpLogin ==
  /\ Api = "ctp" /\ main = "login"
  /\ main' = "waits"
  /\ UNCHANGED <<conf, dispatch, subs, status, session, subscribed, day, delivered, ring,
                 journal, drops>>

(* The loop's load and the load of the result are two.                     *)
CtpLoginWaits ==
  /\ main = "waits" /\ status # 0
  /\ main' = "returns"
  /\ UNCHANGED <<conf, dispatch, subs, status, session, subscribed, day, delivered, ring,
                 journal, drops>>

CtpLoginReturns ==
  /\ main = "returns"
  /\ main' = IF status = 1 THEN "subscribes" ELSE "fails"
  /\ UNCHANGED <<conf, dispatch, subs, status, session, subscribed, day, delivered, ring,
                 journal, drops>>

XtpLogin ==
  /\ Api = "xtp" /\ main = "login"
  /\ \/ main' = "subscribes" /\ session' = "in"
     \/ main' = "fails" /\ UNCHANGED session
  /\ UNCHANGED <<conf, dispatch, subs, status, subscribed, day, delivered, ring, journal, drops>>

CtpSubscribe(ok) ==
  /\ Api = "ctp" /\ main = "subscribes"
  /\ IF ok
     THEN /\ main' = "runs"
          /\ subscribed' = IF session = "in" THEN subs ELSE subscribed
     ELSE main' = "fails" /\ UNCHANGED subscribed
  /\ UNCHANGED <<conf, dispatch, subs, status, session, day, delivered, ring, journal, drops>>

ListOf(exchange) == {t \in subs : Exchange[t] = exchange}

(* One request per exchange that has tickers; a request that fails ends it.*)
XtpSubscribe(ok) ==
  /\ Api = "xtp" /\ main = "subscribes"
  /\ ~ ok["SSE"] => ListOf("SSE") # {}
  /\ ~ ok["SZE"] => ListOf("SZE") # {}
  /\ subscribed' = (IF session = "in" /\ ok["SSE"] THEN ListOf("SSE") ELSE {})
                   \cup (IF session = "in" /\ ok["SSE"] /\ ok["SZE"] THEN ListOf("SZE") ELSE {})
  /\ main' = IF ok["SSE"] /\ ok["SZE"] THEN "runs" ELSE "fails"
  /\ UNCHANGED <<conf, dispatch, subs, status, session, day, delivered, ring, journal, drops>>

-----------------------------------------------------------------------------
(* Callbacks of the session                                                *)

(* ReqUserLogin may fail at once.                                          *)
OnFrontConnected ==
  /\ Api = "ctp" /\ main \notin {"mq", "login", "fails"} /\ session = "down"
  /\ \/ session' = "asked" /\ UNCHANGED status
     \/ session' = "up" /\ status' = -1
  /\ UNCHANGED <<conf, main, dispatch, subs, subscribed, day, delivered, ring, journal, drops>>

(* Fault: a refused login is only logged.                                  *)
OnRspUserLoginSilent(error) ==
  /\ Api = "ctp" /\ session = "asked"
  /\ status' = IF error THEN status ELSE 1
  /\ session' = IF error THEN "up" ELSE "in"
  /\ UNCHANGED <<conf, main, dispatch, subs, subscribed, day, delivered, ring, journal, drops>>

OnRspUserLogin(error) ==
  /\ Api = "ctp" /\ session = "asked"
  /\ status' = IF error THEN -1 ELSE 1
  /\ session' = IF error THEN "up" ELSE "in"
  /\ UNCHANGED <<conf, main, dispatch, subs, subscribed, day, delivered, ring, journal, drops>>

OnRspError ==
  /\ Api = "ctp" /\ RspErrors /\ session = "asked"
  /\ status' = 0 /\ session' = "up"
  /\ UNCHANGED <<conf, main, dispatch, subs, subscribed, day, delivered, ring, journal, drops>>

(* The library of CTP tells; XTP's callback is not overridden.             *)
Disconnected ==
  /\ session # "down" /\ drops < MaxDrops
  /\ session' = "down" /\ subscribed' = {} /\ drops' = drops + 1
  /\ status' = IF Api = "ctp" THEN 0 ELSE status
  /\ UNCHANGED <<conf, main, dispatch, subs, day, delivered, ring, journal>>

(* UpdateDate: one start for each change of the date.                      *)
Midnight(date) == 100 * date

(* Fault: the start is computed for every tick.                            *)
UpdateDateAlways(date, start) == start \in {Midnight(date) + l : l \in Leftovers}

UpdateDate(date, start) ==
  IF date = day.date THEN start = day.start
  ELSE start \in {Midnight(date) + l : l \in Leftovers}

(* Levels of the book a tick's five are taken from: XTP's last five are    *)
(* assigned over its first five.                                           *)
CtpLevels == [level \in 1 .. 5 |-> level]
XtpLevels == [level \in 1 .. 5 |-> level + 5]

Tick(md, start) ==
  [ticker |-> md.ticker, date |-> md.date, time |-> md.time,
   exchange_timestamp |-> start + md.time,
   levels |-> IF Api = "ctp" THEN CtpLevels ELSE XtpLevels]

OnTick(tick) == Len(ring) < Capacity /\ ring' = Append(ring, tick)

DepthMarketData(md, start) ==
  /\ session = "in" /\ md.ticker \in subscribed
  /\ UpdateDate(md.date, start)
  /\ day' = [date |-> md.date, start |-> start]
  /\ OnTick(Tick(md, start))
  /\ delivered' = Append(delivered, md)
  /\ UNCHANGED <<conf, main, dispatch, subs, status, session, subscribed, journal, drops>>

-----------------------------------------------------------------------------
(* The tick thread starts when the OMS has subscribed.                     *)

ProcessTick ==
  /\ main = "runs" /\ ring # <<>>
  /\ ring' = Tail(ring)
  /\ journal' = [i \in Strategies |->
       IF i \in Range(dispatch[Head(ring).ticker]) THEN Append(journal[i], Head(ring))
       ELSE journal[i]]
  /\ UNCHANGED <<conf, main, dispatch, subs, status, session, subscribed, day, delivered, drops>>

Main ==
  \/ InitMQ \/ CtpLogin \/ CtpLoginWaits \/ CtpLoginReturns \/ XtpLogin
  \/ \E ok \in BOOLEAN : CtpSubscribe(ok)
  \/ \E ok \in [{"SSE", "SZE"} -> BOOLEAN] : XtpSubscribe(ok)

Depth ==
  /\ Len(delivered) < MaxTicks
  /\ \E ticker \in Tickers, date \in Dates, leftover \in Leftovers \cup {0} :
       LET md == [ticker |-> ticker, date |-> date, time |-> Len(delivered) + 1]
       IN  \/ DepthMarketData(md, Midnight(date) + leftover)
           \/ day.start # Midnight(date) + leftover /\ DepthMarketData(md, day.start)

LoginCallbacks == OnFrontConnected \/ OnRspError \/ \E error \in BOOLEAN : OnRspUserLogin(error)

Next == Main \/ LoginCallbacks \/ Disconnected \/ Depth \/ ProcessTick

Spec == Init /\ [][Next]_vars

(* Threads run, the library reconnects and calls back; nothing makes the   *)
(* exchange send or a connection fail.                                     *)
FairSpec == Spec /\ WF_vars(Main) /\ WF_vars(LoginCallbacks) /\ WF_vars(ProcessTick)

-----------------------------------------------------------------------------
TypeOK ==
  /\ main \in {"mq", "login", "waits", "returns", "subscribes", "runs", "fails"}
  /\ status \in {-1, 0, 1} /\ session \in {"down", "up", "asked", "in"}
  /\ subscribed \subseteq subs /\ Len(ring) <= Capacity

Of(i, ticks) == SelectSeq(ticks, LAMBDA tick : tick.ticker \in Listed(conf[i]))
Market(ticks) == [i \in DOMAIN ticks |-> [ticker |-> ticks[i].ticker, time |-> ticks[i].time]]

(* A strategy's journal and the ring hold all depth data of its tickers,   *)
(* in the order of the exchange, each once, and nothing else.              *)
JournalsExact ==
  \A i \in Strategies :
    Market(journal[i] \o Of(i, ring)) = Market(Of(i, delivered))

(* Two ticks of one day are in order: one start of the day for a run of    *)
(* ticks, whatever mktime made of it.                                      *)
TimesInOrder ==
  \A i \in 2 .. Len(ring) :
    ring[i].date = ring[i - 1].date =>
      ring[i].exchange_timestamp > ring[i - 1].exchange_timestamp

(* An OMS that runs gets all its strategies subscribed to, as long as no   *)
(* connection was lost.                                                    *)
EverySubscription == main = "runs" /\ drops = 0 => subscribed = Requested

(* Login returns.                                                          *)
LoginReturns == (main = "waits") ~> (main # "waits")

(* What the strategies subscribed to is sent again after a reconnection.   *)
QuotesResume == <>[](main = "runs" /\ session = "in" => subscribed = subs)

(* ask[0] and bid[0] of a tick are the best of the book.                   *)
BestLevelFirst ==
  \A i \in Strategies : \A n \in DOMAIN journal[i] : journal[i][n].levels[1] = 1

=============================================================================
