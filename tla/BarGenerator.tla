---------------------------- MODULE BarGenerator ----------------------------
(***************************************************************************)
(* One-minute bars made of ticks: a tick of another minute than the bar's  *)
(* hands the bar to the callback and starts a new one.  A bar keeps its    *)
(* time in a field narrower than a tick's.                                 *)
(***************************************************************************)
EXTENDS Integers, Sequences, FiniteSets, SequencesExt, FiniteSetsExt, Functions

CONSTANTS
  Tickers,
  Prices,     \* last prices, 0 for none
  Minute,     \* time units of a minute
  Width,      \* the values of a bar's timestamp_us (2^32)
  MaxTime,    \* bound of the exchange's time
  MaxTicks,   \* bound of the ticks
  Registered  \* is the callback there before the first tick

BarAssumption ==
  /\ Prices \subseteq Nat /\ Minute \in Nat \ {0} /\ Width \in Nat \ {0}
  /\ MaxTime \in Nat /\ MaxTicks \in Nat /\ Registered \in BOOLEAN

VARIABLES
  bars,   \* bars_
  cb,     \* m1_cb_: is there one
  time,   \* the exchange's time
  ticks,  \* history: the ticks with a price
  calls   \* history: the bars handed to the callback, and at which tick

vars == <<bars, cb, time, ticks, calls>>

Init ==
  /\ bars = [t \in {} |-> 0] /\ cb = Registered /\ time = 0 /\ ticks = <<>> /\ calls = <<>>

AddPeriod == ~cb /\ cb' = TRUE /\ UNCHANGED <<bars, time, ticks, calls>>

Clock == time < MaxTime /\ time' = time + 1 /\ UNCHANGED <<bars, cb, ticks, calls>>

Stamp(t) == t % Width

FirstOf(price) ==
  [time |-> Stamp(time), open |-> price, high |-> price, low |-> price, close |-> price]

(* Fault: the close is only set when the bar is made. *)
ExtendedOpen(bar, price) ==
  [bar EXCEPT !.high = Max({@, price}), !.low = Min({@, price})]

Extended(bar, price) ==
  [bar EXCEPT !.high = Max({@, price}), !.low = Min({@, price}), !.close = price]

OtherMinute(bar) == bar.time \div Minute # time \div Minute

With(ticker, bar) ==
  [t \in DOMAIN bars \cup {ticker} |-> IF t = ticker THEN bar ELSE bars[t]]

OnTick(ticker, price) ==
  /\ Len(ticks) < MaxTicks
  /\ IF price = 0 THEN UNCHANGED <<bars, ticks, calls>>
     ELSE LET new == ticker \notin DOMAIN bars
              over == ~new /\ OtherMinute(bars[ticker]) /\ cb
          IN /\ calls' = IF over
                         THEN Append(calls, [ticker |-> ticker, bar |-> bars[ticker],
                                             seen |-> Len(ticks)])
                         ELSE calls
             /\ bars' = With(ticker, IF new \/ over THEN FirstOf(price)
                                     ELSE Extended(bars[ticker], price))
             /\ ticks' = Append(ticks, [ticker |-> ticker, price |-> price, time |-> time])
  /\ UNCHANGED <<cb, time>>

Next ==
  \/ AddPeriod \/ Clock
  \/ \E ticker \in Tickers, price \in Prices : OnTick(ticker, price)

Spec == Init /\ [][Next]_vars

-----------------------------------------------------------------------------
(* What a bar is: the ticks of a ticker's latest minute before a tick. *)

MinuteOf(i) == ticks[i].time \div Minute

TicksOfBar(ticker, n) ==
  LET own == {i \in 1 .. n : ticks[i].ticker = ticker}
  IN {i \in own : \A j \in own : MinuteOf(j) <= MinuteOf(i)}

IsBarOf(bar, set) ==
  /\ bar.open = ticks[Min(set)].price /\ bar.close = ticks[Max(set)].price
  /\ bar.high = Max({ticks[i].price : i \in set})
  /\ bar.low = Min({ticks[i].price : i \in set})

TypeOK ==
  /\ DOMAIN bars \subseteq Tickers
  /\ \A t \in DOMAIN bars : /\ bars[t].time \in 0 .. Width - 1
                            /\ bars[t].low <= bars[t].open /\ bars[t].open <= bars[t].high
                            /\ bars[t].low <= bars[t].close /\ bars[t].close <= bars[t].high

\* The callback is given bars of one minute: open, high, low and close of all
\* the ticker's ticks of the minute before, other tickers' between them
\* ("生成1分钟K线").
BarIsItsMinute ==
  \A c \in Range(calls) : IsBarOf(c.bar, TicksOfBar(c.ticker, c.seen))

\* Whenever the callback is set, no tick is lost and none counts twice: the
\* bar under way is made of all the ticker's ticks since the last bar was
\* handed on.
BarHoldsTheRest ==
  \A t \in DOMAIN bars :
    LET handed == {c.seen : c \in {d \in Range(calls) : d.ticker = t}}
        from == IF handed = {} THEN 0 ELSE Max(handed)
    IN IsBarOf(bars[t], {i \in from + 1 .. Len(ticks) : ticks[i].ticker = t})

\* A ticker has one bar a minute ("假如某几分钟内没有tick，则不会生成新的bar").
OneBarPerMinute ==
  \A i, j \in 1 .. Len(calls) :
    (i < j /\ calls[i].ticker = calls[j].ticker) =>
      MinuteOf(Max(TicksOfBar(calls[i].ticker, calls[i].seen)))
        # MinuteOf(Max(TicksOfBar(calls[j].ticker, calls[j].seen)))
=============================================================================
