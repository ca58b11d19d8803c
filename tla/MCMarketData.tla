--------------------------- MODULE MCMarketData ----------------------------
(***************************************************************************)
(* What is computed from market data, for TLC: BarGenerator, OrderBook and *)
(* the calendar both rest on, Datetime.  They share no state in the code,  *)
(* so a behaviour is of one instance, the subject, and the other modules   *)
(* stay in their first state.                                              *)
(***************************************************************************)
EXTENDS Integers, Sequences, FiniteSets

CONSTANTS
  Subjects

VARIABLES
  subject,  \* the instance this behaviour is of
  bars, cb, time, ticks, calls,
  orders, levels, arrived,
  date, elapsed, now, moved

barsVars == <<bars, cb, time, ticks, calls>>
bookVars == <<orders, levels, arrived>>
calendarVars == <<date, elapsed, now, moved>>
vars == <<subject, barsVars, bookVars, calendarVars>>

Date2100 == [year |-> 2100, month |-> 2, day |-> 20]
Date1999 == [year |-> 1999, month |-> 12, day |-> 20]

WholeDays == {<<n, 0, 0, 0, 0, 0>> : n \in 1 .. 3}

\* Fields below, at and above what is carried, none a negative multiple of it.
Odd ==
  ({-1, 0, 1} \X {-25, 0, 20} \X {-61, 0, 59} \X {-61, 0, 50} \X {-1001, 0, 999}
     \X {-1, 0, 999}) \ {<<0, 0, 0, 0, 0, 0>>}

Minutes == INSTANCE BarGenerator WITH
  Tickers <- {1, 2}, Prices <- {0, 1, 2}, Minute <- 2, Width <- 8, MaxTime <- 5,
  MaxTicks <- 5, Registered <- TRUE
AnyBars == INSTANCE BarGenerator WITH
  Tickers <- {1, 2}, Prices <- {0, 1, 2}, Minute <- 2, Width <- 8, MaxTime <- 6,
  MaxTicks <- 3, Registered <- FALSE
Book == INSTANCE OrderBook WITH
  Ids <- {1, 2, 3}, Prices <- {1, 2, 3}, Volumes <- {1, 2}, MaxLevels <- 2,
  Repeats <- FALSE
Dates == INSTANCE Datetime WITH
  Start <- Date2100, Unix <- 47532, Steps <- {-29, 1, 28, 366}, Span <- 1500,
  Deltas <- WholeDays
Times == INSTANCE Datetime WITH
  Start <- Date1999, Unix <- 10945, Steps <- {}, Span <- 0, Deltas <- Odd

(* What the modules assume of their constants. *)
ASSUME InstancesAssumption ==
  /\ Minutes!BarAssumption
  /\ AnyBars!BarAssumption
  /\ Book!OrderBookAssumption
  /\ Dates!DatetimeAssumption
  /\ Times!DatetimeAssumption

BarsInit ==
  \/ subject = "minutes" /\ Minutes!Init
  \/ subject = "bars" /\ AnyBars!Init
  \/ subject \notin {"minutes", "bars"} /\ Minutes!Init
BarsNext ==
  \/ subject = "minutes" /\ Minutes!Next
  \/ subject = "bars" /\ AnyBars!Next

BookInit ==
  \/ subject = "order book" /\ Book!Init
  \/ subject \notin {"order book"} /\ Book!Init
BookNext ==
  \/ subject = "order book" /\ Book!Next

CalendarInit ==
  \/ subject = "dates" /\ Dates!Init
  \/ subject = "times" /\ Times!Init
  \/ subject \notin {"dates", "times"} /\ Dates!Init
CalendarNext ==
  \/ subject = "dates" /\ Dates!Next
  \/ subject = "times" /\ Times!Next

Init ==
  /\ subject \in Subjects
  /\ BarsInit
  /\ BookInit
  /\ CalendarInit

Next ==
  /\ UNCHANGED subject
  /\ \/ BarsNext /\ UNCHANGED <<bookVars, calendarVars>>
     \/ BookNext /\ UNCHANGED <<barsVars, calendarVars>>
     \/ CalendarNext /\ UNCHANGED <<barsVars, bookVars>>

Spec == Init /\ [][Next]_vars

(* A minute's bar is its ticks: first, highest, lowest and last price, and *)
(* a callback gets one bar for a minute with ticks; a bar nobody has asked *)
(* for holds all ticks since (BarGenerator::OnTick).                       *)
BarsAreMinutes ==
  /\ subject = "minutes" =>
       Minutes!TypeOK /\ Minutes!BarIsItsMinute /\ Minutes!OneBarPerMinute
  /\ subject = "bars" => AnyBars!BarHoldsTheRest

(* The levels hold the orders at their prices, the older before the newer, *)
(* their totals add up, and the tick shows the best of them                *)
(* (OrderBook::AddOrder, ModifyOrder, RemoveOrder, to_tick), as long as an *)
(* id is added once.                                                       *)
LevelsAreOrders ==
  subject = "order book" =>
    Book!TypeOK /\ Book!LevelsHoldOrders /\ Book!TotalsAddUp /\ Book!FirstComeFirst
      /\ Book!TickShowsBest

(* Adding days, over the ends of months and leap years and backwards, is   *)
(* adding them one after the other and agrees with Unix time.  A time      *)
(* difference whose fields are out of range is carried and borrowed into   *)
(* its days; added to a datetime it gives the exact time of day and, where *)
(* that passes midnight, the exact date.  Where it does not, whole days    *)
(* are dropped (README, section 5), and nothing is said of the date        *)
(* (datetime.cpp).                                                         *)
DaysAddUp ==
  /\ subject = "dates" => Dates!TypeOK /\ Dates!DaysAddUp /\ Dates!UnixAgrees
  /\ subject = "times" => Times!Normalised /\ Times!TimeOfDayAdds /\ Times!DateAdds
=============================================================================
