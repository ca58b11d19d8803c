------------------------------- MODULE Startup -------------------------------
(***************************************************************************)
(* The OMS's queries: the account, the positions and the trades of Init,   *)
(* one after the other on the main thread; then OnTimer on the timer       *)
(* thread, which Init starts last and which then is the ring's only        *)
(* reader.  Each query waits for its results with GetWithBlocking and no   *)
(* time limit.  "dead" is a failed assertion, "false" Init's false.        *)
(***************************************************************************)
EXTENDS QueryAnswers

VARIABLES
  at,        \* where the reading thread is
  account,   \* account_: the number of the broker's account it copies
  loaded,    \* init_positions
  book       \* the common pool after OnPositions

oms == <<at, account, loaded, book>>
vars == <<answers, oms>>

Waits == {"initAccount", "initAccountEnd", "positions", "trades", "timer", "timerEnd"}
Places == Waits \union {"start", "askPositions", "askTrades", "subscribe", "idle", "false", "dead"}

Init ==
  /\ AnswersInit
  /\ at = "start" /\ account = 0 /\ loaded = <<>> /\ book = <<>>

Stays == UNCHANGED <<cache, funds, drops>>

(* Take the oldest result; the thread waits while there is none.           *)
GetWithBlocking == results # <<>> /\ results' = Tail(results)

Got == Head(results).kind

(* An assertion on the kind of a result.                                   *)
Expect(kinds, to) == at' = IF Got \in kinds THEN to ELSE "dead"

(* A query that fails ends Init.                                           *)
Ask(from, ok, to) ==
  /\ at = from /\ at' = IF ok THEN to ELSE "false"
  /\ UNCHANGED <<results, account, loaded, book>> /\ Stays

OnAccount == account' = IF Got = "account" THEN Head(results).data ELSE account

-----------------------------------------------------------------------------
InitAccountAsks == \E ok \in BOOLEAN : QueryAccount(ok) /\ Ask("start", ok, "initAccount")

InitAccount ==
  /\ at \in {"initAccount", "initAccountEnd"} /\ GetWithBlocking
  /\ IF at = "initAccount"
     THEN OnAccount /\ at' = IF Got = "account" THEN "initAccountEnd" ELSE "false"
     ELSE Expect({"accountEnd"}, "askPositions") /\ UNCHANGED account
  /\ UNCHANGED <<asked, loaded, book>> /\ Stays

InitPositionsAsks == \E ok \in BOOLEAN : QueryPositions(ok) /\ Ask("askPositions", ok, "positions")

(* Positions with nothing held and nothing frozen are not stored.          *)
OnPositions(positions) ==
  [t \in {p.ticker : p \in {q \in ToSet(positions) :
                              \E s \in Sides : q.pos[s].holdings # 0 \/ q.pos[s].frozen # 0}} |->
     positions[CHOOSE i \in DOMAIN positions : positions[i].ticker = t].pos]

InitPositions ==
  /\ at = "positions" /\ GetWithBlocking
  /\ IF Got = "positionEnd"
     THEN book' = OnPositions(loaded) /\ at' = "askTrades" /\ UNCHANGED loaded
     ELSE /\ Expect({"position"}, at)
          /\ loaded' = Append(loaded, Head(results).data)
          /\ UNCHANGED book
  /\ UNCHANGED <<asked, account>> /\ Stays

InitTradeInfoAsks == \E ok \in BOOLEAN : QueryTrades(ok) /\ Ask("askTrades", ok, "trades")

InitTradeInfo ==
  /\ at = "trades" /\ GetWithBlocking
  /\ IF Got = "tradeEnd" THEN at' = "subscribe" ELSE Expect({"trade"}, at)
  /\ UNCHANGED <<asked, account, loaded, book>> /\ Stays

(* InitRMS, SubscribeMarketData and the start of the timer thread.         *)
SubscribeMarketData ==
  /\ at = "subscribe"
  /\ at' \in {"idle"} \union (IF MayFail THEN {"false"} ELSE {})
  /\ UNCHANGED <<answers, account, loaded, book>>

-----------------------------------------------------------------------------
(* OnTimer ignores what QueryAccount returns.                              *)
OnTimerAsks ==
  /\ at = "idle"
  /\ \E ok \in BOOLEAN : QueryAccount(ok)
  /\ at' = "timer"
  /\ UNCHANGED <<results, account, loaded, book>> /\ Stays

(* Faults: the end is not read after an account; the task returns false,   *)
(* which takes it off the timer.                                           *)
OnTimerLeavesEnd ==
  /\ at = "timer" /\ GetWithBlocking
  /\ OnAccount /\ Expect({"account", "accountEnd"}, "idle")
  /\ UNCHANGED <<asked, loaded, book>> /\ Stays

OnTimerReturnsFalse ==
  /\ at \in {"timer", "timerEnd"} /\ GetWithBlocking
  /\ OnAccount
  /\ at' = IF Got = "account" THEN "timerEnd" ELSE "removed"
  /\ UNCHANGED <<asked, loaded, book>> /\ Stays

OnTimer ==
  /\ at \in {"timer", "timerEnd"} /\ GetWithBlocking
  /\ IF at = "timer" /\ Got = "account"
     THEN OnAccount /\ at' = "timerEnd"
     ELSE Expect({"accountEnd"}, "idle") /\ UNCHANGED account
  /\ UNCHANGED <<asked, loaded, book>> /\ Stays

Thread ==
  \/ InitAccountAsks \/ InitAccount \/ InitPositionsAsks \/ InitPositions
  \/ InitTradeInfoAsks \/ InitTradeInfo \/ SubscribeMarketData
  \/ OnTimerAsks \/ OnTimer

Library == \E error \in BOOLEAN : Callback(error) /\ UNCHANGED oms

Broker == (FundsChange \/ AnswerLost) /\ UNCHANGED oms

Next == Thread \/ Library \/ Broker

Spec == Init /\ [][Next]_vars

(* The threads run; a query under way is answered, and not always with an  *)
(* error.                                                                  *)
FairSpec ==
  Spec /\ WF_vars(Thread) /\ WF_vars(Library)
       /\ SF_vars(Callback(FALSE) /\ UNCHANGED oms)

-----------------------------------------------------------------------------
TypeOK ==
  /\ at \in Places
  /\ asked \in [kind : {"nothing", "account", "positions", "trades"}, part : Nat]
  /\ asked.part > 0 =>
       asked.part < CASE asked.kind = "positions" -> Len(Rows)
                      [] asked.kind = "trades" -> Trades
                      [] asked.kind \in {"account", "nothing"} -> 1
  /\ account <= funds

(* Queries do not mix: between two of them nothing is asked and nothing is *)
(* left on the ring, whatever failed before, so that no query reads the    *)
(* results of another; no assertion of the readers fails.                  *)
QueriesDoNotMix ==
  /\ at \in {"start", "askPositions", "askTrades", "subscribe", "idle"} =>
       asked = NoQuery /\ results = <<>>
  /\ at # "dead"

Holdings(t, s) ==
  LET rows == {i \in DOMAIN Rows : Rows[i].ticker = t /\ Rows[i].side = s}
  IN  IF rows = {} THEN 0 ELSE Rows[CHOOSE i \in rows : TRUE].holdings

BookIsRows ==
  \A t \in Tickers, s \in Sides :
    (IF t \in DOMAIN book THEN book[t][s].holdings ELSE 0) >= Holdings(t, s)

(* The common pool starts with the broker's positions on both sides of     *)
(* each ticker, or, when their query is answered with an error, with none. *)
AllPositionsOrNone == at \in {"askTrades", "trades", "subscribe", "idle"} => BookIsRows \/ book = <<>>

(* InitPositions' comment: query all positions.                            *)
AllPositions == at = "idle" => BookIsRows

(* What is held from before today never exceeds what is held.              *)
YesterdayWithinHoldings ==
  \A i \in DOMAIN loaded : \A s \in Sides :
    0 <= loaded[i].pos[s].yd /\ loaded[i].pos[s].yd <= loaded[i].pos[s].holdings

(* The timer refreshes the account: the OMS ends up with the broker's last *)
(* account, once Init has returned true.                                   *)
AccountIsRefreshed == <>[](at = "false" \/ account = funds)

=============================================================================
