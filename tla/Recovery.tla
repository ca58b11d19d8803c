------------------------------ MODULE Recovery ------------------------------
(***************************************************************************)
(* The positions of the strategies in the store (TraderDB, Redis), written *)
(* behind the OMS by TraderDBUpdater's thread, and read back when the OMS  *)
(* starts: InitPositions replaces the common pool by what the broker says  *)
(* and moves each strategy's stored holdings out of it.                    *)
(*                                                                         *)
(* One ticker; a position is its two holdings.  What a crash keeps is the  *)
(* store and what the broker has.                                          *)
(***************************************************************************)
EXTENDS Integers, Sequences, FiniteSets, SequencesExt, FiniteSetsExt, Sums

CONSTANTS
  Strategies,   \* the configured strategies, in their order
  Sizes,        \* the broker's possible holdings of a side before the first start
  MaxTrades,    \* bound of the trades
  MaxCrashes,   \* bound of the crashes
  SetFails,     \* may a SET get no reply, or an error for a reply
  Capacity      \* of the ring of updates; 1024 in the code

RecoveryAssumption ==
  /\ MaxTrades \in Nat /\ MaxCrashes \in Nat /\ SetFails \in BOOLEAN
  /\ Capacity \in Nat \ {0} /\ Sizes \subseteq Nat
  /\ Strategies \in Seq(ToSet(Strategies)) /\ "common" \notin ToSet(Strategies)
  /\ \A i, j \in DOMAIN Strategies : Strategies[i] = Strategies[j] => i = j

VARIABLES
  broker,   \* the account's holdings of each side
  reports,  \* trades under way to the OMS
  main,     \* the OMS's main thread
  index,    \* strategy_conf of RecoveryStrategyPositions
  loaded,   \* the strategy's position read from the store
  moving,   \* MovePosition between its two pools: the side, or "no"
  book,     \* pos_manager_: the holdings of each pool
  queue,    \* pos_rb_
  writer,   \* wr_thread_: "idle", "sets" or "ended"
  context,  \* ctx of the writer
  db,       \* the store
  before,   \* history: the strategies' book at the last crash
  clean,    \* history: was nothing under way at that crash, nor a crash since it
  trades, crashes

store == <<writer, context, db>>
history == <<before, clean, trades, crashes>>
vars == <<broker, reports, main, index, loaded, moving, book, queue, store, history>>

Names == ToSet(Strategies)
Pools == Names \cup {"common"}
Sides == {"long", "short"}
Empty == [side \in Sides |-> 0]
None == [side \in Sides |-> -1]

Init ==
  /\ broker \in [Sides -> Sizes] /\ reports = <<>>
  /\ main = "down" /\ index = 1 /\ loaded = Empty /\ moving = "no"
  /\ book = [p \in Pools |-> Empty] /\ queue = <<>>
  /\ writer = "idle" /\ context = [pool |-> "common", pos |-> Empty]
  /\ db = [p \in Pools |-> None]
  /\ before = [p \in Names |-> Empty] /\ clean = TRUE
  /\ trades = 0 /\ crashes = 0

-----------------------------------------------------------------------------
(* Updates of the book call back SetPosition of the updater, which waits   *)
(* for room on the ring.                                                   *)

Callback(pool, pos) ==
  /\ Len(queue) < Capacity
  /\ queue' = Append(queue, [pool |-> pool, pos |-> pos])

(* Fault: the store gets the position from before the change.              *)
ModifyPositionOld(pool, side, changed) ==
  /\ book' = [book EXCEPT ![pool][side] = @ + changed]
  /\ IF changed = 0 THEN UNCHANGED queue ELSE Callback(pool, book[pool])

ModifyPosition(pool, side, changed) ==
  /\ book' = [book EXCEPT ![pool][side] = @ + changed]
  /\ IF changed = 0 THEN UNCHANGED queue ELSE Callback(pool, book'[pool])

-----------------------------------------------------------------------------
(* The main thread                                                         *)

(* InitPositions: the query's result replaces the common pool.             *)
OnPositions ==
  /\ main = "down"
  /\ main' = "cleared"
  /\ db' = [db EXCEPT !["common"] = None]
  /\ UNCHANGED <<broker, reports, index, loaded, moving, book, queue, writer, context, history>>

SetPosition ==
  /\ main = "cleared"
  /\ IF broker = Empty THEN UNCHANGED <<book, queue>>
     ELSE book' = [book EXCEPT !["common"] = broker] /\ Callback("common", broker)
  /\ main' = "sleeps"
  /\ UNCHANGED <<broker, reports, index, loaded, moving, store, history>>

(* 100 ms later, whatever the writer did in them.                          *)
Slept ==
  /\ main = "sleeps"
  /\ main' = "reads"
  /\ UNCHANGED <<broker, reports, index, loaded, moving, book, queue, store, history>>

(* GetAllPositions, for one strategy after the other.                      *)
GetAllPositions ==
  /\ main = "reads"
  /\ IF index > Len(Strategies)
     THEN main' = "recovered" /\ UNCHANGED <<index, loaded>>
     ELSE IF db[Strategies[index]] = None
     THEN index' = index + 1 /\ UNCHANGED <<main, loaded>>
     ELSE loaded' = db[Strategies[index]] /\ main' = "long" /\ UNCHANGED index
  /\ UNCHANGED <<broker, reports, moving, book, queue, store, history>>

(* MovePosition takes from one pool, if it has enough, and then adds to    *)
(* the other.                                                              *)
Enough(side) == book["common"][side] >= loaded[side]

(* Fault: the result of taking is not looked at.                           *)
MoveOutAnyhow(side) ==
  /\ main = side /\ moving = "no"
  /\ IF Enough(side) THEN ModifyPosition("common", side, -loaded[side])
     ELSE UNCHANGED <<book, queue>>
  /\ moving' = side
  /\ UNCHANGED <<main, broker, reports, index, loaded, store, history>>

MoveOut(side) ==
  /\ main = side /\ moving = "no"
  /\ IF Enough(side)
     THEN ModifyPosition("common", side, -loaded[side]) /\ moving' = side /\ UNCHANGED main
     ELSE main' = "false" /\ UNCHANGED <<book, queue, moving>>
  /\ UNCHANGED <<broker, reports, index, loaded, store, history>>

(* Fault: the short side is not moved.                                     *)
AfterLongOnly(side) == "reads"
After(side) == IF side = "long" THEN "short" ELSE "reads"

MoveIn(side) ==
  /\ main = side /\ moving = side
  /\ ModifyPosition(Strategies[index], side, loaded[side])
  /\ moving' = "no" /\ main' = After(side)
  /\ index' = IF After(side) = "reads" THEN index + 1 ELSE index
  /\ UNCHANGED <<broker, reports, loaded, store, history>>

Initialized ==
  /\ main = "recovered"
  /\ main' = "runs"
  /\ UNCHANGED <<broker, reports, index, loaded, moving, book, queue, store, history>>

(* UpdateTraded.                                                           *)
OnOrderTraded ==
  /\ main = "runs" /\ reports # <<>>
  /\ ModifyPosition(Head(reports).pool, Head(reports).side, Head(reports).changed)
  /\ reports' = Tail(reports)
  /\ UNCHANGED <<broker, main, index, loaded, moving, store, history>>

-----------------------------------------------------------------------------
(* The writer's thread                                                     *)

Get ==
  /\ writer = "idle" /\ queue # <<>> /\ main # "down"
  /\ context' = Head(queue) /\ queue' = Tail(queue) /\ writer' = "sets"
  /\ UNCHANGED <<broker, reports, main, index, loaded, moving, book, db, history>>

(* Fault: the thread ends with a reply.                                    *)
SetOnce ==
  /\ writer = "sets"
  /\ writer' = "ended" /\ db' = [db EXCEPT ![context.pool] = context.pos]
  /\ UNCHANGED <<broker, reports, main, index, loaded, moving, book, queue, context, history>>

(* Any reply counts as success, an error too; without a reply the thread   *)
(* ends.                                                                   *)
Set ==
  /\ writer = "sets"
  /\ \/ writer' = "idle" /\ db' = [db EXCEPT ![context.pool] = context.pos]
     \/ SetFails /\ writer' \in {"idle", "ended"} /\ UNCHANGED db
  /\ UNCHANGED <<broker, reports, main, index, loaded, moving, book, queue, context, history>>

-----------------------------------------------------------------------------
(* The exchange trades an order of a strategy: one lot opened or closed.   *)

Unreported(pool, side) ==
  SumTo([i \in DOMAIN reports |-> IF reports[i].pool = pool /\ reports[i].side = side
                                  THEN reports[i].changed ELSE 0], Len(reports))

Traded(pool, side, changed) ==
  /\ main = "runs" /\ trades < MaxTrades
  /\ changed < 0 => book[pool][side] + Unreported(pool, side) > 0
  /\ broker' = [broker EXCEPT ![side] = @ + changed]
  /\ reports' = Append(reports, [pool |-> pool, side |-> side, changed |-> changed])
  /\ trades' = trades + 1
  /\ UNCHANGED <<main, index, loaded, moving, book, queue, store, before, clean, crashes>>

Quiet == reports = <<>> /\ queue = <<>> /\ writer = "idle"

Crash ==
  /\ main # "down" /\ crashes < MaxCrashes
  /\ crashes' = crashes + 1
  /\ main' = "down" /\ index' = 1 /\ loaded' = Empty /\ moving' = "no"
  /\ book' = [p \in Pools |-> Empty] /\ queue' = <<>> /\ reports' = <<>>
  /\ writer' = "idle" /\ context' = [pool |-> "common", pos |-> Empty]
  /\ IF main = "runs"
     THEN before' = [p \in Names |-> book[p]] /\ clean' = Quiet
     ELSE clean' = FALSE /\ UNCHANGED before
  /\ UNCHANGED <<broker, db, trades>>

Main ==
  \/ OnPositions \/ SetPosition \/ Slept \/ GetAllPositions \/ Initialized \/ OnOrderTraded
  \/ \E side \in Sides : MoveOut(side) \/ MoveIn(side)

Writer == Get \/ Set

Exchange == \E pool \in Names, side \in Sides, changed \in {-1, 1} : Traded(pool, side, changed)

Next == Main \/ Writer \/ Exchange \/ Crash

Spec == Init /\ [][Next]_vars

(* Both threads run; nothing forces trades or crashes.                     *)
FairSpec == Spec /\ WF_vars(Main) /\ WF_vars(Writer)

-----------------------------------------------------------------------------
(* The holdings of all pools, with what is under way to them.              *)
Total(side) ==
  book["common"][side]
  + SumTo([i \in DOMAIN Strategies |-> book[Strategies[i]][side]], Len(Strategies))
  + SumTo([i \in DOMAIN reports |-> IF reports[i].side = side THEN reports[i].changed ELSE 0],
          Len(reports))

TypeOK ==
  /\ main \in {"down", "cleared", "sleeps", "reads", "long", "short", "recovered", "runs", "false"}
  /\ writer \in {"idle", "sets", "ended"}
  /\ Len(queue) <= Capacity
  /\ \A p \in Pools, side \in Sides : book[p][side] >= 0

(* Once positions are recovered, the pools divide what the broker has: no  *)
(* holding is in two pools and none in no pool, whatever the store said.   *)
PoolsDivideBroker ==
  main \in {"recovered", "runs"} => \A side \in Sides : Total(side) = broker[side]

(* After a crash with nothing under way, each strategy gets its holdings   *)
(* back and the OMS does start.                                            *)
Recovered ==
  clean => /\ main # "false"
           /\ main = "recovered" => before = [p \in Names |-> book[p]]

(* The updates go to the store in order: the newest of a pool in the queue,*)
(* or else the one being written, or else the stored one is the book's.    *)
Newest(pool) ==
  LET queued == {i \in DOMAIN queue : queue[i].pool = pool}
  IN  IF queued # {} THEN queue[Max(queued)].pos
      ELSE IF writer = "sets" /\ context.pool = pool THEN context.pos ELSE db[pool]

StoreFollowsBook ==
  main = "runs" /\ ~ SetFails =>
    \A p \in Pools : Newest(p) = book[p] \/ (Newest(p) = None /\ book[p] = Empty)

(* With a store that answers, all trades reach the store.                  *)
StoreCatchesUp ==
  <>[](main = "runs" => reports = <<>> /\ \A p \in Names : db[p] \in {book[p], None})

(* When the strategies' positions are read, those of the common pool have  *)
(* been written.                                                           *)
WrittenBeforeRecovery == main = "reads" /\ index = 1 => queue = <<>> /\ writer = "idle"

=============================================================================
