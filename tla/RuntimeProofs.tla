--------------------------- MODULE RuntimeProofs ---------------------------
(***************************************************************************)
(* Theorems about TimerThread for every value of its constants: rounds are *)
(* not lost and do not drift, no task runs early or after its removal, and *)
(* the thread sleeps past none.  Then about MainLoop: in a backtest no     *)
(* order decided on a tick is executed after a later one; and about Startup: the queries do *)
(* not mix, and the positions are the broker's.                            *)
(***************************************************************************)
EXTENDS TimerThread, Sequences, SequenceTheorems, FiniteSetTheorems, WellFoundedInduction, TLAPS

CONSTANTS
  Strategies, Backtest, Waits, Reactions, MaxTicks,           \* of MainLoop
  Api, Tickers, Rows, Trades, MayFail, MaxDrops, MaxChanges   \* of Startup
VARIABLES
  cmdq, ring, rspq, tickq, mdq, main, strat, working, fed, late,
  asked, cache, results, funds, drops, at, account, loaded, book

Loop == INSTANCE MainLoop
Query == INSTANCE Startup

-----------------------------------------------------------------------------
(* Least and greatest elements.                                            *)

LEMMA MinOfNats ==
  ASSUME NEW S \in SUBSET Nat, S # {}
  PROVE  Min(S) \in S /\ \A x \in S : Min(S) <= x
<1> DEFINE below == {ss \in Nat \X Nat : ss[1] < ss[2]}
<1>1. IsWellFoundedOn(below, Nat)
  BY NatLessThanWellFounded DEF OpToRel
<1>2. PICK x \in S : \A y \in S : ~ (<<y, x>> \in below)
  BY <1>1, WFMin
<1>3. ASSUME NEW y \in S PROVE x <= y
  <2>1. x \in Nat /\ y \in Nat /\ ~ (y < x)
    BY <1>2
  <2> QED
    BY <2>1
<1> QED
  BY <1>3 DEF Min

LEMMA OfTwo ==
  ASSUME NEW a \in Nat, NEW b \in Nat
  PROVE  /\ Min({a, b}) \in {a, b} /\ Min({a, b}) <= a /\ Min({a, b}) <= b
         /\ Max({a, b}) \in {a, b} /\ Max({a, b}) >= a /\ Max({a, b}) >= b
<1>1. \E x \in {a, b} : \A y \in {a, b} : x <= y
  <2>1. CASE a <= b
    BY <2>1
  <2>2. CASE b <= a
    BY <2>2
  <2> QED
    BY <2>1, <2>2
<1>2. \E x \in {a, b} : \A y \in {a, b} : x >= y
  <2>1. CASE a <= b
    BY <2>1
  <2>2. CASE b <= a
    BY <2>2
  <2> QED
    BY <2>1, <2>2
<1>3. Min({a, b}) \in {a, b} /\ \A y \in {a, b} : Min({a, b}) <= y
  BY <1>1 DEF Min
<1>4. Max({a, b}) \in {a, b} /\ \A y \in {a, b} : Max({a, b}) >= y
  BY <1>2 DEF Max
<1> QED
  BY <1>3, <1>4

-----------------------------------------------------------------------------
(* Tables of tasks.                                                        *)

Timed == [expiry : Nat, interval : Nat, once : BOOLEAN, first : Nat]

IsTable(q) == DOMAIN q \subseteq Tasks /\ q \in [DOMAIN q -> Timed]

LEMMA TableEmpty ==
  ASSUME NEW q, IsTable(q)
  PROVE  q = NoTasks <=> DOMAIN q = {}
BY DEF IsTable, NoTasks

LEMMA TableRestrict ==
  ASSUME NEW q, IsTable(q), NEW S \in SUBSET DOMAIN q
  PROVE  /\ IsTable(Restrict(q, S)) /\ DOMAIN Restrict(q, S) = S
         /\ \A t \in S : Restrict(q, S)[t] = q[t]
BY DEF IsTable, Restrict

LEMMA TableAdd ==
  ASSUME NEW q, IsTable(q), NEW t \in Tasks, NEW r \in Timed, NEW p,
         p = [u \in DOMAIN q \cup {t} |-> IF u = t THEN r ELSE q[u]]
  PROVE  /\ IsTable(p) /\ DOMAIN p = DOMAIN q \cup {t}
         /\ p[t] = r /\ \A u \in DOMAIN q \ {t} : p[u] = q[u]
BY DEF IsTable

(* The earliest expiry is that of a task, and none is before it.           *)
LEMMA EarliestIs ==
  ASSUME IsTable(queue), DOMAIN queue # {}
  PROVE  /\ Earliest \in Nat
         /\ \E t \in DOMAIN queue : queue[t].expiry = Earliest
         /\ \A t \in DOMAIN queue : Earliest <= queue[t].expiry
<1> DEFINE S == {queue[t].expiry : t \in DOMAIN queue}
<1>1. S \in SUBSET Nat /\ S # {}
  BY DEF IsTable, Timed
<1>2. Earliest \in S /\ \A x \in S : Earliest <= x
  BY <1>1, MinOfNats DEF Earliest
<1> QED
  BY <1>1, <1>2

-----------------------------------------------------------------------------
(* The invariant.                                                          *)

Pcs == {"lock", "test", "round", "called", "wait", "awake", "ended"}

Types ==
  /\ now \in Nat
  /\ IsTable(queue) /\ IsTable(adding)
  /\ thread \in [pc : Pcs, current : Nat, until : Nat, task : Nat] /\ thread.current <= now
  /\ stopping \in {"no", "cleared", "joining", "done"}
  /\ runs \in [Tasks -> Nat]
  /\ removed \in SUBSET Tasks

(* A task is being added, or in the queue, or gone; it is added once.      *)
Tables ==
  /\ \A t \in DOMAIN adding :
       /\ t \notin DOMAIN queue /\ t \notin removed
       /\ runs[t] = 0 /\ adding[t].expiry = adding[t].first
  /\ \A t \in DOMAIN queue : t \notin removed

(* The task whose callback is running is in the queue, and its run counts. *)
Calling == thread.pc = "called" => thread.task \in DOMAIN queue /\ runs[thread.task] > 0

Stopped ==
  /\ stopping # "no" => DOMAIN adding = {}
  /\ stopping = "done" => thread.pc = "ended" /\ DOMAIN queue = {}

Sleeps ==
  thread.pc = "wait" =>
    \A t \in DOMAIN queue : thread.until <= queue[t].expiry \/ thread.until <= now

TimerInv == Types /\ Tables /\ Calling /\ Stopped /\ RoundsAddUp /\ Sleeps

LEMMA InitTimer == TimerAssumption /\ Init => TimerInv
<1> SUFFICES ASSUME TimerAssumption, Init PROVE TimerInv
  OBVIOUS
<1>1. IsTable(NoTasks) /\ DOMAIN NoTasks = {}
  BY DEF IsTable, NoTasks
<1>2. Types
  BY <1>1 DEF Init, Types, Pcs
<1>3. thread.pc = "lock" /\ stopping = "no" /\ DOMAIN queue = {} /\ DOMAIN adding = {}
  BY <1>1 DEF Init
<1> QED
  BY <1>2, <1>3 DEF TimerInv, Tables, Calling, Stopped, RoundsAddUp, Sleeps

(* A step of the thread, the clock or Stop that leaves the tables alone.   *)
LEMMA OtherStep ==
  ASSUME TimerInv, UNCHANGED <<queue, adding, runs, removed>>,
         now' \in Nat, now <= now',
         thread' \in [pc : Pcs, current : Nat, until : Nat, task : Nat], thread'.current <= now',
         thread.pc # "called", thread'.pc # "called",
         stopping' \in {"no", "cleared", "joining", "done"},
         Stopped', Sleeps'
  PROVE  TimerInv'
<1>1. Types'
  BY DEF TimerInv, Types
<1>2. Tables' /\ Calling'
  BY DEF TimerInv, Tables, Calling
<1>3. RoundsAddUp'
  BY DEF TimerInv, RoundsAddUp
<1> QED
  BY <1>1, <1>2, <1>3 DEF TimerInv

(* The clock goes on while any step is under way.                          *)
LEMMA TickTimer ==
  ASSUME TimerInv, Tick
  PROVE  TimerInv'
<1>1. now' = now + 1 /\ UNCHANGED <<queue, adding, thread, running, stopping, runs, removed>>
  BY DEF Tick
<1>2. Types'
  BY <1>1 DEF TimerInv, Types
<1>3. Sleeps'
  <2>1. thread.until \in Nat /\ now \in Nat
    BY DEF TimerInv, Types
  <2> QED
    BY <1>1, <2>1 DEF TimerInv, Sleeps
<1> QED
  BY <1>1, <1>2, <1>3 DEF TimerInv, Tables, Calling, Stopped, RoundsAddUp

LEMMA AddTaskTimer ==
  ASSUME TimerAssumption, TimerInv, NEW t \in Tasks, AddTask(t)
  PROVE  TimerInv'
<1>1. /\ t \notin DOMAIN adding \cup DOMAIN queue \cup removed /\ runs[t] = 0 /\ stopping = "no"
      /\ UNCHANGED <<now, queue, thread, running, stopping, runs, removed>>
  BY DEF AddTask
<1>2. PICK interval \in Intervals, once \in Once :
        adding' = [u \in DOMAIN adding \cup {t} |->
          IF u = t THEN [expiry |-> now + interval, interval |-> interval, once |-> once,
                         first |-> now + interval]
          ELSE adding[u]]
  BY DEF AddTask
<1>3. PICK r : r = [expiry |-> now + interval, interval |-> interval, once |-> once,
                    first |-> now + interval]
  OBVIOUS
<1>4. r \in Timed /\ r.expiry = r.first
  BY <1>3 DEF TimerInv, Types, TimerAssumption, Timed
<1>5. adding' = [u \in DOMAIN adding \cup {t} |-> IF u = t THEN r ELSE adding[u]]
  BY <1>2, <1>3
<1>6. /\ IsTable(adding') /\ DOMAIN adding' = DOMAIN adding \cup {t}
      /\ adding'[t] = r /\ \A u \in DOMAIN adding \ {t} : adding'[u] = adding[u]
  BY <1>4, <1>5, TableAdd DEF TimerInv, Types
<1>7. Types'
  <2>1. IsTable(queue')
    BY <1>1 DEF TimerInv, Types, IsTable
  <2> QED
    BY <1>1, <1>6, <2>1 DEF TimerInv, Types
<1>8. Tables'
  BY <1>1, <1>4, <1>6 DEF TimerInv, Tables
<1> QED
  BY <1>1, <1>7, <1>8 DEF TimerInv, Calling, Stopped, RoundsAddUp, Sleeps

(* Emplace wakes the thread up, whatever it was going to wait for.         *)
LEMMA EmplaceTimer ==
  ASSUME TimerInv, NEW t \in Tasks, Emplace(t)
  PROVE  TimerInv'
<1>1. /\ thread.pc \in {"lock", "wait", "awake", "ended"} /\ t \in DOMAIN adding
      /\ adding' = Restrict(adding, DOMAIN adding \ {t})
      /\ thread' = IF thread.pc = "wait" THEN [thread EXCEPT !.pc = "awake"] ELSE thread
      /\ UNCHANGED <<now, running, stopping, runs, removed>>
  BY DEF Emplace, Free, Notified
<1>2. PICK r : r = adding[t]
  OBVIOUS
<1>3. queue' = [u \in DOMAIN queue \cup {t} |-> IF u = t THEN r ELSE queue[u]]
  BY <1>2 DEF Emplace
<1>4. /\ r \in Timed /\ r.expiry = r.first /\ runs[t] = 0
      /\ t \notin DOMAIN queue /\ t \notin removed
  BY <1>1, <1>2 DEF TimerInv, Types, Tables, IsTable
<1>5. /\ IsTable(queue') /\ DOMAIN queue' = DOMAIN queue \cup {t}
      /\ queue'[t] = r /\ \A u \in DOMAIN queue \ {t} : queue'[u] = queue[u]
  BY <1>3, <1>4, TableAdd DEF TimerInv, Types
<1>6. /\ IsTable(adding') /\ DOMAIN adding' = DOMAIN adding \ {t}
      /\ \A u \in DOMAIN adding' : adding'[u] = adding[u]
  <2>1. DOMAIN adding \ {t} \in SUBSET DOMAIN adding /\ IsTable(adding)
    BY DEF TimerInv, Types
  <2> QED
    BY <1>1, <2>1, TableRestrict
<1>7. /\ thread' \in [pc : Pcs, current : Nat, until : Nat, task : Nat]
      /\ thread'.current = thread.current /\ thread'.pc \in {"lock", "awake", "ended"}
      /\ thread.pc = "ended" => thread'.pc = "ended"
  BY <1>1 DEF TimerInv, Types, Pcs
<1>8. Types'
  BY <1>1, <1>5, <1>6, <1>7 DEF TimerInv, Types
<1>9. Tables'
  BY <1>1, <1>4, <1>5, <1>6 DEF TimerInv, Tables
<1>10. Stopped'
  BY <1>1, <1>6 DEF TimerInv, Stopped
<1>11. RoundsAddUp'
  <2>1. ASSUME NEW u \in DOMAIN queue'
        PROVE  queue'[u].expiry = queue'[u].first + runs[u] * queue'[u].interval
    <3>1. CASE u = t
      <4>1. r.first \in Nat /\ r.interval \in Nat /\ 0 * r.interval = 0
        BY <1>4 DEF Timed
      <4> QED
        BY <1>4, <1>5, <3>1, <4>1
    <3>2. CASE u # t
      <4>1. u \in DOMAIN queue /\ queue'[u] = queue[u]
        BY <1>5, <3>2
      <4>2. queue[u].expiry = queue[u].first + runs[u] * queue[u].interval
        BY <1>1, <4>1 DEF TimerInv, RoundsAddUp
      <4> QED
        BY <4>1, <4>2
    <3> QED
      BY <3>1, <3>2
  <2> QED
    BY <1>1, <1>7, <2>1 DEF RoundsAddUp
<1> QED
  BY <1>7, <1>8, <1>9, <1>10, <1>11 DEF TimerInv, Calling, Sleeps

(* What taking some tasks out does to the queue.                           *)
LEMMA FewerTasks ==
  ASSUME TimerInv, NEW S \in SUBSET DOMAIN queue, queue' = Restrict(queue, S),
         UNCHANGED <<now, adding, runs>>
  PROVE  /\ IsTable(queue') /\ DOMAIN queue' = S
         /\ \A u \in S : queue'[u] = queue[u]
BY TableRestrict DEF TimerInv, Types

LEMMA RemoveTaskTimer ==
  ASSUME TimerInv, NEW t \in Tasks, RemoveTask(t)
  PROVE  TimerInv'
<1>1. /\ thread.pc \in {"lock", "wait", "awake", "ended"} /\ stopping = "no"
      /\ t \in DOMAIN queue /\ removed' = removed \cup {t}
      /\ UNCHANGED <<now, adding, thread, running, stopping, runs>>
  BY DEF RemoveTask, Free, OfId
<1>2. queue' = Restrict(queue, DOMAIN queue \ {t})
  <2>1. OfId(t) = {t}
    BY <1>1 DEF OfId
  <2>2. (CHOOSE u \in OfId(t) : TRUE) = t
    BY <2>1
  <2> QED
    BY <2>2 DEF RemoveTask
<1>3. /\ IsTable(queue') /\ DOMAIN queue' = DOMAIN queue \ {t}
      /\ \A u \in DOMAIN queue' : queue'[u] = queue[u]
  <2>1. DOMAIN queue \ {t} \in SUBSET DOMAIN queue
    OBVIOUS
  <2> QED
    BY <1>1, <1>2, <2>1, FewerTasks
<1>4. Types'
  <2>1. IsTable(adding')
    BY <1>1 DEF TimerInv, Types, IsTable
  <2> QED
    BY <1>1, <1>3, <2>1 DEF TimerInv, Types
<1>5. Tables'
  BY <1>1, <1>3 DEF TimerInv, Tables
<1>6. RoundsAddUp' /\ Sleeps'
  BY <1>1, <1>3 DEF TimerInv, RoundsAddUp, Sleeps
<1> QED
  BY <1>1, <1>4, <1>5, <1>6 DEF TimerInv, Calling, Stopped

(* A task that is called has expired by the time the thread read.          *)
LEMMA CalledIsDue ==
  ASSUME TimerInv, Call
  PROVE  /\ thread.pc = "round"
         /\ UNCHANGED <<now, queue, adding, running, stopping, removed>>
         /\ \E t \in DOMAIN queue :
              /\ queue[t].expiry <= now
              /\ thread' = [thread EXCEPT !.pc = "called", !.task = t]
              /\ runs' = [runs EXCEPT ![t] = @ + 1]
<1>1. PICK t \in DOMAIN queue :
        /\ queue[t].expiry = Earliest
        /\ thread' = [thread EXCEPT !.pc = "called", !.task = t]
        /\ runs' = [runs EXCEPT ![t] = @ + 1]
  BY DEF Call
<1>2. Earliest <= thread.current /\ thread.current <= now
  <2>1. IsTable(queue) /\ thread.current \in Nat
    BY DEF TimerInv, Types
  <2>2. Earliest \in Nat
    BY <2>1, <1>1, EarliestIs
  <2> QED
    BY <2>1, <2>2 DEF Call, Due, TimerInv, Types
<1>3. Earliest \in Nat /\ thread.current \in Nat /\ now \in Nat
  BY <1>1, EarliestIs DEF TimerInv, Types
<1>4. queue[t].expiry <= now
  BY <1>1, <1>2, <1>3
<1>5. thread.pc = "round" /\ UNCHANGED <<now, queue, adding, running, stopping, removed>>
  BY DEF Call
<1> QED
  BY <1>1, <1>4, <1>5

LEMMA CallTimer ==
  ASSUME TimerAssumption, TimerInv, Call
  PROVE  TimerInv'
<1>1. thread.pc = "round" /\ UNCHANGED <<now, queue, adding, running, stopping, removed>>
  BY CalledIsDue
<1>2. PICK t \in DOMAIN queue :
        /\ thread' = [thread EXCEPT !.pc = "called", !.task = t]
        /\ runs' = [runs EXCEPT ![t] = @ + 1]
  BY CalledIsDue
<1>3. t \in Tasks /\ t \in Nat /\ runs[t] \in Nat
  BY DEF TimerInv, Types, IsTable, TimerAssumption
<1>4. /\ thread' \in [pc : Pcs, current : Nat, until : Nat, task : Nat]
      /\ thread'.pc = "called" /\ thread'.task = t /\ thread'.current = thread.current
  BY <1>2, <1>3 DEF TimerInv, Types, Pcs
<1>5. /\ runs' \in [Tasks -> Nat] /\ runs'[t] = runs[t] + 1
      /\ \A u \in Tasks \ {t} : runs'[u] = runs[u]
  BY <1>2, <1>3 DEF TimerInv, Types
<1>6. Types'
  BY <1>1, <1>4, <1>5 DEF TimerInv, Types, IsTable
<1>7. Tables'
  <2>1. ASSUME NEW u \in DOMAIN adding PROVE u \in Tasks \ {t}
    BY DEF TimerInv, Types, Tables, IsTable
  <2> QED
    BY <1>1, <1>5, <2>1 DEF TimerInv, Tables
<1>8. Calling' /\ Stopped' /\ Sleeps'
  BY <1>1, <1>3, <1>4, <1>5 DEF TimerInv, Calling, Stopped, Sleeps
<1>9. RoundsAddUp'
  <2>1. ASSUME NEW u \in DOMAIN queue
        PROVE  queue[u].expiry = queue[u].first + runs[u] * queue[u].interval
    BY <1>1 DEF TimerInv, RoundsAddUp
  <2>2. runs'[t] - 1 = runs[t]
    BY <1>3, <1>5
  <2>3. ASSUME NEW u \in DOMAIN queue, u # t PROVE runs'[u] = runs[u]
    BY <1>5, <2>3 DEF TimerInv, Types, IsTable
  <2> QED
    BY <1>1, <1>4, <2>1, <2>2, <2>3 DEF RoundsAddUp
<1> QED
  BY <1>6, <1>7, <1>8, <1>9 DEF TimerInv

(* The next expiry is the last one and the interval, whatever time it is;  *)
(* a task that is done is taken out.                                       *)
LEMMA ReturnTimer ==
  ASSUME TimerInv, Return
  PROVE  TimerInv'
<1> DEFINE t == thread.task
<1>1. /\ thread.pc = "called" /\ thread' = [thread EXCEPT !.pc = "round"]
      /\ UNCHANGED <<now, adding, running, stopping, runs, removed>>
  BY DEF Return, At
<1>2. \/ queue' = Restrict(queue, DOMAIN queue \ {t})
      \/ queue' = [queue EXCEPT ![t].expiry = NextExpiry(queue[t])]
  BY DEF Return
<1>3. t \in DOMAIN queue /\ t \in Tasks /\ runs[t] \in Nat \ {0} /\ queue[t] \in Timed
  BY <1>1 DEF TimerInv, Calling, Types, IsTable
<1>4. /\ thread' \in [pc : Pcs, current : Nat, until : Nat, task : Nat]
      /\ thread'.pc = "round" /\ thread'.current = thread.current
  BY <1>1 DEF TimerInv, Types, Pcs
<1>5. ASSUME NEW u \in DOMAIN queue, u # t
      PROVE  queue[u].expiry = queue[u].first + runs[u] * queue[u].interval
  BY <1>5 DEF TimerInv, RoundsAddUp
<1>6. stopping # "done"
  BY <1>1 DEF TimerInv, Stopped
<1>7. CASE queue' = Restrict(queue, DOMAIN queue \ {t})
  <2>1. /\ IsTable(queue') /\ DOMAIN queue' = DOMAIN queue \ {t}
        /\ \A u \in DOMAIN queue' : queue'[u] = queue[u]
    <3>1. DOMAIN queue \ {t} \in SUBSET DOMAIN queue
      OBVIOUS
    <3> QED
      BY <1>1, <1>7, <3>1, FewerTasks
  <2>2. Types'
    BY <1>1, <1>4, <2>1 DEF TimerInv, Types, IsTable
  <2>3. Tables' /\ Calling' /\ Stopped' /\ Sleeps'
    BY <1>1, <1>4, <1>6, <2>1 DEF TimerInv, Tables, Calling, Stopped, Sleeps
  <2>4. RoundsAddUp'
    <3> HIDE DEF t
    <3> QED
      BY <1>1, <1>4, <1>5, <2>1 DEF RoundsAddUp
  <2> QED
    BY <2>2, <2>3, <2>4 DEF TimerInv
<1>8. CASE queue' = [queue EXCEPT ![t].expiry = NextExpiry(queue[t])]
  <2>1. /\ DOMAIN queue' = DOMAIN queue
        /\ queue'[t] = [queue[t] EXCEPT !.expiry = queue[t].expiry + queue[t].interval]
        /\ \A u \in DOMAIN queue \ {t} : queue'[u] = queue[u]
    BY <1>3, <1>8 DEF NextExpiry, TimerInv, Types, IsTable
  <2>2. /\ queue'[t] \in Timed
        /\ queue'[t].expiry = queue[t].expiry + queue[t].interval
        /\ queue'[t].first = queue[t].first /\ queue'[t].interval = queue[t].interval
    BY <1>3, <2>1 DEF Timed
  <2>3. IsTable(queue')
    <3>1. queue' \in [DOMAIN queue -> Timed]
      <4>1. queue \in [DOMAIN queue -> Timed]
        BY DEF TimerInv, Types, IsTable
      <4>2. \A u \in DOMAIN queue : queue'[u] \in Timed
        BY <2>1, <2>2, <4>1
      <4>3. queue' = [u \in DOMAIN queue |-> queue'[u]]
        BY <1>8
      <4> QED
        BY <4>2, <4>3
    <3> QED
      BY <2>1, <3>1 DEF TimerInv, Types, IsTable
  <2>4. Types'
    BY <1>1, <1>4, <2>3 DEF TimerInv, Types, IsTable
  <2>5. Tables' /\ Calling' /\ Stopped' /\ Sleeps'
    BY <1>1, <1>4, <1>6, <2>1 DEF TimerInv, Tables, Calling, Stopped, Sleeps
  <2>6. queue'[t].expiry = queue'[t].first + runs[t] * queue'[t].interval
    <3>1. queue[t].expiry = queue[t].first + (runs[t] - 1) * queue[t].interval
      BY <1>1, <1>3 DEF TimerInv, RoundsAddUp
    <3>2. ASSUME NEW n \in Nat, NEW i \in Nat PROVE (n - 1) * i + i = n * i
      OBVIOUS
    <3>3. queue[t].first \in Nat /\ queue[t].interval \in Nat /\ queue[t].expiry \in Nat
      BY <1>3 DEF Timed
    <3> HIDE DEF t
    <3>4. (runs[t] - 1) * queue[t].interval + queue[t].interval = runs[t] * queue[t].interval
      BY <1>3, <3>2, <3>3
    <3>5. (runs[t] - 1) * queue[t].interval \in Int /\ runs[t] * queue[t].interval \in Int
      BY <1>3, <3>3
    <3> QED
      BY <2>2, <3>1, <3>3, <3>4, <3>5
  <2>7. RoundsAddUp'
    <3> HIDE DEF t
    <3> QED
      BY <1>1, <1>4, <1>5, <2>1, <2>6 DEF RoundsAddUp
  <2> QED
    BY <2>4, <2>5, <2>7 DEF TimerInv
<1> QED
  BY <1>2, <1>7, <1>8

(* The thread waits until the earliest task is due, and no longer than to  *)
(* the horizon.                                                            *)
LEMMA WaitTimer ==
  ASSUME TimerAssumption, TimerInv, Wait
  PROVE  TimerInv'
<1>1. /\ thread.pc = "round"
      /\ thread' = [thread EXCEPT !.pc = "wait", !.until = Min({WaitUntil, Horizon}), !.task = 0]
      /\ UNCHANGED <<now, queue, adding, running, stopping, runs, removed>>
  BY DEF Wait
<1>2. Horizon \in Nat /\ now \in Nat /\ IsTable(queue)
  BY DEF TimerAssumption, TimerInv, Types
<1>3. WaitUntil \in Nat /\ \A t \in DOMAIN queue : WaitUntil <= now \/ WaitUntil <= queue[t].expiry
  <2>1. CASE DOMAIN queue = {}
    BY <1>2, <2>1, TableEmpty DEF WaitUntil
  <2>2. CASE DOMAIN queue # {}
    <3>1. Earliest \in Nat /\ \A t \in DOMAIN queue : Earliest <= queue[t].expiry
      BY <1>2, <2>2, EarliestIs
    <3>2. Max({now, Earliest}) \in {now, Earliest}
      BY <1>2, <3>1, OfTwo
    <3>3. WaitUntil \in {now, Earliest}
      BY <1>2, <2>2, <3>2, TableEmpty DEF WaitUntil
    <3> QED
      BY <1>2, <3>1, <3>3
  <2> QED
    BY <2>1, <2>2
<1>4. PICK until \in Nat : until = Min({WaitUntil, Horizon}) /\ until <= WaitUntil
  BY <1>2, <1>3, OfTwo
<1>5. /\ thread' \in [pc : Pcs, current : Nat, until : Nat, task : Nat]
      /\ thread'.pc = "wait" /\ thread'.current = thread.current /\ thread'.until = until
  BY <1>1, <1>4 DEF TimerInv, Types, Pcs
<1>6. Sleeps'
  <2>1. ASSUME NEW t \in DOMAIN queue PROVE until <= queue[t].expiry \/ until <= now
    <3>1. queue[t].expiry \in Nat
      BY <1>2 DEF IsTable, Timed
    <3> QED
      BY <1>2, <1>3, <1>4, <3>1
  <2> QED
    BY <1>1, <1>5, <2>1 DEF Sleeps
<1>7. Stopped'
  BY <1>1, <1>5 DEF TimerInv, Stopped
<1> QED
  BY <1>1, <1>2, <1>5, <1>6, <1>7, OtherStep DEF TimerInv, Types

LEMMA LockTimer ==
  ASSUME TimerInv, Lock \/ Test \/ TimeOut
  PROVE  TimerInv'
<1>1. /\ UNCHANGED <<now, queue, adding, running, stopping, runs, removed>>
      /\ thread.pc \in {"lock", "test", "wait", "awake"}
      /\ \/ thread' = [thread EXCEPT !.pc = "test"]
         \/ thread' = [thread EXCEPT !.pc = "awake"]
         \/ thread' = [thread EXCEPT !.pc = "ended"]
         \/ thread' = [thread EXCEPT !.pc = "round", !.current = now]
  BY DEF Lock, Test, TimeOut, At
<1>2. /\ thread' \in [pc : Pcs, current : Nat, until : Nat, task : Nat]
      /\ thread'.current <= now /\ thread'.pc \in {"test", "awake", "ended", "round"}
  <2>1. thread \in [pc : Pcs, current : Nat, until : Nat, task : Nat] /\ thread.current <= now
        /\ now \in Nat
    BY DEF TimerInv, Types
  <2>2. ASSUME NEW pc \in {"test", "awake", "ended"}, thread' = [thread EXCEPT !.pc = pc]
        PROVE  /\ thread' \in [pc : Pcs, current : Nat, until : Nat, task : Nat]
               /\ thread'.current <= now /\ thread'.pc = pc
    BY <2>1, <2>2 DEF Pcs
  <2>3. CASE thread' = [thread EXCEPT !.pc = "round", !.current = now]
    <3>1. thread'.current = now /\ thread'.pc = "round"
      BY <2>1, <2>3
    <3>2. thread' \in [pc : Pcs, current : Nat, until : Nat, task : Nat]
      BY <2>1, <2>3 DEF Pcs
    <3> QED
      BY <2>1, <3>1, <3>2
  <2> QED
    BY <1>1, <2>2, <2>3
<1>3. Stopped' /\ Sleeps'
  BY <1>1, <1>2 DEF TimerInv, Stopped, Sleeps
<1> QED
  BY <1>1, <1>2, <1>3, OtherStep DEF TimerInv, Types

LEMMA StopTimer ==
  ASSUME TimerInv, Stop
  PROVE  TimerInv'
<1>1. CASE StopClear
  <2>1. /\ adding = NoTasks /\ stopping = "no" /\ stopping' = "cleared"
        /\ UNCHANGED <<now, queue, adding, thread, runs, removed>>
    BY <1>1 DEF StopClear
  <2>2. Types' /\ Stopped'
    BY <2>1, TableEmpty DEF TimerInv, Types, Stopped, IsTable
  <2> QED
    BY <2>1, <2>2 DEF TimerInv, Tables, Calling, RoundsAddUp, Sleeps
<1>2. CASE StopNotify
  <2>1. /\ stopping = "cleared" /\ stopping' = "joining"
        /\ thread' = IF thread.pc = "wait" THEN [thread EXCEPT !.pc = "awake"] ELSE thread
        /\ UNCHANGED <<now, queue, adding, running, runs, removed>>
    BY <1>2 DEF StopNotify, Notified
  <2>2. /\ thread' \in [pc : Pcs, current : Nat, until : Nat, task : Nat]
        /\ thread'.current = thread.current /\ thread'.task = thread.task
        /\ thread'.pc # "wait" /\ (thread'.pc = "called" <=> thread.pc = "called")
    BY <2>1 DEF TimerInv, Types, Pcs
  <2>3. Types' /\ Stopped'
    BY <2>1, <2>2 DEF TimerInv, Types, Stopped, IsTable
  <2> QED
    BY <2>1, <2>2, <2>3 DEF TimerInv, Tables, Calling, RoundsAddUp, Sleeps
<1>3. CASE StopJoin
  <2>1. /\ stopping = "joining" /\ thread.pc = "ended" /\ stopping' = "done" /\ queue' = NoTasks
        /\ UNCHANGED <<now, adding, thread, running, runs, removed>>
    BY <1>3 DEF StopJoin
  <2>2. IsTable(queue') /\ DOMAIN queue' = {}
    BY <2>1 DEF IsTable, NoTasks
  <2>3. Types' /\ Stopped'
    BY <2>1, <2>2 DEF TimerInv, Types, Stopped, IsTable
  <2> QED
    BY <2>1, <2>2, <2>3 DEF TimerInv, Tables, Calling, RoundsAddUp, Sleeps
<1> QED
  BY <1>1, <1>2, <1>3 DEF Stop

LEMMA NextTimer == TimerAssumption /\ TimerInv /\ [Next]_vars => TimerInv'
<1> SUFFICES ASSUME TimerAssumption, TimerInv, [Next]_vars PROVE TimerInv'
  OBVIOUS
<1>1. CASE Tick
  BY <1>1, TickTimer
<1>2. CASE MainLoop
  BY <1>2, LockTimer, CallTimer, ReturnTimer, WaitTimer DEF MainLoop
<1>3. CASE Stop
  BY <1>3, StopTimer
<1>4. ASSUME NEW t \in Tasks, AddTask(t) \/ Emplace(t) \/ RemoveTask(t)
      PROVE  TimerInv'
  BY <1>4, AddTaskTimer, EmplaceTimer, RemoveTaskTimer
<1>5. CASE UNCHANGED vars
  BY <1>5 DEF vars, TimerInv, Types, Tables, Calling, Stopped, RoundsAddUp, Sleeps, IsTable
<1> QED
  BY <1>1, <1>2, <1>3, <1>4, <1>5 DEF Next

-----------------------------------------------------------------------------
(* The invariant holds (TimerThread).                                      *)
THEOREM TimerCorrect ==
  ASSUME TimerAssumption
  PROVE  Spec => []TimerInv
<1> QED
  BY InitTimer, NextTimer, PTL DEF Spec

(* The tasks in the queue are those that were added, the one whose         *)
(* callback runs is there, and none is there when Stop has returned.       *)
THEOREM TimerTypeCorrect ==
  ASSUME TimerAssumption
  PROVE  Spec => []TypeOK
<1>1. TimerInv => TypeOK
  BY TableEmpty DEF TimerInv, Types, Calling, Stopped, TypeOK, IsTable
<1> QED
  BY <1>1, TimerCorrect, PTL

(* A periodic task loses no round and its rounds do not drift, however     *)
(* late its callback makes the thread (MainLoop).                          *)
THEOREM RoundsCorrect ==
  ASSUME TimerAssumption
  PROVE  Spec => []RoundsAddUp
<1>1. TimerInv => RoundsAddUp
  BY DEF TimerInv
<1> QED
  BY <1>1, TimerCorrect, PTL

(* The thread does not sleep past a task, whatever is added and removed    *)
(* while it sleeps (AddTask, MainLoop).                                    *)
THEOREM SleepCorrect ==
  ASSUME TimerAssumption
  PROVE  Spec => []SleepsNoLonger
<1>1. TimerInv => SleepsNoLonger
  <2> SUFFICES ASSUME TimerInv, thread.pc = "wait", queue # NoTasks
               PROVE  thread.until <= Max({Earliest, now})
    BY DEF SleepsNoLonger
  <2>1. IsTable(queue) /\ DOMAIN queue # {} /\ now \in Nat /\ thread.until \in Nat
    BY TableEmpty DEF TimerInv, Types
  <2>2. Earliest \in Nat
    BY <2>1, EarliestIs
  <2>3. PICK t \in DOMAIN queue : queue[t].expiry = Earliest
    BY <2>1, EarliestIs
  <2>4. thread.until <= Earliest \/ thread.until <= now
    BY <2>3 DEF TimerInv, Sleeps
  <2>5. Max({Earliest, now}) \in {Earliest, now} /\ Max({Earliest, now}) >= Earliest
        /\ Max({Earliest, now}) >= now
    BY <2>1, <2>2, OfTwo
  <2> QED
    BY <2>1, <2>2, <2>4, <2>5
<1> QED
  BY <1>1, TimerCorrect, PTL

(* Which task a step runs: one in the queue, that is due.                  *)
LEMMA RunsWhenDue ==
  ASSUME TimerInv, [Next]_vars
  PROVE  \/ runs' = runs
         \/ \E t \in DOMAIN queue :
              queue[t].expiry <= now /\ runs' = [runs EXCEPT ![t] = @ + 1]
<1>1. CASE Call
  BY <1>1, CalledIsDue
<1>2. CASE ~ Call
  BY <1>2 DEF Next, vars, Tick, MainLoop, Lock, Test, Return, Wait, TimeOut, Stop, StopClear,
              StopNotify, StopJoin, AddTask, Emplace, RemoveTask
<1> QED
  BY <1>1, <1>2

(* A task does not run before it is due, whatever the loop has read of the *)
(* clock (MainLoop).                                                       *)
THEOREM NeverEarlyCorrect ==
  ASSUME TimerAssumption
  PROVE  Spec => NeverEarly
<1>1. TimerInv /\ [Next]_vars => [\A t \in Tasks : runs'[t] > runs[t] => now >= queue[t].expiry]_vars
  <2> SUFFICES ASSUME TimerInv, [Next]_vars, NEW t \in Tasks, runs'[t] > runs[t]
               PROVE  now >= queue[t].expiry
    OBVIOUS
  <2>1. runs \in [Tasks -> Nat] /\ IsTable(queue) /\ now \in Nat
    BY DEF TimerInv, Types
  <2>2. runs' # runs
    BY <2>1
  <2>3. PICK u \in DOMAIN queue : queue[u].expiry <= now /\ runs' = [runs EXCEPT ![u] = @ + 1]
    BY <2>2, RunsWhenDue
  <2>4. u = t /\ queue[u].expiry \in Nat
    BY <2>1, <2>3 DEF IsTable, Timed
  <2> QED
    BY <2>1, <2>3, <2>4
<1> QED
  BY <1>1, TimerCorrect, PTL DEF Spec, NeverEarly

(* Once RemoveTask has returned, its task does not run again, not even     *)
(* when it was due (RemoveTask).                                           *)
THEOREM RemovedCorrect ==
  ASSUME TimerAssumption
  PROVE  Spec => RemovedNeverRuns
<1>1. TimerInv /\ [Next]_vars => [\A t \in removed : runs'[t] = runs[t]]_vars
  <2> SUFFICES ASSUME TimerInv, [Next]_vars, NEW t \in removed PROVE runs'[t] = runs[t]
    OBVIOUS
  <2>1. runs \in [Tasks -> Nat] /\ t \in Tasks /\ t \notin DOMAIN queue
    BY DEF TimerInv, Types, Tables
  <2> QED
    BY <2>1, RunsWhenDue
<1> QED
  BY <1>1, TimerCorrect, PTL DEF Spec, RemovedNeverRuns

-----------------------------------------------------------------------------
(* MainLoop with one strategy in a backtest.  There is one token: the      *)
(* strategy's notification, which makes the gateway feed a tick, and the   *)
(* tick itself on its way to the strategy.  What the strategy ordered on a *)
(* tick is before the notification that it wrote after it; orders sent on  *)
(* responses may be anywhere.                                              *)

Command == [type : {"order", "notify"}, s : {1}, tick : Nat, on : {"tick", "rsp"}]
Notice == [type |-> "notify", s |-> 1, tick |-> 0, on |-> "tick"]
Placed(tick) == [type |-> "order", s |-> 1, tick |-> tick, on |-> "tick"]
Reaction(tick) == [type |-> "order", s |-> 1, tick |-> tick, on |-> "rsp"]

(* Every command is an order on a response, an order on the last tick fed, *)
(* or the notification; behind a notification there are only the first,    *)
(* and while the tick is on its way there are only those.                  *)
InOrder(cmd, n) ==
  /\ cmd \in Seq(Command)
  /\ \A i \in 1 .. Len(cmd) : cmd[i].type = "notify" => cmd[i].on = "tick"
  /\ \A i \in 1 .. Len(cmd) : cmd[i].type = "order" /\ cmd[i].on = "tick" => cmd[i].tick = n
  /\ \A i, j \in 1 .. Len(cmd) : i < j /\ cmd[i].type = "notify" => cmd[j].on = "rsp"

NoneOnTick(cmd) == \A i \in 1 .. Len(cmd) : cmd[i].on = "rsp"

OneToken(cmd, ticks, md, n) ==
  /\ InOrder(cmd, n)
  /\ \/ ticks = <<>> /\ md = <<>>
     \/ ticks = <<n>> /\ md = <<>> /\ NoneOnTick(cmd)
     \/ ticks = <<>> /\ md = <<n>> /\ NoneOnTick(cmd)

Turn == [at : {"cmd", "rsp"}, reader : {1}, count : Nat]
StrategyLoop == [reads : {"rsp", "tick"}, open : Int, tick : Nat, reacted : Nat]

LoopInv ==
  /\ DOMAIN cmdq = {1} /\ DOMAIN mdq = {1} /\ strat \in [{1} -> StrategyLoop]
  /\ main \in Turn /\ fed \in Nat /\ "tick" \notin late
  /\ OneToken(cmdq[1], tickq, mdq[1], fed)

(* The rest of a queue is in order, the first command being gone.          *)
LEMMA RestInOrder ==
  ASSUME NEW n, NEW cmd, InOrder(cmd, n), cmd # <<>>
  PROVE  /\ Head(cmd) \in Command /\ InOrder(Tail(cmd), n)
         /\ Head(cmd).type = "notify" => NoneOnTick(Tail(cmd))
         /\ Head(cmd).type = "order" /\ Head(cmd).on = "tick" => Head(cmd).tick = n
         /\ Head(cmd).type = "notify" => Head(cmd).on = "tick"
         /\ NoneOnTick(cmd) => NoneOnTick(Tail(cmd)) /\ Head(cmd).on = "rsp"
<1>1. cmd \in Seq(Command)
  BY DEF InOrder
<1>2. PICK rest : rest = Tail(cmd)
  OBVIOUS
<1>3. /\ Head(cmd) \in Command /\ rest \in Seq(Command) /\ Len(rest) = Len(cmd) - 1
      /\ \A i \in 1 .. Len(rest) : rest[i] = cmd[i + 1]
  BY <1>1, <1>2, HeadTailProperties
<1>4. Head(cmd) = cmd[1] /\ 1 \in 1 .. Len(cmd) /\ Len(cmd) \in Nat
  BY <1>1
<1>5. \A i \in 1 .. Len(rest) : i + 1 \in 1 .. Len(cmd) /\ 1 < i + 1
  BY <1>3, <1>4
<1>6. \A i, j \in 1 .. Len(rest) : i < j => i + 1 < j + 1
  OBVIOUS
<1>7. InOrder(rest, n)
  <2>1. ASSUME NEW i \in 1 .. Len(rest)
        PROVE  /\ rest[i].type = "notify" => rest[i].on = "tick"
               /\ rest[i].type = "order" /\ rest[i].on = "tick" => rest[i].tick = n
    <3>1. i + 1 \in 1 .. Len(cmd) /\ rest[i] = cmd[i + 1]
      BY <1>3, <1>5
    <3> QED
      BY <3>1 DEF InOrder
  <2>2. ASSUME NEW i \in 1 .. Len(rest), NEW j \in 1 .. Len(rest), i < j, rest[i].type = "notify"
        PROVE  rest[j].on = "rsp"
    <3>1. i + 1 \in 1 .. Len(cmd) /\ j + 1 \in 1 .. Len(cmd) /\ i + 1 < j + 1
      BY <1>5, <1>6, <2>2
    <3>2. rest[i] = cmd[i + 1] /\ rest[j] = cmd[j + 1]
      BY <1>3
    <3> QED
      BY <2>2, <3>1, <3>2 DEF InOrder
  <2> QED
    BY <1>3, <2>1, <2>2 DEF InOrder
<1>8. cmd[1].type = "notify" => NoneOnTick(rest)
  BY <1>3, <1>4, <1>5 DEF InOrder, NoneOnTick
<1>9. NoneOnTick(cmd) => NoneOnTick(rest) /\ cmd[1].on = "rsp"
  BY <1>3, <1>4, <1>5 DEF NoneOnTick
<1>10. /\ cmd[1].type = "notify" => cmd[1].on = "tick"
       /\ cmd[1].type = "order" /\ cmd[1].on = "tick" => cmd[1].tick = n
  BY <1>4 DEF InOrder
<1> QED
  BY <1>2, <1>3, <1>4, <1>7, <1>8, <1>9, <1>10

(* A command that is written behind others: an order on a response keeps   *)
(* the order, any other one does when all before it are on responses.      *)
LEMMA WrittenInOrder ==
  ASSUME NEW n \in Nat, NEW cmd, InOrder(cmd, n), NEW c \in Command,
         c.on = "rsp" => c.type = "order",
         c.on = "tick" => (c.type = "order" /\ c.tick = n) \/ c.type = "notify",
         c.on = "rsp" \/ \A i \in 1 .. Len(cmd) : cmd[i].type # "notify"
  PROVE  InOrder(cmd \o <<c>>, n) /\ (c.on = "rsp" /\ NoneOnTick(cmd) => NoneOnTick(cmd \o <<c>>))
<1>1. cmd \in Seq(Command) /\ <<c>> \in Seq(Command) /\ Len(<<c>>) = 1 /\ <<c>>[1] = c
  BY DEF InOrder
<1>2. PICK more : more = cmd \o <<c>>
  OBVIOUS
<1>3. /\ more \in Seq(Command) /\ Len(more) = Len(cmd) + 1
      /\ \A i \in 1 .. Len(cmd) + 1 : more[i] = IF i <= Len(cmd) THEN cmd[i] ELSE <<c>>[i - Len(cmd)]
  BY <1>1, <1>2, ConcatProperties
<1>4. Len(cmd) \in Nat
  BY <1>1
<1>5. \A i \in 1 .. Len(more) : \/ i \in 1 .. Len(cmd) /\ more[i] = cmd[i]
                                \/ i = Len(cmd) + 1 /\ more[i] = c
  BY <1>1, <1>3, <1>4
<1>6. ASSUME NEW i \in 1 .. Len(more), NEW j \in 1 .. Len(more), i < j, more[i].type = "notify"
      PROVE  more[j].on = "rsp"
  <2>1. i \in 1 .. Len(cmd) /\ more[i] = cmd[i]
    BY <1>3, <1>4, <1>5, <1>6
  <2>2. CASE j \in 1 .. Len(cmd) /\ more[j] = cmd[j]
    BY <1>6, <2>1, <2>2 DEF InOrder
  <2>3. CASE more[j] = c
    BY <1>6, <2>1, <2>3
  <2> QED
    BY <1>5, <2>2, <2>3
<1>7. c.on \in {"tick", "rsp"} /\ c.type \in {"order", "notify"}
  BY DEF Command
<1>8. \A i \in 1 .. Len(more) : more[i].type = "notify" => more[i].on = "tick"
  BY <1>5, <1>7 DEF InOrder
<1>9. \A i \in 1 .. Len(more) : more[i].type = "order" /\ more[i].on = "tick" => more[i].tick = n
  BY <1>5 DEF InOrder
<1>10. InOrder(more, n)
  BY <1>3, <1>6, <1>8, <1>9 DEF InOrder
<1>11. c.on = "rsp" /\ NoneOnTick(cmd) => NoneOnTick(more)
  BY <1>5 DEF NoneOnTick
<1> QED
  BY <1>2, <1>10, <1>11

LEMMA LoopReaders ==
  ASSUME Strategies = 1
  PROVE  Loop!Readers = {1}
BY DEF Loop!Readers

(* The main loop executes the strategy's next command.                     *)
LEMMA LoopExecutes ==
  ASSUME LoopInv, Strategies = 1, Backtest = TRUE, Loop!ExecuteCmd
  PROVE  LoopInv'
<1>1. /\ DOMAIN cmdq = {1} /\ DOMAIN mdq = {1} /\ strat \in [{1} -> StrategyLoop]
      /\ main \in Turn /\ main.reader = 1 /\ fed \in Nat /\ "tick" \notin late
      /\ OneToken(cmdq[1], tickq, mdq[1], fed)
  BY DEF LoopInv, Turn
<1>2. PICK cmd : cmd = cmdq[1]
  OBVIOUS
<1>3. /\ cmd # <<>> /\ cmdq' = [cmdq EXCEPT ![1] = Tail(cmd)] /\ UNCHANGED <<mdq, main, strat>>
      /\ IF Head(cmd).type = "order" THEN Loop!SendOrder(Head(cmd)) ELSE Loop!Feed
  BY <1>1, <1>2 DEF Loop!ExecuteCmd
<1>4. DOMAIN cmdq' = {1} /\ cmdq'[1] = Tail(cmd) /\ mdq' = mdq /\ main' = main /\ strat' = strat
  BY <1>1, <1>3
<1>5. InOrder(cmd, fed) /\ cmd # <<>>
  BY <1>1, <1>2, <1>3 DEF OneToken
<1>6. PICK c \in Command : c = Head(cmd)
  BY <1>5, RestInOrder
<1>7. /\ InOrder(Tail(cmd), fed) /\ (c.type = "notify" => NoneOnTick(Tail(cmd)) /\ c.on = "tick")
      /\ (c.type = "order" /\ c.on = "tick" => c.tick = fed)
      /\ (NoneOnTick(cmd) => NoneOnTick(Tail(cmd)) /\ c.on = "rsp")
  BY <1>5, <1>6, RestInOrder
<1>8. c.type \in {"order", "notify"} /\ c.on \in {"tick", "rsp"}
  BY <1>6 DEF Command
<1>9. CASE c.type = "order"
  <2>1. Loop!SendOrder(c)
    BY <1>3, <1>9, <1>6
  <2>2. /\ late' = IF c.tick # fed THEN late \cup {c.on} ELSE late
        /\ UNCHANGED <<tickq, fed>>
    BY <2>1 DEF Loop!SendOrder
  <2>3. "tick" \notin late'
    BY <1>1, <1>7, <1>9, <2>2
  <2>4. OneToken(cmdq'[1], tickq', mdq'[1], fed')
    BY <1>1, <1>2, <1>4, <1>7, <2>2 DEF OneToken
  <2> QED
    BY <1>1, <1>4, <2>2, <2>3, <2>4 DEF LoopInv
<1>10. CASE c.type = "notify"
  <2>1. Loop!Feed
    BY <1>3, <1>10, <1>6
  <2>2. tickq = <<>> /\ mdq[1] = <<>> /\ NoneOnTick(Tail(cmd))
    <3>1. ~NoneOnTick(cmd)
      BY <1>7, <1>10
    <3> QED
      BY <1>1, <1>2, <1>7, <1>10, <3>1 DEF OneToken
  <2>3. \/ fed' = fed + 1 /\ tickq' = Append(tickq, fed + 1) /\ UNCHANGED late
        \/ UNCHANGED <<fed, tickq, late>>
    BY <2>1 DEF Loop!Feed
  <2>4. CASE fed' = fed + 1 /\ tickq' = Append(tickq, fed + 1) /\ UNCHANGED late
    <3>1. PICK t \in Nat : t = fed + 1
      BY <1>1
    <3>2. Append(<<>>, t) = <<t>>
      OBVIOUS
    <3>3. tickq' = <<t>> /\ fed' = t
      BY <2>2, <2>4, <3>1, <3>2
    <3>4. InOrder(Tail(cmd), t)
      BY <1>7, <2>2 DEF InOrder, NoneOnTick
    <3>5. OneToken(cmdq'[1], tickq', mdq'[1], fed')
      BY <1>4, <2>2, <3>3, <3>4 DEF OneToken
    <3> QED
      BY <1>1, <1>4, <2>4, <3>1, <3>3, <3>5 DEF LoopInv
  <2>5. CASE UNCHANGED <<fed, tickq, late>>
    <3>1. OneToken(cmdq'[1], tickq', mdq'[1], fed')
      BY <1>4, <1>7, <2>2, <2>5 DEF OneToken
    <3> QED
      BY <1>1, <1>4, <2>5, <3>1 DEF LoopInv
  <2> QED
    BY <2>3, <2>4, <2>5
<1> QED
  BY <1>8, <1>9, <1>10

(* The tick thread passes the tick on.                                     *)
LEMMA LoopTicks ==
  ASSUME LoopInv, Strategies = 1, Loop!ProcessTick
  PROVE  LoopInv'
<1>1. /\ DOMAIN cmdq = {1} /\ main \in Turn /\ main.reader = 1 /\ fed \in Nat /\ "tick" \notin late
      /\ strat \in [{1} -> StrategyLoop] /\ OneToken(cmdq[1], tickq, mdq[1], fed)
  BY DEF LoopInv, Turn
<1>2. /\ tickq # <<>> /\ tickq' = Tail(tickq)
      /\ mdq' = [s \in {1} |-> Append(mdq[s], Head(tickq))]
      /\ UNCHANGED <<cmdq, main, strat, fed, late>>
  BY LoopReaders DEF Loop!ProcessTick
<1>3. tickq = <<fed>> /\ mdq[1] = <<>> /\ InOrder(cmdq[1], fed) /\ NoneOnTick(cmdq[1])
  BY <1>1, <1>2 DEF OneToken
<1>4. Head(<<fed>>) = fed /\ Tail(<<fed>>) = <<>> /\ Append(<<>>, fed) = <<fed>>
  OBVIOUS
<1>5. tickq' = <<>> /\ DOMAIN mdq' = {1} /\ mdq'[1] = <<fed>>
  BY <1>2, <1>3, <1>4
<1>6. OneToken(cmdq'[1], tickq', mdq'[1], fed')
  BY <1>2, <1>3, <1>5 DEF OneToken
<1> QED
  BY <1>1, <1>2, <1>5, <1>6 DEF LoopInv

(* The strategy reads a tick: its order, if any, and then its notification.*)
LEMMA LoopReads ==
  ASSUME LoopInv, Strategies = 1, Backtest = TRUE, Loop!ReadTick(1)
  PROVE  LoopInv'
<1>1. /\ DOMAIN cmdq = {1} /\ DOMAIN mdq = {1} /\ main \in Turn /\ fed \in Nat /\ "tick" \notin late
      /\ strat \in [{1} -> StrategyLoop] /\ OneToken(cmdq[1], tickq, mdq[1], fed)
  BY DEF LoopInv
<1>2. UNCHANGED <<tickq, main, fed, late>>
  BY DEF Loop!ReadTick
<1>3. CASE mdq[1] = <<>>
  <2>1. UNCHANGED <<cmdq, mdq>> /\ strat' = [strat EXCEPT ![1].reads = "rsp"]
    BY <1>3 DEF Loop!ReadTick
  <2>2. strat' \in [{1} -> StrategyLoop]
    BY <1>1, <2>1 DEF StrategyLoop
  <2> QED
    BY <1>1, <1>2, <2>1, <2>2 DEF LoopInv
<1>4. CASE mdq[1] # <<>>
  <2>1. PICK cmd : cmd = cmdq[1]
    OBVIOUS
  <2>2. mdq[1] = <<fed>> /\ tickq = <<>> /\ InOrder(cmd, fed) /\ NoneOnTick(cmd)
    BY <1>1, <1>4, <2>1 DEF OneToken
  <2>3. Head(<<fed>>) = fed /\ Tail(<<fed>>) = <<>>
    OBVIOUS
  <2>4. PICK placed \in Loop!Orders(1, Head(mdq[1]), "tick", strat[1].open) :
          /\ mdq' = [mdq EXCEPT ![1] = Tail(@)]
          /\ cmdq' = [cmdq EXCEPT ![1] = @ \o Loop!OnTickMsg(1, placed)]
          /\ strat' = [strat EXCEPT ![1] =
               [reads |-> "rsp", open |-> @.open + Len(placed), tick |-> Head(mdq[1]),
                reacted |-> @.reacted]]
    BY <1>4 DEF Loop!ReadTick
  <2>5. PICK n \in Command : n = Notice
    BY DEF Notice, Command
  <2>6. PICK o \in Command : o = Placed(fed)
    BY <1>1 DEF Placed, Command
  <2>7. n.type = "notify" /\ n.on = "tick" /\ o.type = "order" /\ o.on = "tick" /\ o.tick = fed
    BY <2>5, <2>6 DEF Notice, Placed
  <2>8. placed = <<>> \/ placed = <<o>>
    BY <2>2, <2>3, <2>4, <2>6 DEF Loop!Orders, Loop!Order, Placed
  <2>9. Loop!OnTickMsg(1, placed) = placed \o <<n>>
    BY <2>5 DEF Loop!OnTickMsg, Loop!Notify, Notice
  <2>10. /\ cmd \in Seq(Command) /\ <<n>> \in Seq(Command) /\ <<o>> \in Seq(Command)
         /\ \A i \in 1 .. Len(cmd) : cmd[i].type # "notify"
    <3>1. cmd \in Seq(Command)
      BY <2>2 DEF InOrder
    <3>2. \A i \in 1 .. Len(cmd) : cmd[i].type # "notify"
      BY <2>2 DEF InOrder, NoneOnTick
    <3> QED
      BY <3>1, <3>2
  <2>11. InOrder(cmd \o (placed \o <<n>>), fed)
    <3>1. CASE placed = <<>>
      <4>1. placed \o <<n>> = <<n>>
        BY <2>10, <3>1, ConcatEmptySeq
      <4> QED
        BY <1>1, <2>2, <2>7, <2>10, <4>1, WrittenInOrder
    <3>2. CASE placed = <<o>>
      <4>1. PICK first : first = cmd \o <<o>>
        OBVIOUS
      <4>2. cmd \o (<<o>> \o <<n>>) = first \o <<n>>
        BY <2>10, <4>1, ConcatAssociative
      <4>3. InOrder(first, fed)
        BY <1>1, <2>2, <2>7, <2>10, <4>1, WrittenInOrder
      <4>4. \A i \in 1 .. Len(first) : first[i].type # "notify"
        <5>1. Len(<<o>>) = 1 /\ <<o>>[1] = o /\ Len(cmd) \in Nat
          BY <2>10
        <5>2. /\ Len(first) = Len(cmd) + 1
              /\ \A i \in 1 .. Len(cmd) + 1 :
                   first[i] = IF i <= Len(cmd) THEN cmd[i] ELSE <<o>>[i - Len(cmd)]
          BY <2>10, <4>1, <5>1, ConcatProperties
        <5>3. \A i \in 1 .. Len(first) : (i \in 1 .. Len(cmd) /\ first[i] = cmd[i]) \/ first[i] = o
          BY <5>1, <5>2
        <5> QED
          BY <2>7, <2>10, <5>3
      <4>5. InOrder(first \o <<n>>, fed)
        BY <1>1, <2>7, <4>3, <4>4, WrittenInOrder
      <4> QED
        BY <3>2, <4>2, <4>5
    <3> QED
      BY <2>8, <3>1, <3>2
  <2>12. /\ DOMAIN cmdq' = {1} /\ cmdq'[1] = cmd \o (placed \o <<n>>)
         /\ DOMAIN mdq' = {1} /\ mdq'[1] = <<>>
    BY <1>1, <2>1, <2>2, <2>3, <2>4, <2>9
  <2>13. OneToken(cmdq'[1], tickq', mdq'[1], fed')
    BY <1>2, <2>2, <2>11, <2>12 DEF OneToken
  <2>14. strat' \in [{1} -> StrategyLoop]
    <3>1. PICK k \in Nat : k = Len(placed)
      BY <2>8
    <3>2. PICK l : l = [reads |-> "rsp", open |-> strat[1].open + k, tick |-> fed,
                        reacted |-> strat[1].reacted]
      OBVIOUS
    <3>3. strat[1].open \in Int /\ strat[1].reacted \in Nat
      BY <1>1 DEF StrategyLoop
    <3>4. l \in StrategyLoop
      BY <1>1, <3>1, <3>2, <3>3 DEF StrategyLoop
    <3>5. strat' = [strat EXCEPT ![1] = l]
      BY <1>1, <2>2, <2>3, <2>4, <3>1, <3>2
    <3> QED
      BY <1>1, <3>4, <3>5
  <2> QED
    BY <1>1, <1>2, <2>12, <2>13, <2>14 DEF LoopInv
<1> QED
  BY <1>3, <1>4

(* The strategy reads a response, and may send an order for it.            *)
LEMMA LoopHears ==
  ASSUME LoopInv, Strategies = 1, Backtest = TRUE, Loop!ReadRsp(1)
  PROVE  LoopInv'
<1>1. /\ DOMAIN cmdq = {1} /\ DOMAIN mdq = {1} /\ main \in Turn /\ fed \in Nat /\ "tick" \notin late
      /\ strat \in [{1} -> StrategyLoop] /\ OneToken(cmdq[1], tickq, mdq[1], fed)
  BY DEF LoopInv
<1>2. UNCHANGED <<tickq, mdq, main, fed, late>>
  BY DEF Loop!ReadRsp
<1>3. CASE rspq[1] = <<>>
  <2>1. UNCHANGED cmdq /\ strat' = [strat EXCEPT ![1].reads = "tick"]
    BY <1>3 DEF Loop!ReadRsp
  <2>2. strat' \in [{1} -> StrategyLoop]
    BY <1>1, <2>1 DEF StrategyLoop
  <2> QED
    BY <1>1, <1>2, <2>1, <2>2 DEF LoopInv
<1>4. CASE rspq[1] # <<>>
  <2>1. PICK cmd : cmd = cmdq[1]
    OBVIOUS
  <2>2. PICK open \in Int : open = strat[1].open - (IF Head(rspq[1]).completed THEN 1 ELSE 0)
    <3>1. strat[1].open \in Int
      BY <1>1 DEF StrategyLoop
    <3> QED
      BY <3>1
  <2>3. PICK orders \in Loop!Answers(1, open) :
          /\ cmdq' = [cmdq EXCEPT ![1] = cmd \o orders]
          /\ strat' = [strat EXCEPT ![1] =
               [reads |-> "tick", open |-> open + Len(orders), tick |-> @.tick,
                reacted |-> @.reacted + Len(orders)]]
    BY <1>4, <2>1, <2>2 DEF Loop!ReadRsp
  <2>4. strat[1].tick \in Nat
    BY <1>1 DEF StrategyLoop
  <2>5. PICK o \in Command : o = Reaction(strat[1].tick)
    BY <2>4 DEF Reaction, Command
  <2>6. o.on = "rsp" /\ o.type = "order"
    BY <2>5 DEF Reaction
  <2>7. orders = <<>> \/ orders = <<o>>
    BY <2>3, <2>5 DEF Loop!Answers, Loop!Orders, Loop!Order, Reaction
  <2>8. InOrder(cmd, fed) /\ cmd \in Seq(Command)
    BY <1>1, <2>1 DEF OneToken, InOrder
  <2>9. InOrder(cmd \o orders, fed) /\ (NoneOnTick(cmd) => NoneOnTick(cmd \o orders))
    <3>1. CASE orders = <<>>
      BY <2>8, <3>1, ConcatEmptySeq
    <3>2. CASE orders = <<o>>
      BY <1>1, <2>6, <2>8, <3>2, WrittenInOrder
    <3> QED
      BY <2>7, <3>1, <3>2
  <2>10. DOMAIN cmdq' = {1} /\ cmdq'[1] = cmd \o orders
    BY <1>1, <2>3
  <2>11. OneToken(cmdq'[1], tickq', mdq'[1], fed')
    BY <1>1, <1>2, <2>1, <2>9, <2>10 DEF OneToken
  <2>12. strat' \in [{1} -> StrategyLoop]
    <3>1. PICK k \in Nat : k = Len(orders)
      BY <2>7
    <3>2. PICK l : l = [reads |-> "tick", open |-> open + k, tick |-> strat[1].tick,
                        reacted |-> strat[1].reacted + k]
      OBVIOUS
    <3>3. strat[1].tick \in Nat /\ strat[1].reacted \in Nat
      BY <1>1 DEF StrategyLoop
    <3>4. l \in StrategyLoop
      BY <2>2, <3>1, <3>2, <3>3 DEF StrategyLoop
    <3>5. strat' = [strat EXCEPT ![1] = l]
      BY <1>1, <2>3, <3>1, <3>2
    <3> QED
      BY <1>1, <3>4, <3>5
  <2> QED
    BY <1>1, <1>2, <2>10, <2>11, <2>12 DEF LoopInv
<1> QED
  BY <1>3, <1>4

(* Every step keeps the token.                                             *)
LEMMA LoopSteps ==
  ASSUME Strategies = 1, Backtest = TRUE
  PROVE  LoopInv /\ [Loop!Next]_(Loop!vars) => LoopInv'
<1> SUFFICES ASSUME LoopInv, [Loop!Next]_(Loop!vars) PROVE LoopInv'
  OBVIOUS
<1>1. CASE UNCHANGED Loop!vars
  BY <1>1 DEF LoopInv, Loop!vars
<1>2. CASE Loop!ExecuteCmd
  BY <1>2, LoopExecutes
<1>3. CASE Loop!NextReader
  <2>1. /\ main' = [at |-> "rsp", reader |-> 1, count |-> 0]
        /\ UNCHANGED <<cmdq, tickq, mdq, strat, fed, late>>
    BY <1>3 DEF Loop!NextReader, LoopInv, Turn
  <2>2. main' \in Turn
    BY <2>1 DEF Turn
  <2> QED
    BY <2>1, <2>2 DEF LoopInv
<1>4. CASE Loop!ProcessRsp \/ Loop!EndTurn
  <2>1. /\ main' = [main EXCEPT !.count = @ + 1] \/ main' = [main EXCEPT !.at = "cmd"]
        /\ UNCHANGED <<cmdq, tickq, mdq, strat, fed, late>>
    BY <1>4 DEF Loop!ProcessRsp, Loop!EndTurn
  <2>2. main \in Turn
    BY DEF LoopInv
  <2>3. main' \in Turn
    BY <2>1, <2>2 DEF Turn
  <2> QED
    BY <2>1, <2>3 DEF LoopInv
<1>5. CASE Loop!ProcessTick
  BY <1>5, LoopTicks
<1>6. CASE Loop!Quote \/ Loop!Market
  BY <1>6 DEF Loop!Quote, Loop!Market
<1>7. CASE \E s \in Loop!Readers : Loop!Strategy(s)
  BY <1>7, LoopReaders, LoopReads, LoopHears DEF Loop!Strategy
<1> QED
  BY <1>1, <1>2, <1>3, <1>4, <1>5, <1>6, <1>7 DEF Loop!Next, Loop!Run

(* In a backtest with one strategy the orders decided on a tick are in the *)
(* match engine before the next tick is fed, whatever orders the callbacks *)
(* for responses send (Strategy::RunBacktest, the queues and               *)
(* OMS::ProcessCmd between them).                                          *)
THEOREM NoLateOrderCorrect ==
  ASSUME Loop!MainLoopAssumption, Strategies = 1, Backtest = TRUE
  PROVE  Loop!Spec => []Loop!NoLateOrder
<1>1. Loop!Init => LoopInv
  <2>1. SUFFICES ASSUME Loop!Init PROVE LoopInv
    OBVIOUS
  <2>2. /\ cmdq = [s \in {1} |-> Loop!OnInit(s)] /\ mdq = [s \in {1} |-> <<>>]
        /\ strat = [s \in {1} |-> [reads |-> "rsp", open |-> 0, tick |-> 0, reacted |-> 0]]
        /\ tickq = <<>> /\ main = [at |-> "cmd", reader |-> 1, count |-> 0] /\ fed = 0 /\ late = {}
    BY <2>1, LoopReaders DEF Loop!Init
  <2>3. cmdq[1] = <<Notice>>
    BY <2>2 DEF Loop!OnInit, Loop!Notify, Notice
  <2>4. Notice \in Command /\ Notice.type = "notify" /\ Notice.on = "tick"
    BY DEF Notice, Command
  <2>5. <<Notice>> \in Seq(Command) /\ Len(<<Notice>>) = 1 /\ \A i \in 1 .. 1 : <<Notice>>[i] = Notice
    BY <2>4
  <2>6. InOrder(<<Notice>>, 0)
    BY <2>4, <2>5 DEF InOrder
  <2>7. OneToken(cmdq[1], tickq, mdq[1], fed)
    BY <2>2, <2>3, <2>4, <2>6 DEF OneToken
  <2>8. main \in Turn /\ strat \in [{1} -> StrategyLoop]
    BY <2>2 DEF Turn, StrategyLoop
  <2> QED
    BY <2>2, <2>7, <2>8 DEF LoopInv
<1>2. LoopInv => Loop!NoLateOrder
  BY DEF LoopInv, Loop!NoLateOrder
<1> QED
  BY <1>1, <1>2, LoopSteps, PTL DEF Loop!Spec
-----------------------------------------------------------------------------
(* Startup's queries.  A result on the ring is a number or a position of a *)
(* ticker, neither side of which held more yesterday than it holds.        *)

Detail == {d \in [holdings : Nat, yd : Nat, frozen : Nat] : d.yd <= d.holdings}

Position == [{"long", "short"} -> Detail]

TickerPosition == [ticker : Tickers, pos : Position]

PositionResult == [kind : {"position"}, data : TickerPosition]

OtherKinds == {"account", "accountEnd", "positionEnd", "trade", "tradeEnd", "contractEnd"}

QueryResult == PositionResult \union [kind : OtherKinds, data : Nat]

(* All results of q are of one kind, or all but the last, which ends them. *)
AllOf(q, kind) == \A i \in DOMAIN q : q[i].kind = kind

EndsIn(q, kind, end) ==
  Len(q) > 0 /\ q[Len(q)].kind = end /\ \A i \in 1 .. Len(q) - 1 : q[i].kind = kind

AccountAnswer(q) ==
  \/ Len(q) = 2 /\ q[1].kind = "account" /\ q[2].kind = "accountEnd"
  \/ Len(q) = 1 /\ q[1].kind = "accountEnd"

QueryTypes ==
  /\ at \in {"start", "initAccount", "initAccountEnd", "askPositions", "positions", "askTrades",
             "trades", "subscribe", "idle", "timer", "timerEnd", "false"}
  /\ asked \in [kind : {"nothing", "account", "positions", "trades"}, part : Nat]
  /\ asked.part > 0 => \/ asked.kind = "positions" /\ asked.part < Len(Rows)
                       \/ asked.kind = "trades" /\ asked.part < Trades
  /\ funds \in Nat /\ account \in Nat /\ account <= funds
  /\ results \in Seq(QueryResult) /\ loaded \in Seq(TickerPosition)
  /\ \A i \in DOMAIN results : results[i].kind = "account" => results[i].data <= funds

CacheOK(c) == DOMAIN c \subseteq Tickers /\ \A t \in DOMAIN c : c[t] \in Position

(* What the reading thread finds, by where it is: the query it asked is    *)
(* under way, or was lost, or its answer is on the ring.                   *)
Reads(place, query, q) ==
  /\ place \in {"start", "askPositions", "askTrades", "subscribe", "idle"} =>
       query.kind = "nothing" /\ q = <<>>
  /\ place \in {"initAccount", "timer"} =>
       \/ query.kind \in {"account", "nothing"} /\ q = <<>>
       \/ query.kind = "nothing" /\ AccountAnswer(q)
  /\ place \in {"initAccountEnd", "timerEnd"} =>
       query.kind = "nothing" /\ Len(q) = 1 /\ q[1].kind = "accountEnd"
  /\ place = "positions" =>
       \/ query.kind \in {"positions", "nothing"} /\ q = <<>>
       \/ query.kind = "nothing" /\ EndsIn(q, "position", "positionEnd")
  /\ place = "trades" =>
       \/ query.kind \in {"trades", "nothing"} /\ AllOf(q, "trade")
       \/ query.kind = "nothing" /\ EndsIn(q, "trade", "tradeEnd")
  /\ place = "false" => query.kind = "nothing"

QueryInv == QueryTypes /\ CacheOK(cache) /\ Reads(at, asked, results)

(* The oldest result is taken off the ring.                                *)
LEMMA ResultTaken ==
  ASSUME NEW q \in Seq(QueryResult), q # <<>>
  PROVE  /\ Head(q) = q[1] /\ Head(q) \in QueryResult /\ Tail(q) \in Seq(QueryResult)
         /\ Len(q) \in Nat \ {0} /\ Len(Tail(q)) = Len(q) - 1
         /\ DOMAIN q = 1 .. Len(q) /\ DOMAIN Tail(q) = 1 .. Len(q) - 1
         /\ \A i \in 1 .. Len(q) - 1 : Tail(q)[i] = q[i + 1]
<1>1. Len(q) \in Nat \ {0} /\ DOMAIN q = 1 .. Len(q)
  BY EmptySeq, LenProperties
<1>2. Tail(q) \in Seq(QueryResult) /\ Len(Tail(q)) = Len(q) - 1 /\ Head(q) \in QueryResult
  BY HeadTailProperties
<1>3. DOMAIN Tail(q) = 1 .. Len(q) - 1
  BY <1>2, LenProperties
<1> QED
  BY <1>1, <1>2, <1>3, HeadTailProperties

(* A result of some kind, whatever it is about.                            *)
LEMMA ResultKinds ==
  ASSUME NEW r \in QueryResult
  PROVE  /\ r.kind = "position" => r.data \in TickerPosition
         /\ r.kind # "position" => r.kind \in OtherKinds /\ r.data \in Nat
BY DEF QueryResult, PositionResult, OtherKinds

(* The ring after a callback's results have been put on it.                *)
LEMMA ResultsPut ==
  ASSUME NEW q \in Seq(QueryResult), NEW r \in Seq(QueryResult)
  PROVE  /\ q \o r \in Seq(QueryResult) /\ Len(q \o r) = Len(q) + Len(r)
         /\ Len(q) \in Nat /\ Len(r) \in Nat
         /\ DOMAIN q = 1 .. Len(q) /\ DOMAIN r = 1 .. Len(r)
         /\ DOMAIN (q \o r) = 1 .. Len(q) + Len(r)
         /\ \A i \in 1 .. Len(q) : (q \o r)[i] = q[i]
         /\ \A i \in 1 .. Len(r) : (q \o r)[Len(q) + i] = r[i]
<1>1. Len(q) \in Nat /\ Len(r) \in Nat /\ DOMAIN q = 1 .. Len(q) /\ DOMAIN r = 1 .. Len(r)
  BY LenProperties
<1>2. q \o r \in Seq(QueryResult) /\ Len(q \o r) = Len(q) + Len(r)
  BY ConcatProperties
<1>3. DOMAIN (q \o r) = 1 .. Len(q) + Len(r)
  BY <1>2, LenProperties
<1>4. PICK u : u = q \o r
  OBVIOUS
<1>5. \A i \in 1 .. Len(q) + Len(r) : u[i] = IF i <= Len(q) THEN q[i] ELSE r[i - Len(q)]
  BY <1>4, ConcatProperties
<1>6. \A i \in 1 .. Len(q) : u[i] = q[i]
  BY <1>1, <1>5
<1>7. ASSUME NEW i \in 1 .. Len(r) PROVE u[Len(q) + i] = r[i]
  <2>1. PICK n \in Nat : n = Len(q) + i
    BY <1>1
  <2>2. n \in 1 .. Len(q) + Len(r) /\ ~ (n <= Len(q)) /\ n - Len(q) = i
    BY <1>1, <2>1
  <2> QED
    BY <1>5, <2>1, <2>2
<1> QED
  BY <1>1, <1>2, <1>3, <1>4, <1>6, <1>7

(* One result, or two.                                                     *)
LEMMA ResultSeqs ==
  ASSUME NEW a \in QueryResult, NEW b \in QueryResult
  PROVE  /\ <<>> \in Seq(QueryResult) /\ Len(<<>>) = 0
         /\ <<a>> \in Seq(QueryResult) /\ Len(<<a>>) = 1 /\ <<a>>[1] = a
         /\ <<a, b>> \in Seq(QueryResult) /\ Len(<<a, b>>) = 2
         /\ <<a, b>>[1] = a /\ <<a, b>>[2] = b
OBVIOUS

(* A request is sent, or not.                                              *)
LEMMA QueryAsks ==
  ASSUME QueryInv, Query!QueryAssumption,
         Query!InitAccountAsks \/ Query!InitPositionsAsks \/ Query!InitTradeInfoAsks
           \/ Query!OnTimerAsks
  PROVE  QueryInv'
<1>1. PICK n \in {"account", "positions", "trades"} : 
        /\ asked' = [kind |-> n, part |-> 0] \/ UNCHANGED asked
        /\ \/ n = "account" /\ at \in {"start", "idle"} /\ at' \in {"initAccount", "timer", "false"}
           \/ n = "positions" /\ at = "askPositions" /\ at' \in {"positions", "false"}
           \/ n = "trades" /\ at = "askTrades" /\ at' \in {"trades", "false"}
        /\ at' = "false" => UNCHANGED asked
        /\ UNCHANGED <<results, account, loaded, book, cache, funds, drops>>
  BY DEF Query!InitAccountAsks, Query!InitPositionsAsks, Query!InitTradeInfoAsks,
     Query!OnTimerAsks, Query!Ask, Query!QueryAccount, Query!QueryPositions, Query!QueryTrades,
     Query!Query, Query!Stays
<1>2. QueryTypes /\ CacheOK(cache) /\ Reads(at, asked, results)
  BY DEF QueryInv
<1>3. asked.kind = "nothing" /\ results = <<>>
  BY <1>1, <1>2 DEF Reads
<1>4. QueryTypes'
  BY <1>1, <1>2 DEF QueryTypes
<1>5. asked'.kind \in {n, "nothing"} /\ (at' = "false" => asked'.kind = "nothing")
  BY <1>1, <1>3
<1>6. \A i \in DOMAIN <<>> : <<>>[i].kind = "trade"
  OBVIOUS
<1>7. Reads(at', asked', results')
  BY <1>1, <1>3, <1>5, <1>6 DEF Reads, AllOf
<1> QED
  BY <1>1, <1>2, <1>4, <1>7 DEF QueryInv

(* The reading thread takes the answer to InitAccount's query or OnTimer's.*)
LEMMA QueryAccountRead ==
  ASSUME QueryInv, Query!InitAccount \/ Query!OnTimer
  PROVE  QueryInv'
<1>1. QueryTypes /\ CacheOK(cache) /\ Reads(at, asked, results)
  BY DEF QueryInv
<1>2. /\ results # <<>> /\ results' = Tail(results)
      /\ UNCHANGED <<asked, loaded, book, cache, funds, drops>>
      /\ at \in {"initAccount", "initAccountEnd", "timer", "timerEnd"}
  BY DEF Query!InitAccount, Query!OnTimer, Query!GetWithBlocking, Query!Stays
<1>3. results \in Seq(QueryResult)
  BY <1>1 DEF QueryTypes
<1>4. PICK q \in Seq(QueryResult) : q = results
  BY <1>3
<1>5. /\ Head(q) = q[1] /\ Head(q) \in QueryResult /\ Tail(q) \in Seq(QueryResult)
      /\ Len(q) \in Nat \ {0} /\ Len(Tail(q)) = Len(q) - 1
      /\ DOMAIN q = 1 .. Len(q) /\ DOMAIN Tail(q) = 1 .. Len(q) - 1
      /\ \A i \in 1 .. Len(q) - 1 : Tail(q)[i] = q[i + 1]
  BY <1>2, <1>4, ResultTaken
<1>6. \A i \in DOMAIN q : q[i].kind = "account" => q[i].data \in Nat /\ q[i].data <= funds
  <2> SUFFICES ASSUME NEW i \in DOMAIN q, q[i].kind = "account" 
               PROVE  q[i].data \in Nat /\ q[i].data <= funds
    OBVIOUS
  <2>1. q[i] \in QueryResult
    BY <1>4, <1>5, ElementOfSeq
  <2> QED
    BY <1>1, <1>4, <2>1, ResultKinds DEF QueryTypes
<1>7. Tail(q) = <<>> \/ Len(Tail(q)) > 0
  BY <1>5, EmptySeq
<1>8. CASE at \in {"initAccount", "timer"}
  <2>1. asked.kind = "nothing" /\ AccountAnswer(q)
    BY <1>1, <1>2, <1>4, <1>8 DEF Reads
  <2>2. CASE q[1].kind = "account"
    <3>1. Len(q) = 2 /\ q[2].kind = "accountEnd"
      BY <2>1, <2>2 DEF AccountAnswer
    <3>2. Len(Tail(q)) = 1 /\ Tail(q)[1].kind = "accountEnd"
      BY <1>5, <3>1
    <3>3. /\ at' \in {"initAccountEnd", "timerEnd"}
          /\ account' = q[1].data
      BY <1>2, <1>4, <1>5, <1>8, <2>2 DEF Query!InitAccount, Query!OnTimer, Query!OnAccount, Query!Got
    <3>4. q[1].data \in Nat /\ q[1].data <= funds
      BY <1>5, <1>6, <2>2
    <3>5. \A i \in DOMAIN Tail(q) : Tail(q)[i].kind # "account"
      BY <1>5, <3>1, <3>2
    <3>6. QueryTypes'
      BY <1>1, <1>2, <1>4, <1>5, <3>3, <3>4, <3>5 DEF QueryTypes
    <3>7. Reads(at', asked', results')
      BY <1>2, <1>4, <2>1, <3>2, <3>3 DEF Reads
    <3> QED
      BY <1>1, <1>2, <3>6, <3>7 DEF QueryInv
  <2>3. CASE q[1].kind = "accountEnd"
    <3>1. Len(q) = 1
      BY <2>1, <2>3 DEF AccountAnswer
    <3>2. Tail(q) = <<>>
      BY <1>5, <1>7, <3>1
    <3>3. at' \in {"false", "idle"} /\ UNCHANGED account
      BY <1>2, <1>4, <1>5, <1>8, <2>3
      DEF Query!InitAccount, Query!OnTimer, Query!OnAccount, Query!Expect, Query!Got
    <3>4. \A i \in DOMAIN Tail(q) : Tail(q)[i].kind # "account"
      BY <1>5, <3>1
    <3>5. QueryTypes'
      BY <1>1, <1>2, <1>4, <1>5, <3>3, <3>4 DEF QueryTypes
    <3>6. Reads(at', asked', results')
      BY <1>2, <1>4, <2>1, <3>2, <3>3 DEF Reads
    <3> QED
      BY <1>1, <1>2, <3>5, <3>6 DEF QueryInv
  <2> QED
    BY <2>1, <2>2, <2>3 DEF AccountAnswer
<1>9. CASE at \in {"initAccountEnd", "timerEnd"}
  <2>1. asked.kind = "nothing" /\ Len(q) = 1 /\ q[1].kind = "accountEnd"
    BY <1>1, <1>4, <1>9 DEF Reads
  <2>2. Tail(q) = <<>>
    BY <1>5, <1>7, <2>1
  <2>3. at' \in {"askPositions", "idle"} /\ UNCHANGED account
    BY <1>2, <1>4, <1>5, <1>9, <2>1
    DEF Query!InitAccount, Query!OnTimer, Query!OnAccount, Query!Expect, Query!Got
  <2>4. \A i \in DOMAIN Tail(q) : Tail(q)[i].kind # "account"
    BY <1>5, <2>1
  <2>5. QueryTypes'
    BY <1>1, <1>2, <1>4, <1>5, <2>3, <2>4 DEF QueryTypes
  <2>6. Reads(at', asked', results')
    BY <1>2, <1>4, <2>1, <2>2, <2>3 DEF Reads
  <2> QED
    BY <1>1, <1>2, <2>5, <2>6 DEF QueryInv
<1> QED
  BY <1>2, <1>8, <1>9

(* The reading thread takes a position or a trade, or their end.           *)
LEMMA QueryListRead ==
  ASSUME QueryInv, Query!InitPositions \/ Query!InitTradeInfo
  PROVE  QueryInv'
<1>1. QueryTypes /\ CacheOK(cache) /\ Reads(at, asked, results)
  BY DEF QueryInv
<1>2. /\ results # <<>> /\ results' = Tail(results)
      /\ UNCHANGED <<asked, account, cache, funds, drops>>
  BY DEF Query!InitPositions, Query!InitTradeInfo, Query!GetWithBlocking, Query!Stays
<1>3. PICK body \in {"position", "trade"} : at = IF body = "position" THEN "positions" ELSE "trades"
  BY DEF Query!InitPositions, Query!InitTradeInfo
<1>4. PICK end \in {"positionEnd", "tradeEnd"} :
        end = IF body = "position" THEN "positionEnd" ELSE "tradeEnd"
  OBVIOUS
<1>5. PICK q \in Seq(QueryResult) : q = results
  BY <1>1 DEF QueryTypes
<1>6. /\ Head(q) = q[1] /\ Head(q) \in QueryResult /\ Tail(q) \in Seq(QueryResult)
      /\ Len(q) \in Nat \ {0} /\ Len(Tail(q)) = Len(q) - 1
      /\ DOMAIN q = 1 .. Len(q) /\ DOMAIN Tail(q) = 1 .. Len(q) - 1
      /\ \A i \in 1 .. Len(q) - 1 : Tail(q)[i] = q[i + 1]
  BY <1>2, <1>5, ResultTaken
<1>7. Tail(q) = <<>> \/ Len(Tail(q)) > 0
  BY <1>6, EmptySeq
<1>8. \/ body = "trade" /\ asked.kind \in {"trades", "nothing"} /\ AllOf(q, "trade")
      \/ asked.kind = "nothing" /\ EndsIn(q, body, end)
  BY <1>1, <1>2, <1>3, <1>4, <1>5 DEF Reads
<1>9. \A i \in DOMAIN Tail(q) : Tail(q)[i].kind = "account" => Tail(q)[i].data <= funds
  <2> SUFFICES ASSUME NEW i \in DOMAIN Tail(q), Tail(q)[i].kind = "account"
               PROVE  Tail(q)[i].data <= funds
    OBVIOUS
  <2>1. i + 1 \in DOMAIN q /\ Tail(q)[i] = q[i + 1]
    BY <1>6
  <2> QED
    BY <1>1, <1>5, <2>1 DEF QueryTypes
<1>10. CASE q[1].kind = body
  <2>1. at' = at
    BY <1>3, <1>5, <1>6, <1>10 DEF Query!InitPositions, Query!InitTradeInfo, Query!Expect, Query!Got
  <2>2. loaded' \in Seq(TickerPosition)
    <3>1. CASE body = "position"
      <4>1. loaded' = Append(loaded, q[1].data)
        BY <1>3, <1>5, <1>6, <1>10, <3>1 DEF Query!InitPositions, Query!InitTradeInfo, Query!Got
      <4>2. q[1].data \in TickerPosition
        BY <1>6, <1>10, <3>1, ResultKinds
      <4> QED
        BY <1>1, <4>1, <4>2, AppendProperties DEF QueryTypes
    <3>2. CASE body = "trade"
      BY <1>1, <1>3, <3>2 DEF Query!InitPositions, Query!InitTradeInfo, QueryTypes
    <3> QED
      BY <3>1, <3>2
  <2>3. QueryTypes'
    BY <1>1, <1>2, <1>5, <1>6, <1>9, <2>1, <2>2 DEF QueryTypes
  <2>4. AllOf(q, "trade") => AllOf(Tail(q), "trade")
    BY <1>6 DEF AllOf
  <2>5. EndsIn(q, body, end) => EndsIn(Tail(q), body, end)
    <3> SUFFICES ASSUME EndsIn(q, body, end) PROVE EndsIn(Tail(q), body, end)
      OBVIOUS
    <3>1. Len(q) # 1
      BY <1>4, <1>10 DEF EndsIn
    <3>2. PICK n : n = Len(q) - 1
      OBVIOUS
    <3>3. /\ n \in Nat /\ n > 0 /\ Len(Tail(q)) = n /\ n + 1 = Len(q)
          /\ Tail(q)[n] = q[n + 1]
      <4>1. n \in Nat /\ n > 0 /\ Len(Tail(q)) = n /\ n + 1 = Len(q) /\ n \in 1 .. Len(q) - 1
        BY <1>6, <3>1, <3>2
      <4> QED
        BY <1>6, <4>1
    <3>4. ASSUME NEW i \in 1 .. n - 1 PROVE Tail(q)[i].kind = body
      <4>1. i \in 1 .. Len(q) - 1 /\ i + 1 \in 1 .. Len(q) - 1
        BY <3>2, <3>3, <3>4
      <4> QED
        BY <1>6, <4>1 DEF EndsIn
    <3> QED
      BY <3>3, <3>4 DEF EndsIn
  <2>6. Reads(at', asked', results')
    BY <1>2, <1>3, <1>4, <1>5, <1>8, <2>1, <2>4, <2>5 DEF Reads
  <2> QED
    BY <1>1, <1>2, <2>3, <2>6 DEF QueryInv
<1>11. CASE q[1].kind # body
  <2>1. asked.kind = "nothing" /\ EndsIn(q, body, end)
    <3>1. 1 \in DOMAIN q
      BY <1>6
    <3> QED
      BY <1>8, <1>11, <3>1 DEF AllOf
  <2>2. Len(q) = 1 /\ q[1].kind = end
    <3>1. ~ (1 \in 1 .. Len(q) - 1)
      BY <1>11, <2>1 DEF EndsIn
    <3>2. Len(q) = 1
      BY <1>6, <3>1
    <3> QED
      BY <2>1, <3>2 DEF EndsIn
  <2>3. Tail(q) = <<>>
    BY <1>6, <1>7, <2>2
  <2>4. at' \in {"askTrades", "subscribe"} /\ UNCHANGED loaded
    BY <1>3, <1>4, <1>5, <1>6, <2>2 DEF Query!InitPositions, Query!InitTradeInfo, Query!Got
  <2>5. QueryTypes'
    BY <1>1, <1>2, <1>5, <1>6, <1>9, <2>4 DEF QueryTypes
  <2>6. Reads(at', asked', results')
    BY <1>2, <1>5, <2>1, <2>3, <2>4 DEF Reads
  <2> QED
    BY <1>1, <1>2, <2>5, <2>6 DEF QueryInv
<1> QED
  BY <1>10, <1>11

(* The instance's operators on sets are this module's.                     *)
LEMMA QuerySets ==
  ASSUME NEW S
  PROVE  /\ Query!IsFiniteSet(S) <=> IsFiniteSet(S)
         /\ Query!Cardinality(S) = Cardinality(S)
<1>1. Query!IsFiniteSet(S) <=> IsFiniteSet(S)
  BY DEF Query!IsFiniteSet, IsFiniteSet
<1>2. Query!Cardinality(S) = Cardinality(S)
  BY DEF Query!Cardinality, Cardinality
<1> QED
  BY <1>1, <1>2

Gathered(c) == {[ticker |-> t, pos |-> c[t]] : t \in DOMAIN c}

Pushed(q) == {q[i].data : i \in {j \in DOMAIN q : q[j].kind = "position"}}

(* All positions gathered are pushed, and nothing else.                    *)
LEMMA GatheredPushed ==
  ASSUME Query!QueryAssumption, NEW c, CacheOK(c)
  PROVE  /\ Query!CachePushed(c) \in Seq(QueryResult)
         /\ AllOf(Query!CachePushed(c), "position")
         /\ Pushed(Query!CachePushed(c)) = Gathered(c)
<1> DEFINE r(t) == [kind |-> "position", data |-> [ticker |-> t, pos |-> c[t]]]
           R == {r(t) : t \in DOMAIN c}
           f == [t \in DOMAIN c |-> r(t)]
<1>1. IsFiniteSet(DOMAIN c)
  BY FS_Subset, QuerySets DEF Query!QueryAssumption, CacheOK
<1>2. f \in Surjection(DOMAIN c, R)
  BY DEF Surjection
<1>3. IsFiniteSet(R)
  BY <1>1, <1>2, FS_Surjection DEF ExistsSurjection
<1>4. Gathered(c) = {x.data : x \in R} /\ \A x \in R : x.kind = "position"
  <2>1. ASSUME NEW x \in Gathered(c) PROVE x \in {y.data : y \in R}
    <3>1. PICK t \in DOMAIN c : x = [ticker |-> t, pos |-> c[t]]
      BY DEF Gathered
    <3>2. r(t) \in R /\ r(t).data = x
      BY <3>1
    <3> QED
      BY <3>2
  <2>2. ASSUME NEW x \in R PROVE x.data \in Gathered(c) /\ x.kind = "position"
    BY DEF Gathered
  <2> QED
    BY <2>1, <2>2
<1>5. \A x \in R : x \in QueryResult
  BY DEF CacheOK, QueryResult, PositionResult, TickerPosition
<1>6. Query!CachePushed(c) = Query!SetToSeq(R)
  BY DEF Query!CachePushed, Query!OnQueryPosition, Query!Result
<1> HIDE DEF R
<1>7. PICK n \in Nat : n = Cardinality(R) /\ ExistsBijection(1 .. n, R)
  BY <1>3, FS_CardinalityType
<1>8. \E g \in [1 .. n -> R] : Query!IsInjective(g)
  BY <1>7 DEF ExistsBijection, Bijection, Injection, IsInjective, Query!IsInjective
<1>9. PICK q : q = Query!SetToSeq(R)
  OBVIOUS
<1>10. q \in Injection(1 .. n, R)
  <2>1. n = Query!Cardinality(R)
    BY <1>7, QuerySets
  <2> QED
    BY <1>8, <1>9, <2>1 DEF Query!SetToSeq, Injection, IsInjective, Query!IsInjective
<1>11. q \in Surjection(1 .. n, R)
  <2>1. IsFiniteSet(1 .. n) /\ Cardinality(1 .. n) = n
    <3>1. 1 \in Int /\ n \in Int /\ (1 <= n \/ n = 0)
      OBVIOUS
    <3>2. CASE 1 <= n
      BY <3>1, <3>2, FS_Interval
    <3>3. CASE n = 0
      <4>1. 1 .. n = {}
        BY <3>3
      <4> QED
        BY <3>3, <4>1, FS_EmptySet
    <3> QED
      BY <3>1, <3>2, <3>3
  <2> QED
    BY <1>3, <1>7, <1>10, <2>1, FS_Injection
<1>12. DOMAIN q = 1 .. n /\ \A x \in R : \E i \in 1 .. n : q[i] = x
  BY <1>11 DEF Surjection
<1>13. \A i \in 1 .. n : q[i] \in R
  BY <1>10 DEF Injection
<1>14. Pushed(q) = {x.data : x \in R}
  BY <1>4, <1>12, <1>13 DEF Pushed
<1>15. q \in Seq(QueryResult) /\ AllOf(q, "position")
  <2>1. q \in [1 .. n -> R]
    BY <1>10 DEF Injection
  <2>2. q \in Seq(QueryResult)
    BY <1>5, <2>1, IsASeq
  <2> QED
    BY <1>4, <1>12, <1>13, <2>2 DEF AllOf
<1> QED
  BY <1>4, <1>6, <1>9, <1>14, <1>15

(* What a callback puts on a ring that holds nothing but results of one    *)
(* kind is added to them.                                                  *)
LEMMA AnswerGrows ==
  ASSUME NEW kind, NEW end, NEW q \in Seq(QueryResult), NEW r \in Seq(QueryResult),
         AllOf(q, kind)
  PROVE  /\ AllOf(r, kind) => AllOf(q \o r, kind)
         /\ EndsIn(r, kind, end) => EndsIn(q \o r, kind, end)
<1> DEFINE u == q \o r
<1>1. /\ Len(u) = Len(q) + Len(r) /\ Len(q) \in Nat /\ Len(r) \in Nat
      /\ DOMAIN q = 1 .. Len(q) /\ DOMAIN r = 1 .. Len(r) /\ DOMAIN u = 1 .. Len(q) + Len(r)
      /\ \A i \in 1 .. Len(q) : u[i] = q[i]
      /\ \A i \in 1 .. Len(r) : u[Len(q) + i] = r[i]
  BY ResultsPut
<1> HIDE DEF u
<1>2. ASSUME NEW m \in 0 .. Len(r), \A i \in 1 .. m : r[i].kind = kind, NEW i \in 1 .. Len(q) + m
      PROVE  u[i].kind = kind
  <2>1. CASE i <= Len(q)
    <3>1. i \in 1 .. Len(q) /\ i \in DOMAIN q
      BY <1>1, <2>1
    <3> QED
      BY <1>1, <3>1 DEF AllOf
  <2>2. CASE i > Len(q)
    <3>1. PICK j : j = i - Len(q)
      OBVIOUS
    <3>2. j \in 1 .. m /\ j \in 1 .. Len(r) /\ i = Len(q) + j
      BY <1>1, <2>2, <3>1
    <3> QED
      BY <1>1, <1>2, <3>2
  <2> QED
    BY <1>1, <2>1, <2>2
<1>3. ASSUME AllOf(r, kind) PROVE AllOf(u, kind)
  <2>1. \A i \in 1 .. Len(r) : r[i].kind = kind
    BY <1>1, <1>3 DEF AllOf
  <2>2. \A n \in Nat : n \in 0 .. n
    OBVIOUS
  <2>3. Len(r) \in 0 .. Len(r)
    BY <1>1, <2>2
  <2> QED
    BY <1>1, <1>2, <2>1, <2>3 DEF AllOf
<1>4. ASSUME EndsIn(r, kind, end) PROVE EndsIn(u, kind, end)
  <2>1. PICK m : m = Len(r) - 1
    OBVIOUS
  <2>2. /\ m \in 0 .. Len(r) /\ Len(u) - 1 = Len(q) + m /\ Len(u) > 0
        /\ Len(r) \in 1 .. Len(r)
    BY <1>1, <1>4, <2>1 DEF EndsIn
  <2>3. \A i \in 1 .. m : r[i].kind = kind
    BY <1>4, <2>1 DEF EndsIn
  <2>4. \A i \in 1 .. Len(u) - 1 : u[i].kind = kind
    BY <1>2, <2>2, <2>3
  <2>5. u[Len(u)] = r[Len(r)]
    BY <1>1, <2>2
  <2> QED
    BY <1>4, <2>2, <2>4, <2>5 DEF EndsIn
<1> QED
  BY <1>3, <1>4 DEF u

(* Results about no newer account than the broker's stay so.               *)
LEMMA AccountsPut ==
  ASSUME NEW q \in Seq(QueryResult), NEW r \in Seq(QueryResult), NEW n \in Nat,
         \A i \in DOMAIN q : q[i].kind = "account" => q[i].data <= n,
         \A i \in DOMAIN r : r[i].kind = "account" => r[i].data <= n
  PROVE  /\ q \o r \in Seq(QueryResult)
         /\ \A i \in DOMAIN (q \o r) : (q \o r)[i].kind = "account" => (q \o r)[i].data <= n
<1> DEFINE u == q \o r
<1>1. /\ u \in Seq(QueryResult)
      /\ Len(u) = Len(q) + Len(r) /\ Len(q) \in Nat /\ Len(r) \in Nat
      /\ DOMAIN q = 1 .. Len(q) /\ DOMAIN r = 1 .. Len(r) /\ DOMAIN u = 1 .. Len(q) + Len(r)
      /\ \A i \in 1 .. Len(q) : u[i] = q[i]
      /\ \A i \in 1 .. Len(r) : u[Len(q) + i] = r[i]
  BY ResultsPut
<1> HIDE DEF u
<1>2. ASSUME NEW i \in DOMAIN u, u[i].kind = "account" PROVE u[i].data <= n
  <2>1. CASE i <= Len(q)
    <3>1. i \in DOMAIN q /\ u[i] = q[i]
      BY <1>1, <2>1
    <3> QED
      BY <1>2, <3>1
  <2>2. CASE i > Len(q)
    <3>1. PICK j : j = i - Len(q)
      OBVIOUS
    <3>2. j \in DOMAIN r /\ i = Len(q) + j
      BY <1>1, <2>2, <3>1
    <3>3. u[i] = r[j]
      BY <1>1, <3>2
    <3> QED
      BY <1>2, <3>2, <3>3
  <2> QED
    BY <1>1, <2>1, <2>2
<1> QED
  BY <1>1, <1>2 DEF u

(* Whose answer is under way.                                              *)
LEMMA QueryAsker ==
  ASSUME QueryInv
  PROVE  /\ asked.kind = "account" => at \in {"initAccount", "timer"} /\ results = <<>>
         /\ asked.kind = "positions" => at = "positions" /\ results = <<>>
         /\ asked.kind = "trades" => at = "trades" /\ AllOf(results, "trade")
BY DEF QueryInv, QueryTypes, Reads

(* A row adds its side to its ticker's position.                           *)
LEMMA RowCached ==
  ASSUME Query!QueryAssumption, CacheOK(cache), NEW i \in DOMAIN Rows
  PROVE  CacheOK(Query!Cached(Rows[i]))
<1>1. PICK row : row = Rows[i]
  OBVIOUS
<1>2. /\ row.side \in {"long", "short"} /\ {row.holdings, row.today, row.frozen} \subseteq Nat
      /\ Api \in {"ctp", "xtp"}
      /\ Api = "ctp" => row.today <= row.holdings
  BY <1>1 DEF Query!QueryAssumption, Query!Sides
<1>3. Query!NoPosition \in Position
  BY DEF Query!NoPosition, Query!NoDetail, Query!Sides, Position, Detail
<1>4. ASSUME NEW before \in Position, Api = "ctp" PROVE Query!CtpPosition(before, row) \in Position
  <2>1. PICK d : d = [holdings |-> row.holdings, yd |-> row.holdings - row.today,
                      frozen |-> row.frozen]
    OBVIOUS
  <2>2. row.holdings - row.today \in Nat /\ row.holdings - row.today <= row.holdings
    BY <1>2, <1>4
  <2>3. d \in Detail
    BY <1>2, <2>1, <2>2 DEF Detail
  <2> QED
    BY <1>2, <2>1, <2>3 DEF Query!CtpPosition, Position
<1>5. ASSUME NEW before \in Position PROVE Query!XtpPosition(before, row) \in Position
  <2>1. PICK d : d = [holdings |-> IF row.today > row.holdings THEN row.today ELSE row.holdings,
                      yd |-> row.holdings, frozen |-> before["long"].frozen]
    OBVIOUS
  <2>2. before["long"] \in Detail
    BY DEF Position
  <2>3. d \in Detail
    BY <1>2, <2>1, <2>2 DEF Detail
  <2> QED
    BY <2>1, <2>3 DEF Query!XtpPosition, Position
<1>6. ASSUME row.ticker \in Tickers PROVE CacheOK(Query!Cached(row))
  <2>1. PICK before : before = IF row.ticker \in DOMAIN cache THEN cache[row.ticker]
                               ELSE Query!NoPosition
    OBVIOUS
  <2>2. before \in Position
    BY <1>3, <2>1 DEF CacheOK
  <2>3. PICK p \in Position : p = IF Api = "ctp" THEN Query!CtpPosition(before, row)
                                  ELSE Query!XtpPosition(before, row)
    BY <1>2, <1>4, <1>5, <2>2
  <2>4. Query!Cached(row) = Query!CacheWith(row.ticker, p)
    BY <1>6, <2>1, <2>3 DEF Query!Cached
  <2>5. CacheOK(Query!CacheWith(row.ticker, p))
    BY <1>6 DEF CacheOK, Query!CacheWith
  <2> QED
    BY <2>4, <2>5
<1> QED
  BY <1>1, <1>6 DEF Query!Cached

(* The answer about the account.                                           *)
LEMMA AccountAnswered ==
  ASSUME QueryInv, NEW error \in BOOLEAN, Query!AccountParts(error),
         UNCHANGED <<at, account, loaded, book>>
  PROVE  QueryInv'
<1>1. QueryTypes /\ CacheOK(cache)
  BY DEF QueryInv
<1>2. /\ at \in {"initAccount", "timer"} /\ results = <<>> /\ asked' = [kind |-> "nothing", part |-> 0]
      /\ UNCHANGED <<cache, funds, drops>>
  BY QueryAsker DEF Query!AccountParts, Query!Part, Query!Answered, Query!NoQuery
<1>3. PICK a : a = [kind |-> "account", data |-> funds]
  OBVIOUS
<1>4. PICK b : b = [kind |-> "accountEnd", data |-> 0]
  OBVIOUS
<1>5. funds \in Nat /\ 0 \in Nat
  BY <1>1 DEF QueryTypes
<1>6. a \in QueryResult /\ b \in QueryResult
  BY <1>3, <1>4, <1>5 DEF QueryResult, OtherKinds
<1>7. results' = <<>> \o ((IF error THEN <<>> ELSE <<a>>) \o <<b>>)
  BY <1>2, <1>3, <1>4
  DEF Query!AccountParts, Query!Put, Query!OnQueryAccount, Query!OnQueryAccountEnd, Query!Result
<1>8. /\ <<a>> \in Seq(QueryResult) /\ Len(<<a>>) = 1 /\ <<a>>[1] = a
      /\ <<b>> \in Seq(QueryResult) /\ Len(<<b>>) = 1 /\ <<b>>[1] = b
  BY <1>6, ResultSeqs
<1>9. PICK s : s = <<a>> \o <<b>>
  OBVIOUS
<1>10. /\ s \in Seq(QueryResult) /\ Len(s) = 2 /\ DOMAIN s = 1 .. 2
       /\ s[1] = a /\ s[2] = b
  <2>1. /\ s \in Seq(QueryResult) /\ Len(s) = 1 + 1 /\ DOMAIN s = 1 .. 1 + 1
        /\ \A i \in 1 .. 1 : s[i] = <<a>>[i]
        /\ \A i \in 1 .. 1 : s[1 + i] = <<b>>[i]
    BY <1>8, <1>9, ResultsPut
  <2>2. s[1] = <<a>>[1] /\ s[1 + 1] = <<b>>[1]
    BY <2>1
  <2> QED
    BY <1>8, <2>1, <2>2
<1>11. results' = <<b>> \/ results' = s
  <2>1. <<>> \o <<b>> = <<b>> /\ <<>> \o s = s
    BY <1>8, <1>10, ConcatEmptySeq
  <2> QED
    BY <1>7, <1>9, <2>1
<1>12. /\ results' \in Seq(QueryResult) /\ AccountAnswer(results')
       /\ \A i \in DOMAIN results' : results'[i].kind = "account" => results'[i].data <= funds
  <2>1. CASE results' = <<b>>
    BY <1>4, <1>8, <2>1 DEF AccountAnswer
  <2>2. CASE results' = s
    <3>1. AccountAnswer(s)
      BY <1>3, <1>4, <1>10 DEF AccountAnswer
    <3>2. \A i \in DOMAIN s : s[i].data <= funds
      BY <1>3, <1>4, <1>5, <1>10
    <3> QED
      BY <1>10, <2>2, <3>1, <3>2
  <2> QED
    BY <1>11, <2>1, <2>2
<1>13. QueryTypes'
  BY <1>1, <1>2, <1>12 DEF QueryTypes
<1>14. Reads(at', asked', results')
  BY <1>2, <1>12 DEF Reads
<1> QED
  BY <1>1, <1>2, <1>13, <1>14 DEF QueryInv

(* A part of the answer about the positions.                               *)
LEMMA PositionsAnswered ==
  ASSUME Query!QueryAssumption, QueryInv, NEW error \in BOOLEAN, Query!PositionParts(error),
         UNCHANGED <<at, account, loaded, book>>
  PROVE  QueryInv'
<1>1. QueryTypes /\ CacheOK(cache)
  BY DEF QueryInv
<1>2. /\ at = "positions" /\ results = <<>> /\ asked.kind = "positions"
      /\ UNCHANGED <<funds, drops>>
  BY QueryAsker DEF Query!PositionParts, Query!Part
<1>3. PICK e : e = [kind |-> "positionEnd", data |-> 0]
  OBVIOUS
<1>4. /\ e \in QueryResult /\ <<e>> \in Seq(QueryResult) /\ Len(<<e>>) = 1 /\ <<e>>[1] = e
  <2>1. e \in QueryResult
    BY <1>3 DEF QueryResult, OtherKinds
  <2> QED
    BY <2>1, ResultSeqs
<1>5. PICK updated : updated = IF Rows = <<>> THEN cache ELSE Query!Cached(Rows[asked.part + 1])
  OBVIOUS
<1>6. asked.part \in Nat /\ Len(Rows) \in Nat /\ DOMAIN Rows = 1 .. Len(Rows)
  BY <1>1, LenProperties DEF QueryTypes, Query!QueryAssumption
<1>7. CacheOK(updated)
  <2>1. CASE Rows = <<>>
    BY <1>1, <1>5, <2>1
  <2>2. CASE Rows # <<>>
    <3>1. Len(Rows) > 0
      BY <1>6, <2>2, EmptySeq DEF Query!QueryAssumption
    <3>2. asked.part > 0 => asked.part < Len(Rows)
      BY <1>1, <1>2 DEF QueryTypes
    <3>3. asked.part + 1 \in DOMAIN Rows
      BY <1>6, <3>1, <3>2
    <3> QED
      BY <1>1, <1>5, <2>2, <3>3, RowCached
  <2> QED
    BY <2>1, <2>2
<1>8. PICK r \in Seq(QueryResult) : r = Query!CachePushed(updated) /\ AllOf(r, "position")
  BY <1>7, GatheredPushed
<1>9. CASE /\ asked' = [kind |-> "nothing", part |-> 0] /\ cache' = <<>>
           /\ results' = <<e>> \/ results' = r \o <<e>>
  <2>1. EndsIn(<<e>>, "position", "positionEnd")
    BY <1>3, <1>4 DEF EndsIn
  <2>2. /\ results' \in Seq(QueryResult) /\ EndsIn(results', "position", "positionEnd")
    <3>1. r \o <<e>> \in Seq(QueryResult)
      BY <1>4, ResultsPut
    <3>2. EndsIn(r \o <<e>>, "position", "positionEnd")
      <4>1. PICK body, end : body = "position" /\ end = "positionEnd"
        OBVIOUS
      <4>2. AllOf(r, body) /\ EndsIn(<<e>>, body, end)
        BY <1>8, <2>1, <4>1
      <4>3. EndsIn(r \o <<e>>, body, end)
        BY <1>4, <4>2, AnswerGrows
      <4> QED
        BY <4>1, <4>3
    <3> QED
      BY <1>4, <1>9, <2>1, <3>1, <3>2
  <2>3. \A i \in DOMAIN results' : results'[i].kind = "account" => results'[i].data <= funds
    <3>1. \A i \in DOMAIN r : r[i].kind # "account"
      BY <1>8 DEF AllOf
    <3>2. \A i \in DOMAIN <<e>> : <<e>>[i].kind # "account"
      BY <1>3, <1>4
    <3>3. funds \in Nat
      BY <1>1 DEF QueryTypes
    <3> QED
      BY <1>4, <1>8, <1>9, <3>1, <3>2, <3>3, AccountsPut
  <2>4. CacheOK(cache')
    BY <1>9 DEF CacheOK
  <2>5. QueryTypes'
    BY <1>1, <1>2, <1>9, <2>2, <2>3 DEF QueryTypes
  <2>6. Reads(at', asked', results')
    BY <1>2, <1>9, <2>2 DEF Reads
  <2> QED
    BY <2>4, <2>5, <2>6 DEF QueryInv
<1>10. CASE /\ ~ (asked.part + 1 >= Len(Rows)) /\ cache' = updated /\ UNCHANGED results
            /\ asked' = [asked EXCEPT !.part = @ + 1]
  <2>1. /\ asked' \in [kind : {"nothing", "account", "positions", "trades"}, part : Nat]
        /\ asked'.kind = "positions" /\ asked'.part < Len(Rows)
    BY <1>1, <1>2, <1>6, <1>10 DEF QueryTypes
  <2>2. QueryTypes'
    BY <1>1, <1>2, <1>10, <2>1 DEF QueryTypes
  <2>3. Reads(at', asked', results')
    BY <1>2, <1>10, <2>1 DEF Reads
  <2> QED
    BY <1>7, <1>10, <2>2, <2>3 DEF QueryInv
<1>11. results \o <<e>> = <<e>> /\ results \o (r \o <<e>>) = r \o <<e>>
  <2>1. r \o <<e>> \in Seq(QueryResult)
    BY <1>4, ResultsPut
  <2> QED
    BY <1>2, <1>4, <2>1, ConcatEmptySeq
<1> QED
  BY <1>3, <1>5, <1>8, <1>9, <1>10, <1>11
  DEF Query!PositionParts, Query!Put, Query!OnQueryPositionEnd, Query!Result, Query!IsLast,
      Query!NextPart, Query!Answered, Query!NoQuery

(* A part of the answer about the trades.                                  *)
LEMMA TradesAnswered ==
  ASSUME Query!QueryAssumption, QueryInv, NEW error \in BOOLEAN, NEW end,
         Query!TradeParts(error, Query!Result(end, 0)),
         end = "tradeEnd" \/ (end = "contractEnd" /\ ~ error),
         UNCHANGED <<at, account, loaded, book>>
  PROVE  QueryInv'
<1>1. QueryTypes /\ CacheOK(cache)
  BY DEF QueryInv
<1>2. /\ at = "trades" /\ AllOf(results, "trade") /\ asked.kind = "trades"
      /\ UNCHANGED <<cache, funds, drops>>
  BY QueryAsker DEF Query!TradeParts, Query!Part
<1>3. PICK t : t = [kind |-> "trade", data |-> asked.part]
  OBVIOUS
<1>4. PICK e : e = [kind |-> "tradeEnd", data |-> 0]
  OBVIOUS
<1>5. /\ asked.part \in Nat /\ Trades \in Nat /\ results \in Seq(QueryResult) /\ funds \in Nat
      /\ \A i \in DOMAIN results : results[i].kind = "account" => results[i].data <= funds
  BY <1>1 DEF QueryTypes, Query!QueryAssumption
<1>6. t \in QueryResult /\ e \in QueryResult
  BY <1>3, <1>4, <1>5 DEF QueryResult, OtherKinds
<1>7. /\ <<>> \in Seq(QueryResult) /\ Len(<<>>) = 0
      /\ <<t>> \in Seq(QueryResult) /\ Len(<<t>>) = 1 /\ <<t>>[1] = t
      /\ <<e>> \in Seq(QueryResult) /\ Len(<<e>>) = 1 /\ <<e>>[1] = e
  BY <1>6, ResultSeqs
<1>8. PICK body, last : body = "trade" /\ last = "tradeEnd"
  OBVIOUS
<1>9. AllOf(<<>>, body) /\ AllOf(<<t>>, body) /\ EndsIn(<<e>>, body, last)
  <2>1. t.kind = body /\ e.kind = last
    BY <1>3, <1>4, <1>8
  <2> QED
    BY <1>7, <2>1 DEF AllOf, EndsIn
<1>10. PICK first \in {<<>>, <<t>>} : first = IF Trades = 0 THEN <<>> ELSE <<t>>
  OBVIOUS
<1>11. PICK r \in {<<e>>, first \o <<>>, first \o <<e>>} :
         /\ results' = results \o r
         /\ \/ r # first \o <<>> /\ asked' = [kind |-> "nothing", part |-> 0]
            \/ /\ r = first \o <<>> /\ asked.part + 1 < Trades
               /\ asked' = [asked EXCEPT !.part = @ + 1]
  <2>1. first \o <<e>> # first \o <<>>
    <3>1. first \in Seq(QueryResult)
      BY <1>7, <1>10
    <3>2. Len(first) \in Nat /\ Len(first \o <<e>>) = Len(first) + 1 /\ Len(first \o <<>>) = Len(first)
      BY <1>7, <3>1, ResultsPut
    <3> QED
      BY <3>2
  <2>2. CASE error
    <3>1. results' = results \o <<e>> /\ asked' = [kind |-> "nothing", part |-> 0]
      BY <1>4, <2>2 DEF Query!TradeParts, Query!Put, Query!Result, Query!Answered, Query!NoQuery
    <3>2. <<e>> # first \o <<>>
      <4>1. CASE first = <<>>
        BY <1>7, <4>1, ConcatEmptySeq
      <4>2. CASE first = <<t>>
        <5>1. <<t>> \o <<>> = <<t>>
          BY <1>7, ConcatEmptySeq
        <5>2. t # e
          BY <1>3, <1>4
        <5> QED
          BY <1>7, <4>2, <5>1, <5>2
      <4> QED
        BY <1>10, <4>1, <4>2
    <3> QED
      BY <3>1, <3>2
  <2>3. CASE ~ error
    <3>1. /\ results' = results \o (first \o (IF asked.part + 1 >= Trades THEN <<e>> ELSE <<>>))
          /\ IF asked.part + 1 >= Trades THEN asked' = [kind |-> "nothing", part |-> 0]
             ELSE asked' = [asked EXCEPT !.part = @ + 1]
      BY <1>3, <1>4, <1>10, <2>3
      DEF Query!TradeParts, Query!Put, Query!Result, Query!OnQueryTrade, Query!OnQueryTradeEnd,
          Query!IsLast, Query!NextPart, Query!Answered, Query!NoQuery
    <3>2. CASE asked.part + 1 >= Trades
      BY <2>1, <3>1, <3>2
    <3>3. CASE asked.part + 1 < Trades
      <4>1. ~ (asked.part + 1 >= Trades)
        BY <1>5, <3>3
      <4> QED
        BY <3>1, <3>3, <4>1
    <3>4. asked.part + 1 >= Trades \/ asked.part + 1 < Trades
      BY <1>5
    <3> QED
      BY <3>2, <3>3, <3>4
  <2> QED
    BY <2>2, <2>3
<1>12. /\ first \in Seq(QueryResult) /\ AllOf(first, body)
       /\ first \o <<>> \in Seq(QueryResult) /\ AllOf(first \o <<>>, body)
       /\ first \o <<e>> \in Seq(QueryResult) /\ EndsIn(first \o <<e>>, body, last)
  <2>1. first \in Seq(QueryResult) /\ AllOf(first, body)
    BY <1>7, <1>9, <1>10
  <2> QED
    BY <1>7, <1>9, <2>1, AnswerGrows, ResultsPut
<1>13. /\ r \in Seq(QueryResult)
       /\ r = first \o <<>> => AllOf(results \o r, body)
       /\ r # first \o <<>> => EndsIn(results \o r, body, last)
  <2>1. AllOf(results, body)
    BY <1>2, <1>8
  <2>2. r \in Seq(QueryResult)
    BY <1>7, <1>11, <1>12
  <2>3. (r = first \o <<>> => AllOf(r, body)) /\ (r # first \o <<>> => EndsIn(r, body, last))
    BY <1>9, <1>11, <1>12
  <2> QED
    BY <1>5, <2>1, <2>2, <2>3, AnswerGrows
<1>14. \A i \in DOMAIN r : r[i].kind # "account"
  <2>1. CASE AllOf(r, body)
    BY <1>8, <2>1 DEF AllOf
  <2>2. CASE EndsIn(r, body, last)
    <3>1. PICK n \in Nat : n = Len(r) /\ DOMAIN r = 1 .. n
      BY <1>13, LenProperties
    <3>2. \A i \in 1 .. n : i = n \/ i \in 1 .. n - 1
      OBVIOUS
    <3> QED
      BY <1>8, <2>2, <3>1, <3>2 DEF EndsIn
  <2> QED
    BY <1>9, <1>11, <1>12, <2>1, <2>2
<1>15. /\ results' \in Seq(QueryResult)
       /\ \A i \in DOMAIN results' : results'[i].kind = "account" => results'[i].data <= funds
  BY <1>5, <1>11, <1>13, <1>14, AccountsPut
<1>16. /\ asked' \in [kind : {"nothing", "account", "positions", "trades"}, part : Nat]
       /\ asked'.part > 0 => asked'.kind = "trades" /\ asked'.part < Trades
       /\ r = first \o <<>> => asked'.kind = "trades"
       /\ r # first \o <<>> => asked'.kind = "nothing"
  BY <1>1, <1>2, <1>5, <1>11 DEF QueryTypes
<1>17. QueryTypes'
  BY <1>1, <1>2, <1>15, <1>16 DEF QueryTypes
<1>18. Reads(at', asked', results')
  <2>1. \/ asked'.kind = "trades" /\ AllOf(results', "trade")
        \/ asked'.kind = "nothing" /\ EndsIn(results', "trade", "tradeEnd")
    BY <1>8, <1>11, <1>13, <1>16
  <2> QED
    BY <1>2, <2>1 DEF Reads
<1> QED
  BY <1>1, <1>2, <1>17, <1>18 DEF QueryInv

(* A callback of the library.                                              *)
LEMMA QueryAnswered ==
  ASSUME Query!QueryAssumption, ~ (Api = "ctp" /\ MayFail), QueryInv, Query!Library
  PROVE  QueryInv'
<1>1. PICK error \in BOOLEAN : Query!Callback(error) /\ UNCHANGED <<at, account, loaded, book>>
  BY DEF Query!Library, Query!oms
<1>2. \/ Query!AccountParts(error)
      \/ Query!PositionParts(error)
      \/ \E end \in {"tradeEnd", "contractEnd"} :
           /\ Query!TradeParts(error, Query!Result(end, 0))
           /\ end = "tradeEnd" \/ Api = "ctp"
  BY <1>1 DEF Query!Callback, Query!OnRspQryTradingAccount, Query!OnQueryAsset,
     Query!OnRspQryInvestorPosition, Query!OnXtpQueryPosition, Query!OnRspQryTrade,
     Query!OnXtpQueryTrade, Query!OnQueryContractEnd, Query!OnQueryTradeEnd
<1>3. ASSUME NEW end \in {"tradeEnd", "contractEnd"}, end = "tradeEnd" \/ Api = "ctp",
             Query!TradeParts(error, Query!Result(end, 0))
      PROVE  QueryInv'
  <2>1. error => MayFail
    BY <1>3 DEF Query!TradeParts, Query!Part
  <2> QED
    BY <1>1, <1>3, <2>1, TradesAnswered
<1> QED
  BY <1>1, <1>2, <1>3, AccountAnswered, PositionsAnswered

(* The steps of the broker and the one that asks for nothing.              *)
LEMMA QueryQuiet ==
  ASSUME QueryInv, Query!SubscribeMarketData \/ Query!Broker \/ UNCHANGED Query!vars
  PROVE  QueryInv'
<1>1. QueryTypes /\ CacheOK(cache) /\ Reads(at, asked, results)
  BY DEF QueryInv
<1>2. CASE Query!SubscribeMarketData
  <2>1. /\ at = "subscribe" /\ at' \in {"idle", "false"}
        /\ UNCHANGED <<asked, cache, results, funds, drops, account, loaded, book>>
    BY <1>2 DEF Query!SubscribeMarketData, Query!answers
  <2>2. QueryTypes'
    BY <1>1, <2>1 DEF QueryTypes
  <2>3. Reads(at', asked', results')
    BY <1>1, <2>1 DEF Reads
  <2> QED
    BY <1>1, <2>1, <2>2, <2>3 DEF QueryInv
<1>3. CASE Query!FundsChange /\ UNCHANGED Query!oms
  <2>1. /\ funds' = funds + 1
        /\ UNCHANGED <<asked, cache, results, drops, at, account, loaded, book>>
    BY <1>3 DEF Query!FundsChange, Query!oms
  <2>2. \A i \in DOMAIN results : results[i].kind = "account" => results[i].data <= funds + 1
    <3> SUFFICES ASSUME NEW i \in DOMAIN results, results[i].kind = "account"
                 PROVE  results[i].data <= funds + 1
      OBVIOUS
    <3>1. results[i] \in QueryResult /\ results[i].data <= funds /\ funds \in Nat
      BY <1>1, ElementOfSeq, LenProperties DEF QueryTypes
    <3>2. results[i].data \in Nat
      BY <3>1, ResultKinds
    <3> QED
      BY <3>1, <3>2
  <2>3. QueryTypes'
    BY <1>1, <2>1, <2>2 DEF QueryTypes
  <2> QED
    BY <1>1, <2>1, <2>3 DEF QueryInv
<1>4. CASE Query!AnswerLost /\ UNCHANGED Query!oms
  <2>1. /\ asked' = [kind |-> "nothing", part |-> 0]
        /\ UNCHANGED <<cache, results, funds, at, account, loaded, book>>
    BY <1>4 DEF Query!AnswerLost, Query!oms, Query!Answered, Query!NoQuery
  <2>2. QueryTypes'
    BY <1>1, <2>1 DEF QueryTypes
  <2>3. Reads(at', asked', results')
    BY <1>1, <2>1 DEF Reads
  <2> QED
    BY <1>1, <2>1, <2>2, <2>3 DEF QueryInv
<1>5. CASE UNCHANGED Query!vars
  BY <1>1, <1>5 DEF QueryInv, QueryTypes, Query!vars, Query!answers, Query!oms
<1> QED
  BY <1>2, <1>3, <1>4, <1>5 DEF Query!Broker

(* The invariant of starting up.                                           *)
LEMMA QueryInvariant ==
  ASSUME Query!QueryAssumption, ~ (Api = "ctp" /\ MayFail)
  PROVE  Query!Spec => []QueryInv
<1>1. Query!Init => QueryInv
  <2> SUFFICES ASSUME Query!Init PROVE QueryInv
    OBVIOUS
  <2>1. /\ at = "start" /\ account = 0 /\ loaded = <<>> /\ funds = 0 /\ results = <<>>
        /\ cache = <<>> /\ asked = [kind |-> "nothing", part |-> 0]
    BY DEF Query!Init, Query!AnswersInit, Query!NoQuery
  <2>2. QueryTypes
    BY <2>1 DEF QueryTypes
  <2>3. CacheOK(cache)
    BY <2>1 DEF CacheOK
  <2>4. Reads(at, asked, results)
    BY <2>1 DEF Reads
  <2> QED
    BY <2>2, <2>3, <2>4 DEF QueryInv
<1>2. QueryInv /\ [Query!Next]_(Query!vars) => QueryInv'
  BY QueryAsks, QueryAccountRead, QueryListRead, QueryAnswered, QueryQuiet
  DEF Query!Next, Query!Thread
<1> QED
  BY <1>1, <1>2, PTL DEF Query!Spec

(* Whatever the library answers and in how many parts, the OMS's queries do *)
(* not mix: no query reads the results of another and no reader's          *)
(* assertion fails (OMS::InitAccount to InitTradeInfo, OnTimer).  With the *)
(* CTP gateway as long as its requests and answers do not fail: an error   *)
(* in its answer about the trades ends it as contracts.                    *)
THEOREM QueriesDoNotMixCorrect ==
  ASSUME Query!QueryAssumption, ~ (Api = "ctp" /\ MayFail)
  PROVE  Query!Spec => []Query!QueriesDoNotMix
<1>1. QueryInv => Query!QueriesDoNotMix
  <2> SUFFICES ASSUME QueryInv PROVE Query!QueriesDoNotMix
    OBVIOUS
  <2>1. QueryTypes /\ Reads(at, asked, results)
    BY DEF QueryInv
  <2>2. asked.kind = "nothing" => asked = [kind |-> "nothing", part |-> 0]
    BY <2>1 DEF QueryTypes
  <2> QED
    BY <2>1, <2>2 DEF QueryTypes, Reads, Query!QueriesDoNotMix, Query!NoQuery
<1> QED
  BY <1>1, QueryInvariant, PTL

(* A ticker has one row for each of its sides.                             *)
OneRowEach ==
  \A i, j \in DOMAIN Rows :
    Rows[i].ticker = Rows[j].ticker /\ Rows[i].side = Rows[j].side => i = j

(* What was gathered from the first k rows holds what they say.            *)
Covers(c, k) ==
  \A i \in 1 .. k : Rows[i].ticker \in Tickers =>
    /\ Rows[i].ticker \in DOMAIN c
    /\ c[Rows[i].ticker][Rows[i].side].holdings >= Rows[i].holdings

(* The positions read and those still on the ring are all that the rows    *)
(* say.                                                                    *)
Whole(read, q) ==
  \E c : CacheOK(c) /\ Covers(c, Len(Rows)) /\ Query!ToSet(read) \union Pushed(q) = Gathered(c)

Early == {"start", "initAccount", "initAccountEnd", "askPositions"}
Late == {"askTrades", "trades", "subscribe", "idle", "timer", "timerEnd"}

PositionsOK ==
  /\ asked.kind = "positions" => Covers(cache, asked.part)
  /\ at \in Early => loaded = <<>>
  /\ at = "positions" /\ results = <<>> => loaded = <<>>
  /\ at = "positions" /\ results # <<>> =>
       Whole(loaded, results) \/ (MayFail /\ loaded = <<>> /\ Pushed(results) = {})
  /\ at \in Late => Query!BookIsRows \/ (MayFail /\ book = <<>>)

(* Steps that have nothing to do with positions.                           *)
LEMMA PositionsKept ==
  ASSUME PositionsOK, UNCHANGED <<loaded, book>>, at # "positions", at' # "positions",
         asked'.kind # "positions",
         at' \in Early => at \in Early, at' \in Late => at \in Late
  PROVE  PositionsOK'
BY DEF PositionsOK, Query!BookIsRows, Query!Sides, Query!Holdings, Early, Late

(* The end of an answer adds no position.                                  *)
LEMMA EndPushed ==
  ASSUME NEW q \in Seq(QueryResult), NEW e \in QueryResult, e.kind # "position"
  PROVE  Pushed(q \o <<e>>) = Pushed(q) /\ Pushed(<<e>>) = {}
<1>1. <<e>> \in Seq(QueryResult) /\ Len(<<e>>) = 1 /\ <<e>>[1] = e
  BY ResultSeqs
<1>2. Pushed(<<e>>) = {}
  BY <1>1 DEF Pushed
<1>3. PICK u : u = q \o <<e>>
  OBVIOUS
<1>4. PICK n \in Nat : n = Len(q)
  BY LenProperties
<1>5. /\ DOMAIN q = 1 .. n /\ DOMAIN u = 1 .. n + 1
      /\ \A i \in 1 .. n : u[i] = q[i]
      /\ u[n + 1] = e
  BY <1>1, <1>3, <1>4, ResultsPut
<1>6. {j \in DOMAIN u : u[j].kind = "position"} = {j \in DOMAIN q : q[j].kind = "position"}
  BY <1>5
<1>7. \A i \in {j \in DOMAIN q : q[j].kind = "position"} : u[i] = q[i]
  BY <1>5
<1>8. Pushed(u) = Pushed(q)
  BY <1>6, <1>7 DEF Pushed
<1> QED
  BY <1>2, <1>3, <1>8

(* Reading a position takes it off the ring and adds it to what was read.  *)
LEMMA PositionRead ==
  ASSUME NEW q \in Seq(QueryResult), q # <<>>, q[1].kind = "position",
         NEW read \in Seq(TickerPosition)
  PROVE  Query!ToSet(Append(read, q[1].data)) \union Pushed(Tail(q))
           = Query!ToSet(read) \union Pushed(q)
<1>1. PICK n \in Nat : Len(q) = n + 1 /\ n = Len(q) - 1
  <2>1. Len(q) \in Nat \ {0}
    BY ResultTaken
  <2> QED
    BY <2>1
<1>2. PICK p : p = q[1].data /\ p \in TickerPosition
  <2>1. q[1] \in QueryResult
    BY ResultTaken
  <2> QED
    BY <2>1, ResultKinds
<1>3. PICK t : t = Tail(q)
  OBVIOUS
<1>4. /\ DOMAIN q = 1 .. n + 1 /\ DOMAIN t = 1 .. n
      /\ \A i \in 1 .. n : t[i] = q[i + 1]
  BY <1>1, <1>3, ResultTaken
<1>5. Pushed(q) = {p} \union Pushed(t)
  <2>1. \A i \in DOMAIN q : i = 1 \/ \E j \in 1 .. n : i = j + 1
    <3> SUFFICES ASSUME NEW i \in 1 .. n + 1 PROVE i = 1 \/ \E j \in 1 .. n : i = j + 1
      BY <1>4
    <3>1. i # 1 => i - 1 \in 1 .. n /\ i = (i - 1) + 1
      OBVIOUS
    <3> QED
      BY <3>1
  <2>2. 1 \in DOMAIN q /\ \A j \in 1 .. n : j + 1 \in DOMAIN q
    BY <1>4
  <2>3. ASSUME NEW x \in Pushed(q) PROVE x \in {p} \union Pushed(t)
    <3>1. PICK i \in DOMAIN q : q[i].kind = "position" /\ x = q[i].data
      BY <2>3 DEF Pushed
    <3>2. CASE i = 1
      BY <1>2, <3>1, <3>2
    <3>3. ASSUME NEW j \in 1 .. n, i = j + 1 PROVE x \in Pushed(t)
      <4>1. t[j] = q[i] /\ j \in DOMAIN t
        BY <1>4, <3>3
      <4> QED
        BY <3>1, <4>1 DEF Pushed
    <3> QED
      BY <2>1, <3>2, <3>3
  <2>4. ASSUME NEW x \in {p} \union Pushed(t) PROVE x \in Pushed(q)
    BY <1>2, <1>4, <2>2 DEF Pushed
  <2> QED
    BY <2>3, <2>4
<1>6. Query!ToSet(Append(read, p)) = Query!ToSet(read) \union {p}
  <2>1. PICK m \in Nat : m = Len(read)
    BY LenProperties
  <2>2. PICK a : a = Append(read, p)
    OBVIOUS
  <2>3. /\ DOMAIN read = 1 .. m /\ DOMAIN a = 1 .. m + 1
        /\ \A i \in 1 .. m : a[i] = read[i]
        /\ a[m + 1] = p
    BY <1>2, <2>1, <2>2, AppendProperties, LenProperties
  <2>4. \A i \in 1 .. m + 1 : i \in 1 .. m \/ i = m + 1
    OBVIOUS
  <2>5. \A i \in 1 .. m : i \in 1 .. m + 1
    OBVIOUS
  <2>6. m + 1 \in 1 .. m + 1
    OBVIOUS
  <2> QED
    BY <2>2, <2>3, <2>4, <2>5, <2>6 DEF Query!ToSet
<1> QED
  BY <1>2, <1>3, <1>5, <1>6

(* A row added to what was gathered.                                       *)
LEMMA RowCovered ==
  ASSUME Query!QueryAssumption, OneRowEach, CacheOK(cache), NEW k \in Nat, k + 1 \in DOMAIN Rows,
         Covers(cache, k)
  PROVE  Covers(Query!Cached(Rows[k + 1]), k + 1)
<1>1. PICK row : row = Rows[k + 1]
  OBVIOUS
<1>2. /\ row.side \in {"long", "short"} /\ {row.holdings, row.today, row.frozen} \subseteq Nat
      /\ Api \in {"ctp", "xtp"} /\ (Api = "xtp" => row.side = "long")
  BY <1>1 DEF Query!QueryAssumption, Query!Sides
<1>3. DOMAIN Rows = 1 .. Len(Rows) /\ Len(Rows) \in Nat
  BY LenProperties DEF Query!QueryAssumption
<1>4. \A i \in 1 .. k + 1 : i \in 1 .. k \/ i = k + 1
  OBVIOUS
<1>5. \A i \in 1 .. k : i \in DOMAIN Rows /\ i # k + 1
  BY <1>3
<1>6. CASE row.ticker \notin Tickers
  <2>1. Query!Cached(row) = cache
    BY <1>6 DEF Query!Cached
  <2> QED
    BY <1>1, <1>4, <1>6, <2>1 DEF Covers
<1>7. CASE row.ticker \in Tickers
  <2>1. PICK before : before = IF row.ticker \in DOMAIN cache THEN cache[row.ticker]
                               ELSE Query!NoPosition
    OBVIOUS
  <2>2. before \in Position
    BY <2>1 DEF CacheOK, Query!NoPosition, Query!NoDetail, Query!Sides, Position, Detail
  <2>3. PICK p : p = IF Api = "ctp" THEN Query!CtpPosition(before, row)
                     ELSE Query!XtpPosition(before, row)
    OBVIOUS
  <2>4. /\ p[row.side].holdings >= row.holdings
        /\ \A s \in {"long", "short"} \ {row.side} : p[s] = before[s]
    <3>1. before = [s \in {"long", "short"} |-> before[s]]
      BY <2>2 DEF Position
    <3>2. CASE Api = "ctp"
      <4>1. PICK d : d = [holdings |-> row.holdings, yd |-> row.holdings - row.today,
                          frozen |-> row.frozen]
        OBVIOUS
      <4>2. p = [before EXCEPT ![row.side] = d]
        BY <2>3, <3>2, <4>1 DEF Query!CtpPosition
      <4>3. d.holdings = row.holdings
        BY <4>1
      <4> QED
        BY <1>2, <3>1, <4>2, <4>3
    <3>3. CASE Api = "xtp"
      <4>1. PICK d : d = [holdings |-> IF row.today > row.holdings THEN row.today
                                       ELSE row.holdings,
                          yd |-> row.holdings, frozen |-> before["long"].frozen]
        OBVIOUS
      <4>2. p = [before EXCEPT !["long"] = d] /\ row.side = "long"
        BY <1>2, <2>3, <3>3, <4>1 DEF Query!XtpPosition
      <4>3. d.holdings >= row.holdings
        BY <1>2, <4>1
      <4> QED
        BY <1>2, <3>1, <4>2, <4>3
    <3> QED
      BY <1>2, <3>2, <3>3
  <2>5. PICK c : c = Query!Cached(row)
    OBVIOUS
  <2>6. /\ DOMAIN c = DOMAIN cache \union {row.ticker}
        /\ c[row.ticker] = p
        /\ \A t \in DOMAIN cache : t # row.ticker => c[t] = cache[t]
    BY <1>7, <2>1, <2>3, <2>5 DEF Query!Cached, Query!CacheWith
  <2>7. ASSUME NEW i \in 1 .. k, Rows[i].ticker \in Tickers
        PROVE  /\ Rows[i].ticker \in DOMAIN c
               /\ c[Rows[i].ticker][Rows[i].side].holdings >= Rows[i].holdings
    <3>1. PICK old : old = Rows[i]
      OBVIOUS
    <3>2. /\ old.ticker \in DOMAIN cache /\ cache[old.ticker][old.side].holdings >= old.holdings
          /\ old.side \in {"long", "short"}
      BY <1>5, <2>7, <3>1 DEF Covers, Query!QueryAssumption, Query!Sides
    <3>3. CASE old.ticker # row.ticker
      BY <2>6, <3>1, <3>2, <3>3
    <3>4. CASE old.ticker = row.ticker
      <4>1. old.side # row.side
        BY <1>1, <1>5, <3>1, <3>4 DEF OneRowEach
      <4>2. p[old.side] = before[old.side] /\ before = cache[old.ticker]
        BY <2>1, <2>4, <3>2, <3>4, <4>1
      <4> QED
        BY <2>6, <3>1, <3>2, <3>4, <4>2
    <3> QED
      BY <3>3, <3>4
  <2>8. row.ticker \in DOMAIN c /\ c[row.ticker][row.side].holdings >= row.holdings
    BY <2>4, <2>6
  <2> QED
    BY <1>1, <1>4, <2>5, <2>7, <2>8 DEF Covers
<1> QED
  BY <1>1, <1>6, <1>7

(* The common pool made of all positions gathered from all rows.           *)
LEMMA BookWhole ==
  ASSUME Query!QueryAssumption, NEW c, CacheOK(c), Covers(c, Len(Rows)), NEW read,
         Query!ToSet(read) = Gathered(c), NEW b, b = Query!OnPositions(read),
         NEW t \in Tickers, NEW s \in {"long", "short"}
  PROVE  (IF t \in DOMAIN b THEN b[t][s].holdings ELSE 0) >= Query!Holdings(t, s)
<1>1. \A p \in Gathered(c) : p.ticker \in DOMAIN c /\ p.pos = c[p.ticker]
  BY DEF Gathered
<1>2. \A i \in DOMAIN read : read[i].ticker \in DOMAIN c /\ read[i].pos = c[read[i].ticker]
  BY <1>1 DEF Query!ToSet
<1>3. \A u \in DOMAIN c : \E i \in DOMAIN read : read[i].ticker = u
  <2> SUFFICES ASSUME NEW u \in DOMAIN c PROVE \E i \in DOMAIN read : read[i].ticker = u
    OBVIOUS
  <2>1. [ticker |-> u, pos |-> c[u]] \in Query!ToSet(read)
    BY DEF Gathered
  <2> QED
    BY <2>1 DEF Query!ToSet
<1>4. \A u \in DOMAIN b : u \in DOMAIN c /\ b[u] = c[u]
  <2> SUFFICES ASSUME NEW u \in DOMAIN b PROVE u \in DOMAIN c /\ b[u] = c[u]
    OBVIOUS
  <2>1. u \in DOMAIN c
    BY <1>1 DEF Query!OnPositions
  <2>2. b[u] = read[CHOOSE i \in DOMAIN read : read[i].ticker = u].pos
    BY DEF Query!OnPositions
  <2>3. PICK i \in DOMAIN read : read[i].ticker = u /\ b[u] = read[i].pos
    BY <1>3, <2>1, <2>2
  <2> QED
    BY <1>2, <2>1, <2>3
<1>5. ASSUME t \in DOMAIN c, t \notin DOMAIN b PROVE c[t][s].holdings = 0
  <2>1. PICK p : p = [ticker |-> t, pos |-> c[t]]
    OBVIOUS
  <2>2. p \in Query!ToSet(read) /\ p.ticker = t /\ p.pos = c[t]
    BY <1>5, <2>1 DEF Gathered
  <2>3. p.pos[s].holdings = 0
    BY <1>5, <2>2 DEF Query!OnPositions, Query!Sides
  <2> QED
    BY <2>2, <2>3
<1>6. \A u \in DOMAIN c : c[u][s].holdings \in Nat
  BY DEF CacheOK, Position, Detail
<1>7. PICK rows : rows = {i \in DOMAIN Rows : Rows[i].ticker = t /\ Rows[i].side = s}
  OBVIOUS
<1>8. CASE rows = {}
  <2>1. Query!Holdings(t, s) = 0
    BY <1>7, <1>8 DEF Query!Holdings
  <2> QED
    BY <1>4, <1>6, <2>1
<1>9. CASE rows # {}
  <2>1. PICK i \in rows : Query!Holdings(t, s) = Rows[i].holdings
    BY <1>7, <1>9 DEF Query!Holdings
  <2>2. i \in 1 .. Len(Rows) /\ Rows[i].ticker = t /\ Rows[i].side = s
    BY <1>7, <2>1, LenProperties DEF Query!QueryAssumption
  <2>3. t \in DOMAIN c /\ c[t][s].holdings >= Query!Holdings(t, s)
    BY <2>1, <2>2 DEF Covers
  <2> QED
    BY <1>4, <1>5, <2>3
<1> QED
  BY <1>8, <1>9

(* The reading thread's steps.                                             *)
LEMMA PositionsStep ==
  ASSUME Query!QueryAssumption, QueryInv, QueryInv', PositionsOK, Query!InitPositions
  PROVE  PositionsOK'
<1>1. QueryTypes /\ Reads(at, asked, results)
  BY DEF QueryInv
<1>2. /\ at = "positions" /\ results # <<>> /\ results' = Tail(results)
      /\ UNCHANGED <<asked, account, cache, funds, drops>>
  BY DEF Query!InitPositions, Query!GetWithBlocking, Query!Stays
<1>3. asked.kind = "nothing" /\ EndsIn(results, "position", "positionEnd")
  BY <1>1, <1>2 DEF Reads
<1>4. PICK q \in Seq(QueryResult) : q = results
  BY <1>1 DEF QueryTypes
<1>5. /\ Head(q) = q[1] /\ Len(q) \in Nat \ {0} /\ Len(Tail(q)) = Len(q) - 1
      /\ DOMAIN q = 1 .. Len(q)
  BY <1>2, <1>4, ResultTaken
<1>6. Whole(loaded, q) \/ (MayFail /\ loaded = <<>> /\ Pushed(q) = {})
  BY <1>2, <1>4 DEF PositionsOK
<1>7. CASE q[1].kind = "positionEnd"
  <2>1. /\ book' = Query!OnPositions(loaded) /\ at' = "askTrades" /\ UNCHANGED loaded
    BY <1>4, <1>5, <1>7 DEF Query!InitPositions, Query!Got
  <2>2. Pushed(q) = {}
    <3>1. ~ (1 \in 1 .. Len(q) - 1)
      BY <1>3, <1>4, <1>7 DEF EndsIn
    <3>2. Len(q) = 1
      BY <1>5, <3>1
    <3> QED
      BY <1>5, <1>7, <3>2 DEF Pushed
  <2>3. CASE Whole(loaded, q)
    <3>1. PICK c : CacheOK(c) /\ Covers(c, Len(Rows)) /\ Query!ToSet(loaded) = Gathered(c)
      BY <2>2, <2>3 DEF Whole
    <3>2. PICK b : b = Query!OnPositions(loaded)
      OBVIOUS
    <3>3. \A t \in Tickers, s \in {"long", "short"} :
            (IF t \in DOMAIN b THEN b[t][s].holdings ELSE 0) >= Query!Holdings(t, s)
      BY <3>1, <3>2, BookWhole
    <3>4. Query!BookIsRows'
      <4>1. book' = b
        BY <2>1, <3>2
      <4>2. \A t \in Tickers, s \in {"long", "short"} :
              (IF t \in DOMAIN book' THEN book'[t][s].holdings ELSE 0) >= Query!Holdings(t, s)
        BY <3>3, <4>1
      <4> QED
        BY <4>2 DEF Query!BookIsRows, Query!Sides
    <3> QED
      BY <1>2, <1>3, <2>1, <3>4 DEF PositionsOK, Early, Late
  <2>4. CASE MayFail /\ loaded = <<>>
    <3>1. Query!ToSet(loaded) = {}
      BY <2>4 DEF Query!ToSet
    <3>2. DOMAIN Query!OnPositions(loaded) = {}
      BY <3>1 DEF Query!OnPositions
    <3>3. \A S, f : f \in [S -> Nat] /\ S = {} => f = <<>>
      OBVIOUS
    <3>4. Query!OnPositions(loaded) \in [{} -> Nat]
      <4>1. PICK b : b = Query!OnPositions(loaded)
        OBVIOUS
      <4>2. b = [t \in DOMAIN b |-> b[t]]
        BY <4>1 DEF Query!OnPositions
      <4> QED
        BY <3>2, <4>1, <4>2
    <3>5. book' = <<>>
      BY <2>1, <3>3, <3>4
    <3> QED
      BY <1>2, <1>3, <2>1, <2>4, <3>5 DEF PositionsOK, Early, Late
  <2> QED
    BY <1>6, <2>3, <2>4
<1>8. CASE q[1].kind = "position"
  <2>1. /\ loaded' = Append(loaded, q[1].data) /\ at' = "positions" /\ UNCHANGED book
    BY <1>2, <1>4, <1>5, <1>8 DEF Query!InitPositions, Query!Got, Query!Expect
  <2>2. Pushed(q) # {}
    <3>1. 1 \in DOMAIN q
      BY <1>5
    <3>2. q[1].data \in Pushed(q)
      BY <1>8, <3>1 DEF Pushed
    <3> QED
      BY <3>2
  <2>3. loaded \in Seq(TickerPosition)
    BY <1>1 DEF QueryTypes
  <2>4. Query!ToSet(loaded') \union Pushed(Tail(q)) = Query!ToSet(loaded) \union Pushed(q)
    BY <1>2, <1>4, <1>8, <2>1, <2>3, PositionRead
  <2>5. Whole(loaded', Tail(q))
    BY <1>6, <2>2, <2>4 DEF Whole
  <2>6. results' # <<>>
    <3>1. Len(q) # 1
      BY <1>3, <1>4, <1>8 DEF EndsIn
    <3>2. Len(Tail(q)) # 0
      BY <1>5, <3>1
    <3> QED
      BY <1>2, <1>4, <3>2
  <2> QED
    BY <1>2, <1>3, <1>4, <2>1, <2>5, <2>6 DEF PositionsOK, Early, Late
<1>9. q[1].kind \in {"position", "positionEnd"}
  <2>1. Len(q) = 1 \/ 1 \in 1 .. Len(q) - 1
    BY <1>5
  <2> QED
    BY <1>3, <1>4, <2>1 DEF EndsIn
<1> QED
  BY <1>7, <1>8, <1>9

(* A part of the answer about the positions.                               *)
LEMMA PositionsPart ==
  ASSUME Query!QueryAssumption, OneRowEach, QueryInv, PositionsOK, NEW error \in BOOLEAN,
         Query!PositionParts(error), UNCHANGED <<at, account, loaded, book>>
  PROVE  PositionsOK'
<1>1. QueryTypes /\ CacheOK(cache)
  BY DEF QueryInv
<1>2. /\ at = "positions" /\ results = <<>> /\ asked.kind = "positions" /\ (error => MayFail)
      /\ loaded = <<>> /\ Covers(cache, asked.part)
  BY QueryAsker DEF Query!PositionParts, Query!Part, PositionsOK
<1>3. PICK e : e = [kind |-> "positionEnd", data |-> 0]
  OBVIOUS
<1>4. e \in QueryResult /\ e.kind # "position"
  BY <1>3 DEF QueryResult, OtherKinds
<1>5. PICK updated : updated = IF Rows = <<>> THEN cache ELSE Query!Cached(Rows[asked.part + 1])
  OBVIOUS
<1>6. /\ asked.part \in Nat /\ Len(Rows) \in Nat /\ DOMAIN Rows = 1 .. Len(Rows)
      /\ (asked.part > 0 => asked.part < Len(Rows)) /\ (Rows # <<>> => Len(Rows) > 0)
  BY <1>1, <1>2, LenProperties, EmptySeq DEF QueryTypes, Query!QueryAssumption
<1>7. /\ CacheOK(updated)
      /\ Rows # <<>> => Covers(updated, asked.part + 1)
  <2>1. CASE Rows # <<>>
    <3>1. asked.part + 1 \in DOMAIN Rows
      BY <1>6, <2>1
    <3> QED
      BY <1>1, <1>2, <1>5, <1>6, <2>1, <3>1, RowCached, RowCovered
  <2> QED
    BY <1>1, <1>5, <2>1
<1>8. PICK r \in Seq(QueryResult) : r = Query!CachePushed(updated) /\ Pushed(r) = Gathered(updated)
  BY <1>7, GatheredPushed
<1>9. CASE asked' = [kind |-> "nothing", part |-> 0] /\ results' = <<e>> /\ MayFail
  <2>1. Pushed(results') = {}
    BY <1>4, <1>9, EndPushed
  <2> QED
    BY <1>2, <1>9, <2>1 DEF PositionsOK, Early, Late
<1>10. CASE asked' = [kind |-> "nothing", part |-> 0] /\ results' = r \o <<e>>
            /\ asked.part + 1 >= Len(Rows)
  <2>1. Pushed(results') = Gathered(updated)
    BY <1>4, <1>8, <1>10, EndPushed
  <2>2. Covers(updated, Len(Rows))
    <3>1. CASE Rows = <<>>
      BY <3>1 DEF Covers
    <3>2. CASE Rows # <<>>
      <4>1. asked.part + 1 = Len(Rows)
        BY <1>6, <1>10, <3>2
      <4> QED
        BY <1>7, <3>2, <4>1
    <3> QED
      BY <3>1, <3>2
  <2>3. Query!ToSet(loaded') = {}
    BY <1>2 DEF Query!ToSet
  <2>4. Whole(loaded', results')
    BY <1>7, <2>1, <2>2, <2>3 DEF Whole
  <2>5. results' # <<>>
    <3>1. Len(results') = Len(r) + 1 /\ Len(r) \in Nat
      BY <1>4, <1>8, <1>10, ResultSeqs, ResultsPut
    <3> QED
      BY <3>1
  <2> QED
    BY <1>2, <1>10, <2>4, <2>5 DEF PositionsOK, Early, Late
<1>11. CASE /\ ~ (asked.part + 1 >= Len(Rows)) /\ cache' = updated /\ UNCHANGED results
            /\ asked' = [asked EXCEPT !.part = @ + 1]
  <2>1. Rows # <<>>
    BY <1>6, <1>11
  <2>2. asked'.part = asked.part + 1
    BY <1>1, <1>11 DEF QueryTypes
  <2>3. Covers(cache', asked'.part)
    BY <1>7, <1>11, <2>1, <2>2
  <2> QED
    BY <1>2, <1>11, <2>3 DEF PositionsOK, Early, Late
<1>12. results \o <<e>> = <<e>> /\ results \o (r \o <<e>>) = r \o <<e>>
  <2>1. <<e>> \in Seq(QueryResult) /\ r \o <<e>> \in Seq(QueryResult)
    BY <1>4, ResultSeqs, ResultsPut
  <2> QED
    BY <1>2, <2>1, ConcatEmptySeq
<1> QED
  BY <1>2, <1>3, <1>5, <1>8, <1>9, <1>10, <1>11, <1>12
  DEF Query!PositionParts, Query!Put, Query!OnQueryPositionEnd, Query!Result, Query!IsLast,
      Query!NextPart, Query!Answered, Query!NoQuery

(* Every other step.                                                       *)
LEMMA PositionsElse ==
  ASSUME Query!QueryAssumption, QueryInv, PositionsOK,
         \/ Query!InitAccountAsks \/ Query!InitAccount \/ Query!InitPositionsAsks
         \/ Query!InitTradeInfoAsks \/ Query!InitTradeInfo \/ Query!SubscribeMarketData
         \/ Query!OnTimerAsks \/ Query!OnTimer
         \/ Query!Broker \/ UNCHANGED Query!vars
         \/ \E error \in BOOLEAN : \E end :
              /\ UNCHANGED <<at, account, loaded, book>>
              /\ Query!AccountParts(error) \/ Query!TradeParts(error, end)
  PROVE  PositionsOK'
<1>1. QueryTypes /\ Reads(at, asked, results)
  BY DEF QueryInv
<1>2. asked.kind = "positions" => at = "positions"
  BY QueryAsker
<1>3. CASE \/ Query!InitAccountAsks \/ Query!InitTradeInfoAsks \/ Query!OnTimerAsks
  <2>1. /\ UNCHANGED <<loaded, book>> /\ asked'.kind # "positions"
        /\ \/ at = "start" /\ at' \in {"initAccount", "false"}
           \/ at = "askTrades" /\ at' \in {"trades", "false"}
           \/ at = "idle" /\ at' = "timer"
    BY <1>2, <1>3 DEF Query!InitAccountAsks, Query!InitTradeInfoAsks, Query!OnTimerAsks,
       Query!Ask, Query!QueryAccount, Query!QueryTrades, Query!Query, Query!Stays
  <2> QED
    BY <2>1, PositionsKept DEF Early, Late
<1>4. CASE Query!InitAccount \/ Query!InitTradeInfo \/ Query!OnTimer
           \/ Query!SubscribeMarketData
  <2>1. /\ UNCHANGED <<loaded, book, asked>> /\ at # "positions"
        /\ at' # "positions" /\ (at' \in Early => at \in Early) /\ (at' \in Late => at \in Late)
    BY <1>4 DEF Query!InitAccount, Query!InitTradeInfo, Query!OnTimer,
       Query!SubscribeMarketData, Query!answers, Query!Expect, Early, Late
  <2> QED
    BY <1>2, <2>1, PositionsKept
<1>5. CASE Query!InitPositionsAsks
  <2>1. /\ UNCHANGED <<loaded, book, results, cache>> /\ at = "askPositions"
        /\ \/ at' = "positions" /\ asked' = [kind |-> "positions", part |-> 0]
           \/ at' = "false" /\ UNCHANGED asked
    BY <1>5 DEF Query!InitPositionsAsks, Query!Ask, Query!QueryPositions, Query!Query, Query!Stays
  <2>2. results = <<>> /\ loaded = <<>>
    BY <1>1, <2>1 DEF Reads, PositionsOK, Early
  <2>3. Covers(cache, 0)
    BY DEF Covers
  <2> QED
    BY <1>2, <2>1, <2>2, <2>3 DEF PositionsOK, Early, Late
<1>6. CASE \E error \in BOOLEAN : \E end :
              /\ UNCHANGED <<at, account, loaded, book>>
              /\ Query!AccountParts(error) \/ Query!TradeParts(error, end)
  <2>1. UNCHANGED <<at, loaded, book>> /\ asked.kind \in {"account", "trades"}
        /\ asked'.kind # "positions"
    BY <1>1, <1>6 DEF Query!AccountParts, Query!TradeParts, Query!Part, Query!Answered,
       Query!NoQuery, Query!NextPart, QueryTypes
  <2>2. at # "positions"
    BY <2>1, QueryAsker
  <2> QED
    BY <2>1, <2>2, PositionsKept
<1>7. CASE Query!Broker \/ UNCHANGED Query!vars
  <2>1. /\ UNCHANGED <<at, loaded, book, results, cache>>
        /\ asked'.kind = "positions" => UNCHANGED asked
    BY <1>7 DEF Query!Broker, Query!FundsChange, Query!AnswerLost, Query!Answered, Query!NoQuery,
       Query!vars, Query!answers, Query!oms
  <2> QED
    BY <2>1 DEF PositionsOK, Query!BookIsRows, Query!Sides, Query!Holdings, Early, Late
<1> QED
  BY <1>3, <1>4, <1>5, <1>6, <1>7

(* The common pool starts with what the broker's rows say on both sides of  *)
(* each ticker, or, when their query was answered with an error, with      *)
(* nothing; with all of it if no answer is an error.  A side of a ticker   *)
(* has one row (OnRspQryInvestorPosition, OnQueryPosition, OnPositions).   *)
THEOREM AllPositionsCorrect ==
  ASSUME Query!QueryAssumption, ~ (Api = "ctp" /\ MayFail), OneRowEach
  PROVE  /\ Query!Spec => []Query!AllPositionsOrNone
         /\ ~ MayFail => (Query!Spec => []Query!AllPositions)
<1> DEFINE Inv == QueryInv /\ PositionsOK
<1>1. Query!Init => PositionsOK
  BY DEF Query!Init, Query!AnswersInit, Query!NoQuery, PositionsOK, Early, Late
<1>2. QueryInv /\ QueryInv' /\ PositionsOK /\ [Query!Next]_(Query!vars) => PositionsOK'
  <2> SUFFICES ASSUME QueryInv, QueryInv', PositionsOK, [Query!Next]_(Query!vars)
               PROVE  PositionsOK'
    OBVIOUS
  <2>1. CASE Query!Library
    <3>1. PICK error \in BOOLEAN :
            Query!Callback(error) /\ UNCHANGED <<at, account, loaded, book>>
      BY <2>1 DEF Query!Library, Query!oms
    <3>2. \/ Query!PositionParts(error)
          \/ \E end : Query!AccountParts(error) \/ Query!TradeParts(error, end)
      BY <3>1 DEF Query!Callback, Query!OnRspQryTradingAccount, Query!OnQueryAsset,
         Query!OnRspQryInvestorPosition, Query!OnXtpQueryPosition, Query!OnRspQryTrade,
         Query!OnXtpQueryTrade
    <3> QED
      BY <3>1, <3>2, PositionsPart, PositionsElse
  <2>2. CASE Query!InitPositions
    BY <2>2, PositionsStep
  <2> QED
    BY <2>1, <2>2, PositionsElse DEF Query!Next, Query!Thread
<1>3. Query!Spec => []PositionsOK
  BY <1>1, <1>2, QueryInvariant, PTL DEF Query!Spec
<1>4. PositionsOK => Query!AllPositionsOrNone
  BY DEF PositionsOK, Query!AllPositionsOrNone, Late
<1>5. ~ MayFail => (PositionsOK => Query!AllPositions)
  BY DEF PositionsOK, Query!AllPositions, Late
<1>6. CASE MayFail
  BY <1>3, <1>4, <1>6, PTL
<1>7. CASE ~ MayFail
  <2>1. PositionsOK => Query!AllPositions
    BY <1>5, <1>7
  <2> QED
    BY <1>3, <1>4, <2>1, PTL
<1> QED
  BY <1>6, <1>7

(* What is held from before today never exceeds what is held, in every     *)
(* position that the OMS reads; and the states are those TypeOK says.      *)
THEOREM YesterdayCorrect ==
  ASSUME Query!QueryAssumption, ~ (Api = "ctp" /\ MayFail)
  PROVE  Query!Spec => [](Query!TypeOK /\ Query!YesterdayWithinHoldings)
<1>1. QueryInv => Query!TypeOK
  BY DEF QueryInv, QueryTypes, Query!TypeOK, Query!Places, Query!Waits
<1>2. QueryInv => Query!YesterdayWithinHoldings
  <2> SUFFICES ASSUME QueryInv, NEW i \in DOMAIN loaded, NEW s \in Query!Sides
               PROVE  /\ 0 <= loaded[i].pos[s].yd
                      /\ loaded[i].pos[s].yd <= loaded[i].pos[s].holdings
    BY DEF Query!YesterdayWithinHoldings
  <2>1. loaded[i] \in TickerPosition
    BY ElementOfSeq, LenProperties DEF QueryInv, QueryTypes
  <2>2. loaded[i].pos[s] \in Detail
    BY <2>1 DEF TickerPosition, Position, Query!Sides
  <2> QED
    BY <2>2 DEF Detail
<1> QED
  BY <1>1, <1>2, QueryInvariant, PTL

=============================================================================
