----------------------------- MODULE TimerThread -----------------------------
(***************************************************************************)
(* The thread that runs the OMS's timed tasks: tasks in the order of their *)
(* expiry, run with the mutex held, and a condition variable that is       *)
(* waited on until the earliest of them.  Other threads add and remove     *)
(* tasks and stop the thread.                                              *)
(*                                                                         *)
(* Time is counted in ticks up to Horizon, where every wait is over.       *)
(***************************************************************************)
EXTENDS Integers, FiniteSets, FiniteSetsExt, Functions

CONSTANTS
  Tasks,       \* the ids, next_id_ in their order
  Intervals,   \* the intervals a task may have
  Horizon,     \* the last tick
  Once         \* may a task be a single one

TimerAssumption ==
  /\ Tasks \subseteq Nat /\ Intervals \subseteq Nat \ {0} /\ Horizon \in Nat
  /\ Once \subseteq BOOLEAN

VARIABLES
  now,      \* the steady clock
  queue,    \* task_queue_: the tasks that are there, with expiry
  adding,   \* tasks whose AddTask has read the clock and waits for mutex_
  thread,   \* pc of MainLoop, the time it read, the end of its wait
  running,  \* running_
  stopping, \* the caller of Stop: "no", "cleared", "joining", "done"
  runs,     \* history: how often each task ran
  removed   \* history: the tasks that RemoveTask took out

vars == <<now, queue, adding, thread, running, stopping, runs, removed>>

NoTasks == [t \in {} |-> 0]

Init ==
  /\ now = 0 /\ queue = NoTasks /\ adding = NoTasks
  /\ thread = [pc |-> "lock", current |-> 0, until |-> 0, task |-> 0]
  /\ running = TRUE /\ stopping = "no"
  /\ runs = [t \in Tasks |-> 0] /\ removed = {}

\* The thread does not hold mutex_.
Free == thread.pc \in {"lock", "wait", "awake", "ended"}

Tick == now < Horizon /\ now' = now + 1
        /\ UNCHANGED <<queue, adding, thread, running, stopping, runs, removed>>

-----------------------------------------------------------------------------
(* The callers. *)

Notified == IF thread.pc = "wait" THEN [thread EXCEPT !.pc = "awake"] ELSE thread

AddTask(t) ==
  /\ \A u \in Tasks : u < t => u \in DOMAIN adding \/ u \in DOMAIN queue \/ runs[u] > 0
                                  \/ u \in removed
  /\ t \notin DOMAIN adding \cup DOMAIN queue \cup removed /\ runs[t] = 0 /\ stopping = "no"
  /\ \E interval \in Intervals, once \in Once :
       adding' = [u \in DOMAIN adding \cup {t} |->
         IF u = t THEN [expiry |-> now + interval, interval |-> interval, once |-> once,
                        first |-> now + interval]
         ELSE adding[u]]
  /\ UNCHANGED <<now, queue, thread, running, stopping, runs, removed>>

\* mutex_ is had between the thread's rounds.
Emplace(t) ==
  /\ Free /\ t \in DOMAIN adding
  /\ queue' = [u \in DOMAIN queue \cup {t} |-> IF u = t THEN adding[t] ELSE queue[u]]
  /\ adding' = Restrict(adding, DOMAIN adding \ {t})
  /\ thread' = Notified
  /\ UNCHANGED <<now, running, stopping, runs, removed>>

(* Fault: a task that expires at the same time is taken. *)
OfKey(t) == {u \in DOMAIN queue : t \in DOMAIN queue /\ queue[u].expiry = queue[t].expiry}

OfId(t) == {t} \cap DOMAIN queue

RemoveTask(t) ==
  /\ Free /\ stopping = "no"
  /\ OfId(t) # {} /\ removed' = removed \cup {t}
  /\ queue' = Restrict(queue, DOMAIN queue \ {CHOOSE u \in OfId(t) : TRUE})
  /\ UNCHANGED <<now, adding, thread, running, stopping, runs>>

StopClear ==
  /\ stopping = "no" /\ adding = NoTasks
  /\ running' = FALSE /\ stopping' = "cleared"
  /\ UNCHANGED <<now, queue, adding, thread, runs, removed>>

StopNotify ==
  /\ stopping = "cleared" /\ stopping' = "joining" /\ thread' = Notified
  /\ UNCHANGED <<now, queue, adding, running, runs, removed>>

StopJoin ==
  /\ stopping = "joining" /\ thread.pc = "ended"
  /\ stopping' = "done" /\ queue' = NoTasks
  /\ UNCHANGED <<now, adding, thread, running, runs, removed>>

-----------------------------------------------------------------------------
(* MainLoop. *)

Earliest == Min({queue[t].expiry : t \in DOMAIN queue})

At(pc) == thread' = [thread EXCEPT !.pc = pc]

\* The mutex is taken: at the start, and when a wait ends.
Lock == thread.pc \in {"lock", "awake"} /\ At("test")
        /\ UNCHANGED <<now, queue, adding, running, stopping, runs, removed>>

Test ==
  /\ thread.pc = "test"
  /\ thread' = IF running THEN [thread EXCEPT !.pc = "round", !.current = now]
               ELSE [thread EXCEPT !.pc = "ended"]
  /\ UNCHANGED <<now, queue, adding, running, stopping, runs, removed>>

Due == queue # NoTasks /\ thread.current >= Earliest

\* A due task's callback is called, and takes its time, with the mutex held;
\* of those with one expiry, in any order.
Call ==
  /\ thread.pc = "round" /\ Due
  /\ \E t \in DOMAIN queue :
       /\ queue[t].expiry = Earliest
       /\ thread' = [thread EXCEPT !.pc = "called", !.task = t]
       /\ runs' = [runs EXCEPT ![t] = @ + 1]
  /\ UNCHANGED <<now, queue, adding, running, stopping, removed>>

NextExpiry(task) == task.expiry + task.interval

Return ==
  /\ thread.pc = "called" /\ At("round")
  /\ LET t == thread.task
     IN \E res \in BOOLEAN :
          queue' = IF ~res \/ queue[t].once THEN Restrict(queue, DOMAIN queue \ {t})
                   ELSE [queue EXCEPT ![t].expiry = NextExpiry(queue[t])]
  /\ UNCHANGED <<now, adding, running, stopping, runs, removed>>

WaitUntil == IF queue = NoTasks THEN Horizon ELSE Max({now, Earliest})

\* wait_for gives the mutex up.
Wait ==
  /\ thread.pc = "round" /\ ~Due
  /\ thread' = [thread EXCEPT !.pc = "wait", !.until = Min({WaitUntil, Horizon}), !.task = 0]
  /\ UNCHANGED <<now, queue, adding, running, stopping, runs, removed>>

\* The time is over.
TimeOut ==
  /\ thread.pc = "wait" /\ now >= thread.until /\ At("awake")
  /\ UNCHANGED <<now, queue, adding, running, stopping, runs, removed>>

MainLoop == Lock \/ Test \/ Call \/ Return \/ Wait \/ TimeOut

Stop == StopClear \/ StopNotify \/ StopJoin

Next ==
  \/ Tick \/ MainLoop \/ Stop
  \/ \E t \in Tasks : AddTask(t) \/ Emplace(t) \/ RemoveTask(t)

\* The clock goes on and the threads are scheduled; a mutex that is often free
\* is had at last.
Fairness ==
  /\ WF_vars(Tick) /\ WF_vars(MainLoop) /\ WF_vars(StopNotify) /\ WF_vars(StopJoin)
  /\ \A t \in Tasks : SF_vars(Emplace(t))

Spec == Init /\ [][Next]_vars /\ Fairness

-----------------------------------------------------------------------------
TypeOK ==
  /\ DOMAIN queue \cup DOMAIN adding \subseteq Tasks
  /\ thread.pc = "called" => thread.task \in DOMAIN queue
  /\ stopping = "done" => thread.pc = "ended" /\ queue = NoTasks

\* However late a callback makes the thread, a periodic task loses no round
\* and its rounds do not drift (MainLoop: the next expiry is the last one and
\* the interval).
RoundsAddUp ==
  \A t \in DOMAIN queue :
    LET over == IF thread.pc = "called" /\ thread.task = t THEN runs[t] - 1 ELSE runs[t]
    IN queue[t].expiry = queue[t].first + over * queue[t].interval

\* The thread does not sleep past a task's expiry, whatever tasks were added
\* and removed while it slept (AddTask notifies with the mutex held).
SleepsNoLonger ==
  (thread.pc = "wait" /\ queue # NoTasks) => thread.until <= Max({Earliest, now})

\* A task runs when it is due and not before, whatever the loop has read of
\* the clock.
NeverEarly == [][\A t \in Tasks : runs'[t] > runs[t] => now >= queue[t].expiry]_vars

\* Once RemoveTask has returned, its task does not run again.
RemovedNeverRuns == [][\A t \in removed : runs'[t] = runs[t]]_vars

\* A task that is due is run, unless it is removed or the thread is stopped.
DueRuns ==
  \A t \in Tasks :
    (t \in DOMAIN queue /\ queue[t].expiry <= Horizon /\ runs[t] = 0)
      ~> (runs[t] > 0 \/ t \in removed \/ ~running)

\* Stop returns: a notification between the thread's look at running_ and its
\* wait is lost, but the wait ends (27 hours later when no task is there).
StopReturns == stopping = "cleared" ~> stopping = "done"
=============================================================================
