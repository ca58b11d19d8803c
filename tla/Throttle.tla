------------------------------ MODULE Throttle ------------------------------
(***************************************************************************)
(* The risk rule that limits how many orders are sent within a period: the *)
(* times of the orders sent, of which a check drops those that the period  *)
(* has passed, and the clock since the machine started.                    *)
(*                                                                         *)
(* Times are numbers of Width values that wrap around (2^64 in the code).  *)
(***************************************************************************)
EXTENDS Integers, Sequences, FiniteSets, SequencesExt

CONSTANTS
  Limit,      \* order_limit
  Period,     \* period_ms
  Width,      \* the values of a time
  Start,      \* the clock when the trader starts
  MaxTime,    \* bound of the clock
  MaxSent,    \* bound of the orders sent
  Unchecked   \* may an order skip the checks

ThrottleAssumption ==
  /\ Limit \in Nat /\ Period \in Nat /\ Start \in Nat /\ MaxTime \in Nat /\ MaxSent \in Nat
  /\ Width \in Nat /\ Start <= MaxTime /\ MaxTime < Width /\ Period < Width
  /\ Unchecked \in BOOLEAN

VARIABLES
  now,       \* the clock
  queue,     \* time_queue_
  current,   \* current_ms_
  sent,      \* history: when the orders were sent
  refused    \* history: was the last order refused, and did it have room

vars == <<now, queue, current, sent, refused>>

Init ==
  /\ now = Start /\ queue = <<>> /\ current = 0 /\ sent = <<>>
  /\ refused = [last |-> FALSE, room |-> FALSE]

Tick == now < MaxTime /\ now' = now + 1 /\ UNCHANGED <<queue, current, sent, refused>>

Limited == Limit > 0 /\ Period > 0

LowerBound == (now - Period) % Width

(* Fault: an order that is nearly as old as the period does not count. *)
InPeriodShorter(t) == t > LowerBound + 1

InPeriod(t) == t > LowerBound

\* The oldest are dropped up to the first that is still in the period.
Dropped(q) ==
  LET kept == {i \in 1 .. Len(q) : InPeriod(q[i])}
  IN IF kept = {} THEN <<>> ELSE SubSeq(q, CHOOSE i \in kept : \A j \in kept : i <= j, Len(q))

Full(q) == Len(q) >= Limit

\* The orders of the last period, now.
Recent == Cardinality({i \in 1 .. Len(sent) : sent[i] > now - Period})

CheckOrderRequest(q) == ~(Limited /\ Full(q))

\* OMS::SendOrder: a checked order is refused, or sent, or the send fails; an
\* unchecked one is counted at the time of the last check.
OnOrderSent(q, time) == IF Limited THEN Append(q, time) ELSE q

SendChecked ==
  LET q == IF Limited THEN Dropped(queue) ELSE queue
  IN /\ current' = IF Limited THEN now ELSE current
     /\ IF CheckOrderRequest(q)
        THEN /\ refused' = [refused EXCEPT !.last = FALSE]
             /\ \/ queue' = OnOrderSent(q, current') /\ sent' = Append(sent, now)
                \/ queue' = q /\ UNCHANGED sent
        ELSE queue' = q /\ refused' = [last |-> TRUE, room |-> Recent < Limit] /\ UNCHANGED sent
     /\ UNCHANGED now

SendUnchecked ==
  /\ Unchecked
  /\ queue' = OnOrderSent(queue, current) /\ sent' = Append(sent, now)
  /\ UNCHANGED <<now, current, refused>>

Send == Len(sent) < MaxSent /\ (SendChecked \/ SendUnchecked)

Next == Tick \/ Send
Spec == Init /\ [][Next]_vars

-----------------------------------------------------------------------------
TypeOK ==
  /\ now \in Nat /\ current \in 0 .. now
  /\ \A i \in 1 .. Len(queue) : queue[i] \in 0 .. now
  /\ Len(queue) <= Len(sent) /\ (Limited => Len(queue) <= Limit)

\* Within any period no more than the limit is sent, whatever was sent, refused
\* or failed before, at the instants where the period ends (CheckOrderRequest).
AtMostLimit ==
  \A i \in 1 .. Len(sent) :
    Cardinality({j \in 1 .. i : sent[j] > sent[i] - Period}) <= Limit

\* An order is refused only when the last period has no room for it.
RefusedForCause == refused.last => ~refused.room

\* A checked order is only sent when the last period has room for it, the
\* unchecked ones counted.
CheckedHasRoom == [][(SendChecked /\ sent' # sent) => Recent < Limit]_vars
=============================================================================
