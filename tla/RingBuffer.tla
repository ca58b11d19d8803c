----------------------------- MODULE RingBuffer -----------------------------
(***************************************************************************)
(* RingBuffer: the lock-free ring between a gateway thread and the trader. *)
(* One thread only puts, the other only gets.                              *)
(*                                                                         *)
(* A thread knows its own index; of the other one's it may load an old     *)
(* value, but never one older than it has seen (coherence), and with it it *)
(* sees what the other did before storing it (release and acquire).  Moving*)
(* an item in or out of its slot takes time and is a step of its own.      *)
(***************************************************************************)
EXTENDS Naturals, Sequences, FiniteSets

CONSTANTS
  Items,
  NoItem,      \* what a slot holds before its first item and after a move
  Capacity,    \* template parameter, a power of two
  Modulus      \* bound: number of index values, 2^64 in the code

RingAssumption ==
  /\ NoItem \notin Items
  /\ Capacity \in Nat \ {0}
  /\ Modulus \in Nat
  /\ Modulus > Capacity /\ Modulus % Capacity = 0

VARIABLES
  head,       \* head_, written by the producer
  tail,       \* tail_, written by the consumer
  buffer,     \* buffer_
  seenTail,   \* the value of tail_ the producer's next load returns
  seenHead,   \* the value of head_ the consumer's next load returns
  producer,   \* where the producer is in PutWithBlocking, and with what
  consumer    \* where the consumer is in GetWithBlocking, and *p

vars == <<head, tail, buffer, seenTail, seenHead, producer, consumer>>

Indices == 0 .. Modulus - 1

(* Unsigned arithmetic on indices.                                         *)
Distance(from, to) == (to + (Modulus - from)) % Modulus

(* Fault: the index stops one short of its largest value.                  *)
SuccessorEarly(i) == (i + 1) % (Modulus - 1)

Successor(i) == (i + 1) % Modulus

(* index & kIndexMask_                                                     *)
Slot(i) == i % Capacity

Init ==
  /\ head = 0
  /\ tail = 0
  /\ buffer = [i \in 0 .. Capacity - 1 |-> NoItem]
  /\ seenTail = 0
  /\ seenHead = 0
  /\ producer = [at |-> "idle", data |-> NoItem]
  /\ consumer = [at |-> "idle", data |-> NoItem]

-----------------------------------------------------------------------------
(* A store of the other thread becomes visible.                            *)

TailSeen ==
  /\ seenTail # tail
  /\ seenTail' = Successor(seenTail)
  /\ UNCHANGED <<head, tail, buffer, seenHead, producer, consumer>>

HeadSeen ==
  /\ seenHead # head
  /\ seenHead' = Successor(seenHead)
  /\ UNCHANGED <<head, tail, buffer, seenTail, producer, consumer>>

-----------------------------------------------------------------------------
(* PutWithBlocking: Put again and again until it succeeds.                 *)

CallPut(x) ==
  /\ producer.at = "idle"
  /\ producer' = [at |-> "check", data |-> x]
  /\ UNCHANGED <<head, tail, buffer, seenTail, seenHead, consumer>>

Full == Distance(seenTail, head) = Capacity

(* When it is full Put returns false and is called again.                  *)
CheckFull ==
  /\ producer.at = "check"
  /\ ~ Full
  /\ producer' = [producer EXCEPT !.at = "write"]
  /\ UNCHANGED <<head, tail, buffer, seenTail, seenHead, consumer>>

WriteSlot ==
  /\ producer.at = "write"
  /\ buffer' = [buffer EXCEPT ![Slot(head)] = producer.data]
  /\ producer' = [producer EXCEPT !.at = "store"]
  /\ UNCHANGED <<head, tail, seenTail, seenHead, consumer>>

StoreHead ==
  /\ producer.at = "store"
  /\ head' = Successor(head)
  /\ producer' = [producer EXCEPT !.at = "idle"]
  /\ UNCHANGED <<tail, buffer, seenTail, seenHead, consumer>>

-----------------------------------------------------------------------------
(* Get, polled by the main loop, and GetWithBlocking.                      *)

(* Fault: a ring that was full looks empty.                                *)
EmptyBySlot == Slot(tail) = Slot(seenHead)

Empty == tail = seenHead

CheckEmpty ==
  /\ consumer.at = "idle"
  /\ ~ Empty
  /\ consumer' = [consumer EXCEPT !.at = "read"]
  /\ UNCHANGED <<head, tail, buffer, seenTail, seenHead, producer>>

ReadSlot ==
  /\ consumer.at = "read"
  /\ consumer' = [at |-> "store", data |-> buffer[Slot(tail)]]
  /\ buffer' = [buffer EXCEPT ![Slot(tail)] = NoItem]
  /\ UNCHANGED <<head, tail, seenTail, seenHead, producer>>

(* Fault: the slot is given back before the item is out of it.             *)
StoreTailEarly ==
  \/ /\ consumer.at = "idle"
     /\ ~ Empty
     /\ tail' = Successor(tail)
     /\ consumer' = [consumer EXCEPT !.at = "read"]
     /\ UNCHANGED <<head, buffer, seenTail, seenHead, producer>>
  \/ /\ consumer.at = "store"
     /\ consumer' = [consumer EXCEPT !.at = "idle"]
     /\ UNCHANGED <<head, tail, buffer, seenTail, seenHead, producer>>

StoreTail ==
  /\ consumer.at = "store"
  /\ tail' = Successor(tail)
  /\ consumer' = [consumer EXCEPT !.at = "idle"]
  /\ UNCHANGED <<head, buffer, seenTail, seenHead, producer>>

-----------------------------------------------------------------------------
Producer == CheckFull \/ WriteSlot \/ StoreHead

Consumer == CheckEmpty \/ ReadSlot \/ StoreTail

Next ==
  \/ \E x \in Items : CallPut(x)
  \/ Producer
  \/ Consumer
  \/ TailSeen
  \/ HeadSeen

Spec == Init /\ [][Next]_vars

(* Both threads spin, and a store is seen in the end.  Nothing makes the   *)
(* producer put.                                                           *)
FairSpec ==
  /\ Spec
  /\ WF_vars(Producer) /\ WF_vars(Consumer)
  /\ WF_vars(TailSeen) /\ WF_vars(HeadSeen)

-----------------------------------------------------------------------------
TypeOK ==
  /\ {head, tail, seenTail, seenHead} \subseteq Indices
  /\ buffer \in [0 .. Capacity - 1 -> Items \union {NoItem}]
  /\ producer \in [at : {"idle", "check", "write", "store"}, data : Items \union {NoItem}]
  /\ consumer \in [at : {"idle", "read", "store"}, data : Items \union {NoItem}]

(* The two threads are never at the same slot at the same time, although   *)
(* each decides on an old value of the other's index.                      *)
NoSlotRace ==
  producer.at = "write" /\ consumer.at = "read" => Slot(head) # Slot(tail)

(* The items put and not yet taken: those of the slots from tail to head,  *)
(* without the one the consumer has moved out already.                     *)
Queued ==
  LET first == IF consumer.at = "store" THEN Successor(tail) ELSE tail
  IN  [k \in 1 .. Distance(first, head) |-> buffer[Slot((first + k - 1) % Modulus)]]

Queue == INSTANCE Fifo WITH queue <- Queued, taken <- consumer.data

(* The ring is a bounded queue, over any number of turns of its indices.   *)
RingImplementsFifo == Queue!Spec

(* A blocked producer gets in as long as the consumer polls.               *)
PutReturns == producer.at # "idle" ~> producer.at = "idle"

(* Whatever was put is taken: the ring does not stay filled.               *)
RingDrains == [](Queued # <<>> => <>(consumer.at = "store"))

=============================================================================
