-------------------------- MODULE RingBufferProofs --------------------------
(***************************************************************************)
(* RingBuffer for every capacity, every number of index values it divides  *)
(* and any items: its types, that the threads keep apart, and that it      *)
(* implements the bounded queue of Fifo.                                   *)
(***************************************************************************)
EXTENDS RingBuffer, Integers, SequenceTheorems, TLAPS

-----------------------------------------------------------------------------
(* Indices, their distances and their slots.                               *)

(* The remainders the indices need.                                        *)
LEMMA Remainder ==
  ASSUME NEW m \in Nat \ {0}, NEW a \in Nat
  PROVE  /\ a % m \in 0 .. m - 1
         /\ a < m => a % m = a
         /\ m <= a /\ a < 2 * m => a % m = a - m
         /\ a \div m \in Nat /\ a = (a \div m) * m + (a % m)
OBVIOUS

LEMMA Constants ==
  ASSUME RingAssumption
  PROVE  /\ Capacity \in Nat \ {0} /\ Modulus \in Nat \ {0} /\ Capacity < Modulus
         /\ Capacity <= Modulus - 1
         /\ \A i \in Indices : i \in Nat /\ i < Modulus
BY DEF RingAssumption, Indices

(* The successor of the last index is the first.                           *)
LEMMA SuccessorIs ==
  ASSUME RingAssumption, NEW i \in Indices
  PROVE  /\ Successor(i) = IF i = Modulus - 1 THEN 0 ELSE i + 1
         /\ Successor(i) \in Indices
<1>1. i \in Nat /\ i < Modulus /\ Modulus \in Nat \ {0} /\ i + 1 \in Nat
  BY Constants
<1>2. CASE i = Modulus - 1
  <2>1. (i + 1) % Modulus = 0
    BY <1>1, <1>2, Remainder
  <2> QED
    BY <1>1, <1>2, <2>1 DEF Successor, Indices
<1>3. CASE i # Modulus - 1
  <2>1. i + 1 < Modulus
    BY <1>1, <1>3
  <2>2. (i + 1) % Modulus = i + 1
    BY <1>1, <2>1, Remainder
  <2> QED
    BY <1>1, <1>3, <2>2 DEF Successor, Indices
<1> QED
  BY <1>2, <1>3

(* A distance goes forward, past the last index if need be.                *)
LEMMA DistanceIs ==
  ASSUME RingAssumption, NEW i \in Indices, NEW j \in Indices
  PROVE  /\ Distance(i, j) = IF i <= j THEN j - i ELSE j - i + Modulus
         /\ Distance(i, j) \in Nat /\ Distance(i, j) < Modulus
<1>1. i \in Nat /\ j \in Nat /\ i < Modulus /\ j < Modulus /\ Modulus \in Nat \ {0}
  BY Constants
<1> DEFINE a == j + (Modulus - i)
<1>2. a \in Nat /\ a = j - i + Modulus
  BY <1>1
<1>3. CASE i <= j
  <2>1. Modulus <= a /\ a < 2 * Modulus /\ a - Modulus = j - i
    BY <1>1, <1>3
  <2> HIDE DEF a
  <2>2. a % Modulus = a - Modulus
    BY <1>1, <1>2, <2>1, Remainder
  <2>3. Distance(i, j) = j - i
    BY <2>1, <2>2 DEF Distance, a
  <2> QED
    BY <1>1, <1>3, <2>3
<1>4. CASE ~ (i <= j)
  <2>1. a < Modulus
    BY <1>1, <1>4
  <2> HIDE DEF a
  <2>2. a % Modulus = a
    BY <1>1, <1>2, <2>1, Remainder
  <2>3. Distance(i, j) = j - i + Modulus
    BY <1>2, <2>2 DEF Distance, a
  <2> QED
    BY <1>1, <1>4, <2>3
<1> QED
  BY <1>3, <1>4

(* The index k steps after i.                                              *)
LEMMA StepsAfter ==
  ASSUME RingAssumption, NEW i \in Indices, NEW k \in Nat, k < Modulus
  PROVE  /\ (i + k) % Modulus \in Indices
         /\ Distance(i, (i + k) % Modulus) = k
<1>1. i \in Nat /\ i < Modulus /\ Modulus \in Nat \ {0} /\ i + k \in Nat
  BY Constants
<1> DEFINE j == (i + k) % Modulus
<1>2. j \in Indices
  BY <1>1, Remainder DEF Indices
<1>3. CASE i + k < Modulus
  <2>1. j = i + k
    BY <1>1, <1>3, Remainder
  <2> QED
    BY <1>1, <1>2, <2>1, DistanceIs
<1>4. CASE ~ (i + k < Modulus)
  <2>1. Modulus <= i + k /\ i + k < 2 * Modulus
    BY <1>1, <1>4
  <2>2. j = (i + k) - Modulus
    BY <1>1, <2>1, Remainder
  <2> QED
    BY <1>1, <1>2, <1>4, <2>2, DistanceIs
<1> QED
  BY <1>2, <1>3, <1>4

LEMMA SlotType ==
  ASSUME RingAssumption, NEW i \in Indices
  PROVE  Slot(i) \in 0 .. Capacity - 1
BY Constants, Remainder DEF Slot

(* A multiple of c is not between 0 and c.                                 *)
LEMMA NoMultipleBetween ==
  ASSUME NEW c \in Nat \ {0}, NEW n \in Int, 0 < n * c
  PROVE  n * c >= c
<1>1. n > 0
  <2>1. SUFFICES ASSUME n <= 0 PROVE n * c <= 0
    BY <2>1
  <2>2. CASE n = 0
    BY <2>2
  <2>3. CASE n < 0
    BY <2>3
  <2> QED
    BY <2>1, <2>2, <2>3
<1>2. n - 1 \in Nat /\ (n - 1) * c >= 0
  BY <1>1
<1>3. (n - 1) * c = n * c - c
  OBVIOUS
<1> QED
  BY <1>2, <1>3

(* Indices less than a capacity apart have different slots, the indices    *)
(* that wrapped around included: the capacity divides their number.        *)
LEMMA SlotsApart ==
  ASSUME RingAssumption, NEW i \in Indices, NEW j \in Indices,
         0 < Distance(i, j), Distance(i, j) < Capacity
  PROVE  Slot(i) # Slot(j)
<1> SUFFICES ASSUME Slot(i) = Slot(j) PROVE FALSE
  OBVIOUS
<1>1. /\ Capacity \in Nat \ {0} /\ Modulus \in Nat /\ Modulus % Capacity = 0
      /\ i \in Nat /\ j \in Nat
  BY Constants DEF RingAssumption
<1>2. PICK q \in Nat : Modulus = q * Capacity
  <2>1. Modulus = (Modulus \div Capacity) * Capacity + (Modulus % Capacity)
    BY <1>1, Remainder
  <2>2. Modulus \div Capacity \in Nat
    BY <1>1, Remainder
  <2>3. Modulus = (Modulus \div Capacity) * Capacity
    BY <1>1, <2>1, <2>2
  <2> QED
    BY <2>2, <2>3
<1>3. PICK a \in Nat : i = a * Capacity + Slot(i)
  BY <1>1, Remainder DEF Slot
<1>4. PICK b \in Nat : j = b * Capacity + Slot(j)
  BY <1>1, Remainder DEF Slot
<1>5. Slot(i) \in Nat /\ Slot(j) \in Nat
  BY <1>1, Remainder DEF Slot
<1>6. \E n \in Int : Distance(i, j) = n * Capacity
  <2>1. CASE i <= j
    <3>1. Distance(i, j) = j - i
      BY <2>1, DistanceIs
    <3>2. j - i = b * Capacity - a * Capacity
      BY <1>1, <1>3, <1>4, <1>5
    <3>3. (b - a) * Capacity = b * Capacity - a * Capacity
      BY <1>1
    <3> QED
      BY <3>1, <3>2, <3>3
  <2>2. CASE ~ (i <= j)
    <3>1. Distance(i, j) = j - i + Modulus
      BY <2>2, DistanceIs
    <3>2. j - i + Modulus = b * Capacity - a * Capacity + q * Capacity
      BY <1>1, <1>2, <1>3, <1>4, <1>5
    <3>3. (b - a + q) * Capacity = b * Capacity - a * Capacity + q * Capacity
      BY <1>1
    <3>4. b - a + q \in Int
      OBVIOUS
    <3> QED
      BY <3>1, <3>2, <3>3, <3>4
  <2> QED
    BY <2>1, <2>2
<1>7. PICK n \in Int : Distance(i, j) = n * Capacity
  BY <1>6
<1>8. n * Capacity >= Capacity
  BY <1>1, <1>7, NoMultipleBetween
<1>9. Distance(i, j) \in Nat
  BY DistanceIs
<1> QED
  BY <1>1, <1>7, <1>8, <1>9

-----------------------------------------------------------------------------
(* Types.                                                                  *)

LEMMA RingType ==
  ASSUME RingAssumption
  PROVE  /\ Init => TypeOK
         /\ TypeOK /\ [Next]_vars => TypeOK'
<1>1. Init => TypeOK
  BY Constants DEF Init, TypeOK, Indices
<1>2. ASSUME TypeOK, [Next]_vars PROVE TypeOK'
  <2>1. ASSUME NEW x \in Items, CallPut(x) PROVE TypeOK'
    BY <1>2, <2>1 DEF CallPut, TypeOK
  <2>2. CASE CheckFull
    BY <1>2, <2>2 DEF CheckFull, TypeOK
  <2>3. CASE WriteSlot
    BY <1>2, <2>3, SlotType DEF WriteSlot, TypeOK
  <2>4. CASE StoreHead
    BY <1>2, <2>4, SuccessorIs DEF StoreHead, TypeOK
  <2>5. CASE CheckEmpty
    BY <1>2, <2>5 DEF CheckEmpty, TypeOK
  <2>6. CASE ReadSlot
    BY <1>2, <2>6, SlotType DEF ReadSlot, TypeOK
  <2>7. CASE StoreTail
    BY <1>2, <2>7, SuccessorIs DEF StoreTail, TypeOK
  <2>8. CASE TailSeen
    BY <1>2, <2>8, SuccessorIs DEF TailSeen, TypeOK
  <2>9. CASE HeadSeen
    BY <1>2, <2>9, SuccessorIs DEF HeadSeen, TypeOK
  <2>10. CASE UNCHANGED vars
    BY <1>2, <2>10 DEF vars, TypeOK
  <2> QED
    BY <1>2, <2>1, <2>2, <2>3, <2>4, <2>5, <2>6, <2>7, <2>8, <2>9, <2>10
       DEF Next, Producer, Consumer
<1> QED
  BY <1>1, <1>2

(* Every reachable state of the ring has the types TypeOK gives: indices   *)
(* stay below their modulus however often they wrap.                       *)
THEOREM RingTypeCorrect ==
  ASSUME RingAssumption
  PROVE  Spec => []TypeOK
BY RingType, PTL DEF Spec

-----------------------------------------------------------------------------
(* The threads keep apart.                                                 *)

(* Seen from the oldest index in use, the tail the producer last saw, the  *)
(* indices come in this order and span no more than the capacity.  Past    *)
(* its check the producer has a slot left, and the consumer an item.       *)
Window ==
  /\ Distance(seenTail, tail) <= Distance(seenTail, seenHead)
  /\ Distance(seenTail, seenHead) <= Distance(seenTail, head)
  /\ Distance(seenTail, head) <= Capacity
  /\ producer.at \in {"write", "store"} => Distance(seenTail, head) < Capacity
  /\ consumer.at \in {"read", "store"} => Distance(seenTail, tail) < Distance(seenTail, seenHead)

(* The producer has an item in hand, and has written it before its store.  *)
InHand ==
  /\ producer.at # "idle" => producer.data \in Items
  /\ producer.at = "store" => buffer[Slot(head)] = producer.data

RingInv == Window /\ InHand

(* One step of an index, seen from another one.                            *)
LEMMA DistanceStep ==
  ASSUME RingAssumption, NEW i \in Indices, NEW j \in Indices
  PROVE  /\ Distance(i, i) = 0
         /\ Distance(i, j) = 0 => i = j
         /\ Distance(i, j) < Modulus - 1 => Distance(i, Successor(j)) = Distance(i, j) + 1
         /\ i # j => Distance(Successor(i), j) = Distance(i, j) - 1
<1>1. i \in Nat /\ j \in Nat /\ i < Modulus /\ j < Modulus /\ Modulus \in Nat \ {0}
  BY Constants
<1>2. Distance(i, i) = 0 /\ (Distance(i, j) = 0 => i = j)
  BY <1>1, DistanceIs
<1>3. Distance(i, j) < Modulus - 1 => Distance(i, Successor(j)) = Distance(i, j) + 1
  <2>1. Successor(j) \in Indices /\ Successor(j) = IF j = Modulus - 1 THEN 0 ELSE j + 1
    BY SuccessorIs
  <2>2. /\ Distance(i, j) = IF i <= j THEN j - i ELSE j - i + Modulus
        /\ Distance(i, Successor(j))
             = IF i <= Successor(j) THEN Successor(j) - i ELSE Successor(j) - i + Modulus
    BY <2>1, DistanceIs
  <2> QED
    BY <1>1, <2>1, <2>2
<1>4. i # j => Distance(Successor(i), j) = Distance(i, j) - 1
  <2>1. Successor(i) \in Indices /\ Successor(i) = IF i = Modulus - 1 THEN 0 ELSE i + 1
    BY SuccessorIs
  <2>2. /\ Distance(i, j) = IF i <= j THEN j - i ELSE j - i + Modulus
        /\ Distance(Successor(i), j)
             = IF Successor(i) <= j THEN j - Successor(i) ELSE j - Successor(i) + Modulus
    BY <2>1, DistanceIs
  <2> QED
    BY <1>1, <2>1, <2>2
<1> QED
  BY <1>2, <1>3, <1>4

(* Distances within the window add up.                                     *)
LEMMA DistanceBetween ==
  ASSUME RingAssumption, NEW i \in Indices, NEW j \in Indices, NEW k \in Indices,
         Distance(i, j) <= Distance(i, k)
  PROVE  Distance(j, k) = Distance(i, k) - Distance(i, j)
<1>1. /\ i \in Nat /\ j \in Nat /\ k \in Nat /\ i < Modulus /\ j < Modulus /\ k < Modulus
      /\ Modulus \in Nat \ {0}
  BY Constants
<1>2. /\ Distance(i, j) = IF i <= j THEN j - i ELSE j - i + Modulus
      /\ Distance(i, k) = IF i <= k THEN k - i ELSE k - i + Modulus
      /\ Distance(j, k) = IF j <= k THEN k - j ELSE k - j + Modulus
  BY DistanceIs
<1> QED
  BY <1>1, <1>2

(* What the window says of tail and head.                                  *)
LEMMA TailToHead ==
  ASSUME RingAssumption, TypeOK, Window
  PROVE  /\ {head, tail, seenTail, seenHead} \subseteq Indices
         /\ Distance(tail, head) \in Nat
         /\ Distance(tail, head) = Distance(seenTail, head) - Distance(seenTail, tail)
         /\ Distance(tail, head) <= Capacity
         /\ producer.at \in {"write", "store"} => Distance(tail, head) < Capacity
         /\ consumer.at \in {"read", "store"} => Distance(tail, head) > 0
<1>1. {head, tail, seenTail, seenHead} \subseteq Indices
  BY DEF TypeOK
<1>2. /\ Distance(seenTail, tail) \in Nat /\ Distance(seenTail, seenHead) \in Nat
      /\ Distance(seenTail, head) \in Nat /\ Distance(tail, head) \in Nat
      /\ Capacity \in Nat
  BY <1>1, DistanceIs, Constants
<1>3. Distance(tail, head) = Distance(seenTail, head) - Distance(seenTail, tail)
  BY <1>1, <1>2, DistanceBetween DEF Window
<1> QED
  BY <1>1, <1>2, <1>3 DEF Window

LEMMA NextWindow ==
  ASSUME RingAssumption, TypeOK, Window, [Next]_vars
  PROVE  Window'
<1>1. {head, tail, seenTail, seenHead} \subseteq Indices
  BY DEF TypeOK
<1>2. /\ Distance(seenTail, tail) \in Nat /\ Distance(seenTail, seenHead) \in Nat
      /\ Distance(seenTail, head) \in Nat
      /\ Capacity \in Nat /\ Modulus \in Nat /\ Capacity <= Modulus - 1
  BY <1>1, DistanceIs, Constants
<1>3. ASSUME NEW x \in Items, CallPut(x) PROVE Window'
  BY <1>3 DEF CallPut, Window
<1>4. CASE CheckFull
  <2>1. Distance(seenTail, head) < Capacity
    BY <1>2, <1>4 DEF CheckFull, Full, Window
  <2> QED
    BY <1>4, <2>1 DEF CheckFull, Window
<1>5. CASE WriteSlot
  BY <1>5 DEF WriteSlot, Window
<1>6. CASE StoreHead
  <2>1. Distance(seenTail, head) < Capacity
    BY <1>6 DEF StoreHead, Window
  <2>2. Distance(seenTail, head') = Distance(seenTail, head) + 1
    BY <1>1, <1>2, <1>6, <2>1, DistanceStep DEF StoreHead
  <2>3. producer'.at = "idle"
    BY <1>6 DEF StoreHead, TypeOK
  <2> QED
    BY <1>2, <1>6, <2>1, <2>2, <2>3 DEF StoreHead, Window
<1>7. CASE CheckEmpty
  <2>1. Distance(tail, seenHead) # 0
    BY <1>1, <1>7, DistanceStep DEF CheckEmpty, Empty
  <2>2. Distance(tail, seenHead) = Distance(seenTail, seenHead) - Distance(seenTail, tail)
    BY <1>1, <1>2, DistanceBetween DEF Window
  <2>3. Distance(seenTail, tail) < Distance(seenTail, seenHead)
    BY <1>2, <2>1, <2>2 DEF Window
  <2> QED
    BY <1>7, <2>3 DEF CheckEmpty, Window
<1>8. CASE ReadSlot
  BY <1>8 DEF ReadSlot, Window
<1>9. CASE StoreTail
  <2>1. Distance(seenTail, tail) < Distance(seenTail, seenHead)
    BY <1>9 DEF StoreTail, Window
  <2>2. Distance(seenTail, tail') = Distance(seenTail, tail) + 1
    BY <1>1, <1>2, <1>9, <2>1, DistanceStep DEF StoreTail, Window
  <2>3. consumer'.at = "idle"
    BY <1>9 DEF StoreTail, TypeOK
  <2> QED
    BY <1>2, <1>9, <2>1, <2>2, <2>3 DEF StoreTail, Window
<1>10. CASE TailSeen
  <2>1. Distance(seenTail, tail) # 0
    BY <1>1, <1>10, DistanceStep DEF TailSeen
  <2>2. seenTail # tail /\ seenTail # seenHead /\ seenTail # head
    BY <1>1, <1>2, <2>1, DistanceStep DEF Window
  <2>3. /\ Distance(seenTail', tail) = Distance(seenTail, tail) - 1
        /\ Distance(seenTail', seenHead) = Distance(seenTail, seenHead) - 1
        /\ Distance(seenTail', head) = Distance(seenTail, head) - 1
    BY <1>1, <1>10, <2>2, DistanceStep DEF TailSeen
  <2> QED
    BY <1>2, <1>10, <2>3 DEF TailSeen, Window
<1>11. CASE HeadSeen
  <2>1. Distance(seenHead, head) # 0
    BY <1>1, <1>11, DistanceStep DEF HeadSeen
  <2>2. Distance(seenHead, head) = Distance(seenTail, head) - Distance(seenTail, seenHead)
    BY <1>1, <1>2, DistanceBetween DEF Window
  <2>3. Distance(seenTail, seenHead) < Distance(seenTail, head)
    BY <1>2, <2>1, <2>2 DEF Window
  <2>4. Distance(seenTail, seenHead') = Distance(seenTail, seenHead) + 1
    BY <1>1, <1>2, <1>11, <2>3, DistanceStep DEF HeadSeen, Window
  <2> QED
    BY <1>2, <1>11, <2>3, <2>4 DEF HeadSeen, Window
<1>12. CASE UNCHANGED vars
  BY <1>12 DEF vars, Window
<1> QED
  BY <1>3, <1>4, <1>5, <1>6, <1>7, <1>8, <1>9, <1>10, <1>11, <1>12
     DEF Next, Producer, Consumer

(* Past its check the producer's slot is not one of those from tail to     *)
(* head, the one the consumer is at included.                              *)
LEMMA HeadSlotFree ==
  ASSUME RingAssumption, TypeOK, Window,
         producer.at \in {"write", "store"}, Distance(tail, head) > 0
  PROVE  Slot(tail) # Slot(head)
BY TailToHead, SlotsApart

LEMMA NextInHand ==
  ASSUME RingAssumption, TypeOK, RingInv, [Next]_vars
  PROVE  InHand'
<1>1. {head, tail} \subseteq Indices
  BY DEF TypeOK
<1>2. ASSUME NEW x \in Items, CallPut(x) PROVE InHand'
  BY <1>2 DEF CallPut, InHand, TypeOK
<1>3. CASE CheckFull
  BY <1>3 DEF CheckFull, RingInv, InHand, TypeOK
<1>4. CASE WriteSlot
  <2>1. buffer'[Slot(head)] = producer.data
    BY <1>1, <1>4, SlotType DEF WriteSlot, TypeOK
  <2> QED
    BY <1>4, <2>1 DEF WriteSlot, RingInv, InHand, TypeOK
<1>5. CASE StoreHead
  BY <1>5 DEF StoreHead, RingInv, InHand, TypeOK
<1>6. CASE ReadSlot
  <2>1. producer.at = "store" => buffer'[Slot(head)] = buffer[Slot(head)]
    <3>1. producer.at = "store" => Slot(tail) # Slot(head)
      BY <1>6, TailToHead, HeadSlotFree DEF ReadSlot, RingInv
    <3> QED
      BY <1>1, <1>6, <3>1, SlotType DEF ReadSlot, TypeOK
  <2> QED
    BY <1>6, <2>1 DEF ReadSlot, RingInv, InHand
<1>7. CASE CheckEmpty \/ StoreTail \/ TailSeen \/ HeadSeen \/ UNCHANGED vars
  BY <1>7 DEF CheckEmpty, StoreTail, TailSeen, HeadSeen, vars, RingInv, InHand
<1> QED
  BY <1>2, <1>3, <1>4, <1>5, <1>6, <1>7 DEF Next, Producer, Consumer

(* RingInv is inductive, given the types.                                  *)
THEOREM RingInvCorrect ==
  ASSUME RingAssumption
  PROVE  Spec => []RingInv
<1>1. ASSUME Init PROVE RingInv
  <2>1. /\ head = 0 /\ tail = 0 /\ seenTail = 0 /\ seenHead = 0
        /\ producer.at = "idle" /\ consumer.at = "idle"
    BY <1>1 DEF Init
  <2>2. 0 \in Indices /\ Capacity >= 0
    BY Constants DEF Indices
  <2>3. Distance(0, 0) = 0
    BY <2>2, DistanceStep
  <2> QED
    BY <2>1, <2>2, <2>3 DEF RingInv, Window, InHand
<1>2. TypeOK /\ RingInv /\ [Next]_vars => RingInv'
  BY NextWindow, NextInHand DEF RingInv
<1> QED
  BY <1>1, <1>2, RingTypeCorrect, PTL DEF Spec

(* The two threads are never at the same slot at the same time, although   *)
(* each decides on an old value of the other's index.                      *)
THEOREM RingRaceCorrect ==
  ASSUME RingAssumption
  PROVE  Spec => []NoSlotRace
<1>1. TypeOK /\ RingInv => NoSlotRace
  BY TailToHead, HeadSlotFree DEF RingInv, NoSlotRace
<1> QED
  BY <1>1, RingTypeCorrect, RingInvCorrect, PTL

-----------------------------------------------------------------------------
(* The ring implements the bounded queue.                                  *)

(* A function from 1 to n is a sequence.                                   *)
LEMMA FunctionIsSeq ==
  ASSUME NEW n \in Nat, NEW S, NEW q \in [1 .. n -> S]
  PROVE  q \in Seq(S) /\ Len(q) = n
<1>1. q = [k \in 1 .. n |-> q[k]] /\ \A k \in 1 .. n : q[k] \in S
  OBVIOUS
<1>2. [k \in 1 .. n |-> q[k]] \in Seq(S) /\ Len([k \in 1 .. n |-> q[k]]) = n
  BY <1>1
<1> QED
  BY <1>1, <1>2

First == IF consumer.at = "store" THEN Successor(tail) ELSE tail

(* The index of the k-th queued item.                                      *)
Place(k) == (First + k - 1) % Modulus

(* The items from First to head.                                           *)
LEMMA FirstIs ==
  ASSUME RingAssumption, TypeOK, Window
  PROVE  /\ First \in Indices
         /\ Distance(First, head) \in Nat
         /\ Distance(First, head) <= Capacity
         /\ producer.at \in {"write", "store"} => Distance(First, head) < Capacity
         /\ consumer.at = "store" => Distance(First, head) = Distance(tail, head) - 1
         /\ consumer.at = "read" => Distance(First, head) > 0
<1>1. /\ {head, tail} \subseteq Indices
      /\ Distance(tail, head) \in Nat /\ Capacity \in Nat
      /\ Distance(tail, head) <= Capacity
      /\ producer.at \in {"write", "store"} => Distance(tail, head) < Capacity
      /\ consumer.at \in {"read", "store"} => Distance(tail, head) > 0
  BY TailToHead, Constants
<1>2. CASE consumer.at = "store"
  <2>1. tail # head
    BY <1>1, <1>2, DistanceStep
  <2>2. First = Successor(tail) /\ Successor(tail) \in Indices
    BY <1>1, <1>2, SuccessorIs DEF First
  <2>3. Distance(First, head) = Distance(tail, head) - 1
    BY <1>1, <2>1, <2>2, DistanceStep
  <2> QED
    BY <1>1, <1>2, <2>2, <2>3
<1>3. CASE consumer.at # "store"
  BY <1>1, <1>3 DEF First
<1> QED
  BY <1>2, <1>3

(* The places of the queued items, and their slots.                        *)
LEMMA PlaceIs ==
  ASSUME RingAssumption, TypeOK, Window, NEW k \in 1 .. Distance(First, head)
  PROVE  /\ Place(k) \in Indices
         /\ Distance(First, Place(k)) = k - 1
         /\ Distance(Place(k), head) = Distance(First, head) - (k - 1)
         /\ Slot(Place(k)) \in 0 .. Capacity - 1
<1>1. /\ First \in Indices /\ head \in Indices /\ Distance(First, head) \in Nat
      /\ Distance(First, head) < Modulus
  BY FirstIs, DistanceIs DEF TypeOK
<1>2. k - 1 \in Nat /\ k - 1 < Modulus /\ k - 1 <= Distance(First, head)
  BY <1>1, Constants
<1>3. (First + (k - 1)) % Modulus = Place(k)
  <2>1. First + (k - 1) = First + k - 1
    BY <1>1, <1>2 DEF Indices
  <2> QED
    BY <2>1 DEF Place
<1>4. Place(k) \in Indices /\ Distance(First, Place(k)) = k - 1
  BY <1>1, <1>2, <1>3, StepsAfter
<1>5. Distance(Place(k), head) = Distance(First, head) - (k - 1)
  BY <1>1, <1>2, <1>4, DistanceBetween
<1> QED
  BY <1>4, <1>5, SlotType

LEMMA QueuedIs ==
  /\ Queued = [k \in 1 .. Distance(First, head) |-> buffer[Slot(Place(k))]]
  /\ Queued' = [k \in 1 .. Distance(First', head') |-> buffer'[Slot(Place(k)')]]
BY DEF Queued, First, Place

LEMMA QueuedType ==
  ASSUME RingAssumption, TypeOK, Window
  PROVE  /\ Queued \in Seq(Items \union {NoItem})
         /\ Len(Queued) = Distance(First, head)
         /\ \A k \in 1 .. Distance(First, head) : Queued[k] = buffer[Slot(Place(k))]
<1>1. Distance(First, head) \in Nat
  BY FirstIs
<1>2. \A k \in 1 .. Distance(First, head) : buffer[Slot(Place(k))] \in Items \union {NoItem}
  BY PlaceIs DEF TypeOK
<1> QED
  BY <1>1, <1>2, QueuedIs

(* A step that leaves alone the first index, head and the queued slots.    *)
LEMMA QueuedKept ==
  ASSUME First' = First, head' = head,
         \A k \in 1 .. Distance(First, head) : buffer'[Slot(Place(k))] = buffer[Slot(Place(k))]
  PROVE  Queued' = Queued
<1>1. \A k : Place(k)' = Place(k)
  BY DEF Place
<1> QED
  BY <1>1, QueuedIs

(* What the producer writes is not yet among the queued items.             *)
LEMMA WriteQueued ==
  ASSUME RingAssumption, TypeOK, Window, WriteSlot
  PROVE  Queued' = Queued
<1>1. First' = First /\ head' = head
  BY DEF WriteSlot, First
<1>2. ASSUME NEW k \in 1 .. Distance(First, head)
      PROVE  buffer'[Slot(Place(k))] = buffer[Slot(Place(k))]
  <2>1. /\ Place(k) \in Indices /\ Slot(Place(k)) \in 0 .. Capacity - 1
        /\ Distance(Place(k), head) = Distance(First, head) - (k - 1)
        /\ Distance(First, head) \in Nat /\ Distance(First, head) < Capacity
        /\ head \in Indices
    BY PlaceIs, FirstIs DEF WriteSlot, TypeOK
  <2>2. 0 < Distance(Place(k), head) /\ Distance(Place(k), head) < Capacity
    BY <2>1, Constants
  <2>3. Slot(Place(k)) # Slot(head)
    BY <2>1, <2>2, SlotsApart
  <2> QED
    BY <2>1, <2>3 DEF WriteSlot, TypeOK
<1> QED
  BY <1>1, <1>2, QueuedKept

(* The store of head puts the item in hand into the queue.                 *)
LEMMA StorePuts ==
  ASSUME RingAssumption, TypeOK, RingInv, StoreHead
  PROVE  \E x \in Items : Queue!Put(x)
<1> DEFINE n == Distance(First, head)
           x == producer.data
<1>1. /\ First \in Indices /\ head \in Indices /\ n \in Nat /\ n < Capacity
      /\ Capacity \in Nat /\ Capacity <= Modulus - 1 /\ Modulus \in Nat
  BY FirstIs, Constants DEF StoreHead, RingInv, TypeOK
<1>2. /\ x \in Items /\ buffer[Slot(head)] = x
      /\ head' = Successor(head) /\ First' = First
      /\ buffer' = buffer /\ consumer' = consumer
  BY DEF StoreHead, RingInv, InHand, First
<1>3. Distance(First, head') = n + 1
  BY <1>1, <1>2, DistanceStep
<1>4. Place(n + 1) = head
  <2>1. Place(n + 1) = (First + n) % Modulus
    <3>1. First + (n + 1) - 1 = First + n
      BY <1>1 DEF Indices
    <3> QED
      BY <3>1 DEF Place
  <2>2. Place(n + 1) \in Indices /\ Distance(First, Place(n + 1)) = n
    BY <1>1, <2>1, StepsAfter
  <2>3. Distance(Place(n + 1), head) = 0
    BY <1>1, <2>2, DistanceBetween
  <2> QED
    BY <1>1, <2>2, <2>3, DistanceStep
<1>5. Queued' = [k \in 1 .. n + 1 |-> buffer[Slot(Place(k))]]
  <2>1. \A k : Place(k)' = Place(k)
    BY <1>2 DEF Place
  <2> QED
    BY <1>2, <1>3, <2>1, QueuedIs
<1>6. /\ Queued \in Seq(Items \union {NoItem}) /\ Len(Queued) = n
      /\ \A k \in 1 .. n : Queued[k] = buffer[Slot(Place(k))]
  BY QueuedType DEF RingInv
<1> HIDE DEF n, x
<1>7. /\ Append(Queued, x) \in Seq(Items \union {NoItem}) /\ Len(Append(Queued, x)) = n + 1
      /\ \A k \in 1 .. n : Append(Queued, x)[k] = Queued[k]
      /\ Append(Queued, x)[n + 1] = x
  BY <1>1, <1>2, <1>6, AppendProperties
<1>8. /\ Queued' \in Seq(Items \union {NoItem}) /\ Len(Queued') = n + 1
      /\ \A k \in 1 .. n + 1 : Queued'[k] = Append(Queued, x)[k]
  <2>1. ASSUME NEW k \in 1 .. n + 1
        PROVE  /\ buffer[Slot(Place(k))] = Append(Queued, x)[k]
               /\ buffer[Slot(Place(k))] \in Items \union {NoItem}
    <3>1. CASE k \in 1 .. n
      <4>1. Queued[k] \in Items \union {NoItem}
        BY <1>6, <3>1, ElementOfSeq
      <4> QED
        BY <1>6, <1>7, <3>1, <4>1
    <3>2. CASE k = n + 1
      BY <1>2, <1>4, <1>7, <3>2
    <3>3. k \in 1 .. n \/ k = n + 1
      BY <1>1
    <3> QED
      BY <3>1, <3>2, <3>3
  <2>2. n + 1 \in Nat
    BY <1>1
  <2> DEFINE q == [k \in 1 .. n + 1 |-> buffer[Slot(Place(k))]]
  <2>3. \A k \in 1 .. n + 1 : q[k] = buffer[Slot(Place(k))]
    OBVIOUS
  <2>4. q \in [1 .. n + 1 -> Items \union {NoItem}]
    BY <2>1
  <2>5. Queued' = q
    BY <1>5
  <2> HIDE DEF q
  <2>6. q \in Seq(Items \union {NoItem}) /\ Len(q) = n + 1
    BY <2>2, <2>4, FunctionIsSeq
  <2> QED
    BY <2>1, <2>3, <2>5, <2>6
<1>9. Queued' = Append(Queued, x)
  BY <1>7, <1>8, SeqEqual
<1> QED
  BY <1>1, <1>2, <1>6, <1>9 DEF Queue!Put

(* The consumer takes the first queued item.                               *)
LEMMA ReadGets ==
  ASSUME RingAssumption, TypeOK, RingInv, ReadSlot
  PROVE  Queue!Get
<1> DEFINE n == Distance(tail, head)
<1>1. /\ First = tail /\ tail \in Indices /\ head \in Indices
      /\ n \in Nat /\ n > 0 /\ n <= Capacity
      /\ Capacity \in Nat
  BY FirstIs, Constants DEF ReadSlot, RingInv, TypeOK, First
<1>2. /\ First' = Successor(tail) /\ head' = head
      /\ consumer'.data = buffer[Slot(tail)]
  BY DEF ReadSlot, First
<1>3. /\ Queued \in Seq(Items \union {NoItem}) /\ Len(Queued) = n
      /\ \A k \in 1 .. n : Queued[k] = buffer[Slot(Place(k))]
  BY <1>1, QueuedType DEF RingInv
<1>4. Queued' = [k \in 1 .. n - 1 |-> buffer'[Slot(Place(k)')]]
  <2>1. tail # head
    BY <1>1, DistanceStep
  <2>2. Distance(First', head') = n - 1
    BY <1>1, <1>2, <2>1, DistanceStep
  <2> QED
    BY <2>2, QueuedIs
<1>5. Place(1) = tail
  <2>1. First + 1 - 1 = tail
    BY <1>1 DEF Indices
  <2> QED
    BY <1>1, <2>1, Remainder, Constants DEF Place
<1>6. ASSUME NEW k \in 1 .. n - 1
      PROVE  buffer'[Slot(Place(k)')] = Queued[k + 1]
  <2>1. k + 1 \in 1 .. n
    BY <1>1
  <2>2. /\ Place(k + 1) \in Indices /\ Slot(Place(k + 1)) \in 0 .. Capacity - 1
        /\ Distance(tail, Place(k + 1)) = k
    BY <1>1, <2>1, PlaceIs DEF RingInv
  <2>3. Slot(tail) # Slot(Place(k + 1))
    BY <1>1, <2>2, SlotsApart
  <2>4. buffer'[Slot(Place(k + 1))] = buffer[Slot(Place(k + 1))]
    BY <1>1, <2>2, <2>3 DEF ReadSlot, TypeOK
  <2>5. Place(k)' = Place(k + 1)
    <3>1. First' \in Indices /\ k - 1 \in Nat /\ k - 1 < Modulus
      BY <1>1, <1>2, SuccessorIs, Constants
    <3>2. First' + k - 1 = First' + (k - 1)
      BY <3>1 DEF Indices
    <3>3. Place(k)' \in Indices /\ Distance(First', Place(k)') = k - 1
      BY <3>1, <3>2, StepsAfter DEF Place
    <3>4. tail # Place(k + 1)
      BY <1>1, <2>2, DistanceStep
    <3>5. Distance(First', Place(k + 1)) = k - 1
      BY <1>1, <1>2, <2>2, <3>4, DistanceStep
    <3>6. Distance(Place(k)', Place(k + 1)) = 0
      BY <2>2, <3>1, <3>3, <3>5, DistanceBetween
    <3> QED
      BY <2>2, <3>3, <3>6, DistanceStep
  <2> QED
    BY <1>3, <2>1, <2>4, <2>5
<1> HIDE DEF n
<1>7. Queued # <<>> /\ Head(Queued) = buffer[Slot(tail)]
  BY <1>1, <1>3, <1>5, HeadTailProperties, EmptySeq
<1>8. Queued' = Tail(Queued)
  <2> DEFINE q == [k \in 1 .. n - 1 |-> Queued[k + 1]]
  <2>1. Queued' = q /\ \A k \in 1 .. n - 1 : q[k] = Queued[k + 1]
    BY <1>4, <1>6
  <2>2. q \in [1 .. n - 1 -> Items \union {NoItem}]
    <3>1. \A k \in 1 .. n - 1 : Queued[k + 1] \in Items \union {NoItem}
      BY <1>1, <1>3, ElementOfSeq
    <3> QED
      BY <3>1
  <2> HIDE DEF q
  <2>3. q \in Seq(Items \union {NoItem}) /\ Len(q) = n - 1
    BY <1>1, <2>2, FunctionIsSeq
  <2>4. /\ Tail(Queued) \in Seq(Items \union {NoItem}) /\ Len(Tail(Queued)) = n - 1
        /\ \A k \in 1 .. n - 1 : Tail(Queued)[k] = Queued[k + 1]
    BY <1>3, <1>7, HeadTailProperties
  <2>5. q = Tail(Queued)
    BY <2>1, <2>3, <2>4, SeqEqual
  <2> QED
    BY <2>1, <2>5
<1> QED
  BY <1>2, <1>7, <1>8 DEF Queue!Get

(* Every step of the ring is one of the queue's, or none.                  *)
LEMMA NextIsFifo ==
  ASSUME RingAssumption, TypeOK, RingInv, [Next]_vars
  PROVE  [Queue!Next]_<<Queued, consumer.data>>
<1>1. ASSUME First' = First, UNCHANGED <<head, buffer>>, consumer'.data = consumer.data
      PROVE  UNCHANGED <<Queued, consumer.data>>
  BY <1>1, QueuedKept
<1>2. CASE \/ \E x \in Items : CallPut(x)
           \/ CheckFull
           \/ TailSeen
           \/ HeadSeen
           \/ UNCHANGED vars
  BY <1>1, <1>2 DEF CallPut, CheckFull, TailSeen, HeadSeen, vars, First
<1>3. CASE WriteSlot
  BY <1>3, WriteQueued DEF WriteSlot, RingInv
<1>4. CASE StoreHead
  BY <1>4, StorePuts DEF Queue!Next
<1>5. CASE CheckEmpty
  <2>1. First' = First /\ consumer'.data = consumer.data
    BY <1>5 DEF CheckEmpty, First, TypeOK
  <2> QED
    BY <1>1, <1>5, <2>1 DEF CheckEmpty
<1>6. CASE ReadSlot
  BY <1>6, ReadGets DEF Queue!Next
<1>7. CASE StoreTail
  <2>1. First' = First /\ consumer'.data = consumer.data
    BY <1>7 DEF StoreTail, First, TypeOK
  <2> QED
    BY <1>1, <1>7, <2>1 DEF StoreTail
<1> QED
  BY <1>2, <1>3, <1>4, <1>5, <1>6, <1>7 DEF Next, Producer, Consumer

(* The ring is a bounded queue for every capacity, over any number of      *)
(* turns of its indices: what is put comes out once, unchanged and in      *)
(* order, and no more than Capacity items wait.                            *)
THEOREM RingFifoCorrect ==
  ASSUME RingAssumption
  PROVE  Spec => RingImplementsFifo
<1>1. Init => Queue!Init
  <2> SUFFICES ASSUME Init PROVE Queue!Init
    OBVIOUS
  <2>1. 0 \in Indices
    BY Constants DEF Indices
  <2>2. First = 0 /\ head = 0 /\ consumer.data = NoItem
    BY DEF Init, First
  <2>3. Distance(First, head) = 0
    BY <2>1, <2>2, DistanceStep
  <2>4. Queued = <<>>
    BY <2>3, QueuedIs
  <2> QED
    BY <2>2, <2>4 DEF Queue!Init
<1>2. TypeOK /\ RingInv /\ [Next]_vars => [Queue!Next]_<<Queued, consumer.data>>
  BY NextIsFifo
<1> QED
  BY <1>1, <1>2, RingTypeCorrect, RingInvCorrect, PTL DEF Spec, RingImplementsFifo, Queue!Spec

=============================================================================
