---------------------------- MODULE LFQueueProofs ----------------------------
(***************************************************************************)
(* LFQueue for every number of producers, consumers and nodes, overwriting *)
(* or not, with crashes anywhere: a node is never shared, the indices      *)
(* enclose the filled slots, and the queue implements Fifo.                *)
(***************************************************************************)
EXTENDS LFQueue, SequenceTheorems, FiniteSetTheorems, TLAPS

-----------------------------------------------------------------------------
(* Sequence numbers and slots.                                             *)

LEMMA CountIs ==
  ASSUME LFQueueAssumption
  PROVE  /\ Count \in Nat \ {0}
         /\ \A i \in Ids : i \in Nat /\ i < Count /\ i # Invalid
BY DEF LFQueueAssumption, Ids, Invalid

LEMMA RemainderIs ==
  ASSUME NEW m \in Nat \ {0}, NEW a \in Nat
  PROVE  /\ a % m \in 0 .. m - 1
         /\ a \div m \in Nat /\ a = (a \div m) * m + (a % m)
OBVIOUS

LEMMA RemainderOf ==
  ASSUME NEW m \in Nat \ {0}, NEW q \in Nat, NEW r \in 0 .. m - 1
  PROVE  (q * m + r) % m = r
OBVIOUS

LEMMA RemainderAgain ==
  ASSUME NEW m \in Nat \ {0}, NEW a \in Nat
  PROVE  (a + m) % m = a % m
<1> DEFINE q == a \div m
           r == a % m
<1>1. q \in Nat /\ r \in 0 .. m - 1 /\ a = q * m + r
  BY RemainderIs
<1> HIDE DEF q, r
<1>2. q + 1 \in Nat /\ a + m = (q + 1) * m + r
  BY <1>1
<1>3. ((q + 1) * m + r) % m = r
  BY <1>1, <1>2, RemainderOf
<1> QED
  BY <1>2, <1>3 DEF r

LEMMA SlotIs ==
  ASSUME LFQueueAssumption, NEW s \in Nat
  PROVE  Slot(s) \in Ids /\ Slot(s + Count) = Slot(s)
BY CountIs, RemainderIs, RemainderAgain DEF Slot, Ids

(* Count sequence numbers in a row have a slot each.                       *)
LEMMA SlotsDiffer ==
  ASSUME LFQueueAssumption, NEW s \in Nat, NEW u \in Nat, s < u, u < s + Count
  PROVE  Slot(s) # Slot(u)
<1>1. Count \in Nat \ {0}
  BY CountIs
<1>2. SUFFICES ASSUME s % Count = u % Count PROVE FALSE
  BY DEF Slot
<1> DEFINE a == s \div Count
           b == u \div Count
<1>3. /\ a \in Nat /\ b \in Nat
      /\ s = a * Count + (s % Count) /\ u = b * Count + (u % Count)
      /\ s % Count \in Int
  BY <1>1, RemainderIs
<1> HIDE DEF a, b
<1>4. u - s = b * Count - a * Count
  BY <1>1, <1>2, <1>3
<1>5. u - s = (b - a) * Count
  BY <1>1, <1>3, <1>4
<1>6. b - a >= 1
  BY <1>1, <1>3, <1>5
<1>7. (b - a) * Count >= Count
  BY <1>1, <1>3, <1>6
<1> QED
  BY <1>1, <1>5, <1>7

(* And every slot is that of one of them.                                  *)
LEMMA SlotsCover ==
  ASSUME LFQueueAssumption, NEW t \in Nat, NEW i \in Ids
  PROVE  \E s \in t .. t + Count - 1 : Slot(s) = i
<1>1. Count \in Nat \ {0} /\ i \in Nat /\ i < Count
  BY CountIs
<1> DEFINE q == t \div Count
           o == t % Count
           s == IF o <= i THEN q * Count + i ELSE (q + 1) * Count + i
<1>2. q \in Nat /\ o \in 0 .. Count - 1 /\ t = q * Count + o
  BY <1>1, RemainderIs
<1> HIDE DEF q, o
<1>3. s \in t .. t + Count - 1
  <2>1. q * Count \in Nat /\ (q + 1) * Count = q * Count + Count
    BY <1>1, <1>2
  <2> QED
    BY <1>1, <1>2, <2>1
<1>4. s % Count = i
  <2>1. \A n \in Nat : (n * Count + i) % Count = i
    BY <1>1, RemainderOf
  <2> QED
    BY <1>2, <2>1
<1> HIDE DEF s
<1> QED
  BY <1>3, <1>4 DEF Slot

-----------------------------------------------------------------------------
(* One ring.                                                               *)

(* The window of a ring: the sequence numbers t .. h - 1 are filled, those *)
(* up to t + Count - 1 are free, and each index is at its end of the       *)
(* filled ones or one step behind.  Nothing is taken before the head has   *)
(* passed it.                                                              *)
Window(r, t, h) ==
  /\ t \in {r.tail, r.tail + 1} /\ h \in {r.head, r.head + 1}
  /\ t <= r.head /\ h <= t + Count
  /\ \A s \in t .. h - 1 : r.nodes[Slot(s)].seq = s /\ r.nodes[Slot(s)].id \in Ids
  /\ \A s \in h .. t + Count - 1 : r.nodes[Slot(s)] = Node(s, Invalid)

LEMMA NodeIs == \A s, id : Node(s, id).seq = s /\ Node(s, id).id = id
BY DEF Node

(* A node of a ring with the window t, h.                                  *)
InWindow(node, t, h) ==
  /\ node.seq \in t .. t + Count - 1
  /\ node.seq < h => node.id \in Ids
  /\ node.seq >= h => node.id = Invalid

(* What a slot holds says which sequence number of the window it is for.   *)
LEMMA SlotHolds ==
  ASSUME LFQueueAssumption, NEW r, NEW t \in Nat, NEW h \in Nat, Window(r, t, h), NEW n \in Nat
  PROVE  InWindow(r.nodes[Slot(n)], t, h)
<1> DEFINE node == r.nodes[Slot(n)]
<1>1. Count \in Nat \ {0} /\ Slot(n) \in Ids
  BY CountIs, SlotIs
<1>2. PICK s \in t .. t + Count - 1 : Slot(s) = Slot(n)
  BY <1>1, SlotsCover
<1>3. CASE s < h
  <2>1. s \in t .. h - 1
    BY <1>1, <1>3
  <2>2. node.seq = s /\ node.id \in Ids
    BY <1>2, <2>1 DEF Window
  <2> QED
    BY <1>2, <1>3, <2>2 DEF InWindow
<1>4. CASE s >= h
  <2>1. s \in h .. t + Count - 1
    BY <1>1, <1>4
  <2>2. node = Node(s, Invalid)
    BY <1>2, <2>1 DEF Window
  <2>3. node.seq = s /\ node.id = Invalid
    BY <2>2 DEF Node
  <2> QED
    BY <1>2, <1>4, <2>3 DEF InWindow
<1> QED
  BY <1>1, <1>2, <1>3, <1>4 DEF InWindow

(* There is only one window.                                               *)
LEMMA WindowIs ==
  ASSUME LFQueueAssumption, NEW r \in RingType, NEW t \in Nat, NEW h \in Nat, Window(r, t, h)
  PROVE  NextTaken(r) = t /\ NextGiven(r) = h
<1>1. /\ Count \in Nat \ {0} /\ r.tail \in Nat /\ r.head \in Nat
      /\ t \in {r.tail, r.tail + 1} /\ h \in {r.head, r.head + 1} /\ t <= h /\ h <= t + Count
  BY CountIs DEF RingType, Window
<1>2. /\ \A s \in t .. t + Count - 1 : r.nodes[Slot(s)].seq = s
      /\ \A s \in h .. t + Count - 1 : r.nodes[Slot(s)].id = Invalid
      /\ \A s \in t .. h - 1 : r.nodes[Slot(s)].id # Invalid
  <2>1. \A s \in t .. h - 1 : r.nodes[Slot(s)].seq = s /\ r.nodes[Slot(s)].id # Invalid
    BY CountIs DEF Window
  <2>2. \A s \in h .. t + Count - 1 : r.nodes[Slot(s)].seq = s /\ r.nodes[Slot(s)].id = Invalid
    <3>1. \A s \in h .. t + Count - 1 : r.nodes[Slot(s)] = Node(s, Invalid)
      BY DEF Window
    <3> QED
      BY <3>1, NodeIs
  <2> QED
    BY <1>1, <2>1, <2>2
<1>3. NextTaken(r) = t
  <2>1. CASE t = r.tail
    BY <1>1, <1>2, <2>1 DEF NextTaken
  <2>2. CASE t = r.tail + 1
    <3>1. Slot(r.tail + Count) = Slot(r.tail) /\ r.tail + Count \in t .. t + Count - 1
      BY <1>1, <2>2, SlotIs
    <3>2. r.nodes[Slot(r.tail)].seq = r.tail + Count
      BY <1>2, <3>1
    <3> QED
      BY <1>1, <2>2, <3>2 DEF NextTaken
  <2> QED
    BY <1>1, <2>1, <2>2
<1>4. NextGiven(r) = h
  <2> DEFINE node == r.nodes[Slot(r.head)]
  <2>0. (node = Node(r.head, Invalid)) => node.seq = r.head /\ node.id = Invalid
    BY DEF Node
  <2>1. CASE h = r.head /\ h < t + Count
    <3>1. h \in h .. t + Count - 1
      BY <1>1, <2>1
    <3>2. node = Node(r.head, Invalid)
      BY <2>1, <3>1 DEF Window
    <3> QED
      BY <2>1, <3>2 DEF NextGiven
  <2>2. CASE h = r.head /\ h = t + Count
    <3>1. Slot(h) = Slot(t) /\ t \in t .. t + Count - 1 /\ t < h
      BY <1>1, <2>2, SlotIs
    <3>2. node.seq < r.head
      BY <1>2, <2>2, <3>1
    <3> QED
      BY <2>2, <3>2 DEF NextGiven
  <2>3. CASE h = r.head + 1 /\ t < h
    <3>1. r.head \in t .. h - 1 /\ r.head \in t .. t + Count - 1
      BY <1>1, <2>3
    <3>2. node.id # Invalid /\ node.seq = r.head
      BY <1>2, <3>1
    <3> QED
      BY <1>1, <2>0, <2>3, <3>2 DEF NextGiven
  <2>4. CASE h = r.head + 1 /\ t = h
    <3>1. Slot(r.head + Count) = Slot(r.head) /\ r.head + Count \in t .. t + Count - 1
      BY <1>1, <2>4, SlotIs
    <3>2. node.seq = r.head + Count
      BY <1>2, <3>1
    <3> QED
      BY <1>1, <2>0, <2>4, <3>2 DEF NextGiven
  <2> QED
    BY <1>1, <2>1, <2>2, <2>3, <2>4
<1> QED
  BY <1>3, <1>4

(* A ring that has a window.                                               *)
Windowed(r) == Window(r, NextTaken(r), NextGiven(r))

LEMMA NextIs ==
  ASSUME LFQueueAssumption, NEW r \in RingType
  PROVE  /\ r.head \in Nat /\ r.tail \in Nat
         /\ NextTaken(r) \in {r.tail, r.tail + 1} /\ NextTaken(r) \in Nat
         /\ NextGiven(r) \in {r.head, r.head + 1} /\ NextGiven(r) \in Nat
BY DEF RingType, NextTaken, NextGiven

(* A ring as LFRing_init leaves it.                                        *)
LEMMA RingOfHasWindow ==
  ASSUME LFQueueAssumption, NEW filled \in {0, Count}
  PROVE  RingOf(filled) \in RingType /\ Window(RingOf(filled), 0, filled)
<1> DEFINE r == RingOf(filled)
           nodes == [i \in Ids |-> Node(i, IF i < filled THEN i ELSE Invalid)]
<1>1. Count \in Nat \ {0} /\ \A i \in Ids : i \in Nat /\ i < Count
  BY CountIs
<1>2. r.head = filled /\ r.tail = 0 /\ r.nodes = nodes
  BY DEF RingOf
<1>3. nodes \in [Ids -> NodeType]
  <2>1. ASSUME NEW i \in Ids PROVE Node(i, IF i < filled THEN i ELSE Invalid) \in NodeType
    BY <1>1 DEF Node, NodeType, SomeId
  <2> QED
    BY <2>1
<1>4. r \in RingType
  BY <1>1, <1>3 DEF RingOf, RingType
<1>5. \A s \in Nat : s < Count => s \in Ids /\ Slot(s) = s
  BY <1>1, RemainderOf DEF Slot, Ids
<1>6. \A s \in 0 .. filled - 1 : r.nodes[Slot(s)].seq = s /\ r.nodes[Slot(s)].id \in Ids
  BY <1>1, <1>2, <1>5 DEF Node
<1>7. \A s \in filled .. 0 + Count - 1 : r.nodes[Slot(s)] = Node(s, Invalid)
  BY <1>1, <1>2, <1>5
<1> HIDE DEF r
<1>8. r \in RingType /\ Window(r, 0, filled)
  BY <1>1, <1>2, <1>4, <1>6, <1>7 DEF Window
<1> QED
  BY <1>8 DEF r

(* A slot of a ring is stored to, or an index moved on.                    *)
WithSlot(a, r, i, x) == [a EXCEPT ![r].nodes[i] = x]
WithTail(a, r, n) == [a EXCEPT ![r]["tail"] = n]
WithHead(a, r, n) == [a EXCEPT ![r]["head"] = n]

LEMMA SlotChange ==
  ASSUME NEW a \in [Names -> RingType], NEW r \in Names, NEW i \in Ids, NEW x \in NodeType,
         NEW b, b = WithSlot(a, r, i, x)
  PROVE  /\ b \in [Names -> RingType]
         /\ \A q \in Names : q # r => b[q] = a[q]
         /\ b[r].head = a[r].head /\ b[r].tail = a[r].tail
         /\ b[r].nodes = [a[r].nodes EXCEPT ![i] = x]
<1> DEFINE c == [a[r].nodes EXCEPT ![i] = x]
           d == [a[r] EXCEPT !.nodes = c]
<1>1. a[r] \in RingType
  OBVIOUS
<1>2. c \in [Ids -> NodeType]
  BY <1>1 DEF RingType
<1>3. d \in RingType /\ d.head = a[r].head /\ d.tail = a[r].tail /\ d.nodes = c
  <2> HIDE DEF c
  <2> QED
    BY <1>1, <1>2 DEF RingType
<1>4. b = [a EXCEPT ![r] = d]
  BY DEF WithSlot
<1> HIDE DEF d
<1> QED
  BY <1>3, <1>4

LEMMA TailChange ==
  ASSUME NEW a \in [Names -> RingType], NEW r \in Names, NEW n \in Nat,
         NEW b, b = WithTail(a, r, n)
  PROVE  /\ b \in [Names -> RingType]
         /\ \A q \in Names : q # r => b[q] = a[q]
         /\ b[r].head = a[r].head /\ b[r].tail = n /\ b[r].nodes = a[r].nodes
<1> DEFINE d == [a[r] EXCEPT !["tail"] = n]
<1>1. a[r] \in RingType
  OBVIOUS
<1>2. d \in RingType /\ d.head = a[r].head /\ d.tail = n /\ d.nodes = a[r].nodes
  BY <1>1 DEF RingType
<1>3. b = [a EXCEPT ![r] = d]
  BY DEF WithTail
<1> HIDE DEF d
<1> QED
  BY <1>2, <1>3

LEMMA HeadChange ==
  ASSUME NEW a \in [Names -> RingType], NEW r \in Names, NEW n \in Nat,
         NEW b, b = WithHead(a, r, n)
  PROVE  /\ b \in [Names -> RingType]
         /\ \A q \in Names : q # r => b[q] = a[q]
         /\ b[r].head = n /\ b[r].tail = a[r].tail /\ b[r].nodes = a[r].nodes
<1> DEFINE d == [a[r] EXCEPT !["head"] = n]
<1>1. a[r] \in RingType
  OBVIOUS
<1>2. d \in RingType /\ d.head = n /\ d.tail = a[r].tail /\ d.nodes = a[r].nodes
  BY <1>1 DEF RingType
<1>3. b = [a EXCEPT ![r] = d]
  BY DEF WithHead
<1> HIDE DEF d
<1> QED
  BY <1>2, <1>3

(* Taking the id of a slot whose sequence number the tail has reached.     *)
LEMMA TakeMovesWindow ==
  ASSUME LFQueueAssumption, NEW a \in RingType, NEW b \in RingType, Windowed(a), NEW s \in Nat,
         s <= a.tail, s < a.head, Filled(a.nodes[Slot(s)], s),
         b.head = a.head, b.tail = a.tail, b.nodes = [a.nodes EXCEPT ![Slot(s)] = Freed(s)]
  PROVE  /\ Windowed(b)
         /\ NextTaken(b) = NextTaken(a) + 1 /\ NextGiven(b) = NextGiven(a)
         /\ s = NextTaken(a) /\ s < NextGiven(a)
<1> DEFINE t == NextTaken(a)
           h == NextGiven(a)
<1>1. /\ t \in Nat /\ h \in Nat /\ t \in {a.tail, a.tail + 1} /\ h \in {a.head, a.head + 1}
      /\ a.tail \in Nat /\ a.head \in Nat /\ Count \in Nat \ {0} /\ Slot(s) \in Ids
  BY NextIs, CountIs, SlotIs
<1>2. Window(a, t, h) /\ t <= a.head /\ t <= h /\ h <= t + Count
  BY <1>1 DEF Windowed, Window
<1> HIDE DEF t, h
<1>3. s \in t .. t + Count - 1 /\ s < h
  <2>1. a.nodes[Slot(s)].seq = s /\ a.nodes[Slot(s)].id # Invalid
    BY DEF Filled
  <2>2. InWindow(a.nodes[Slot(s)], t, h)
    BY <1>1, <1>2, SlotHolds
  <2> QED
    BY <1>1, <2>1, <2>2 DEF InWindow
<1>4. s = t /\ a.tail = t /\ t < h
  BY <1>1, <1>3
<1>5. DOMAIN a.nodes = Ids
  BY DEF RingType
<1>6. b.nodes[Slot(t)] = Node(t + Count, Invalid) /\ \A i \in Ids : i # Slot(t) => b.nodes[i] = a.nodes[i]
  BY <1>1, <1>4, <1>5 DEF Freed
<1>7. \A u \in t + 1 .. t + Count - 1 : u \in Nat /\ Slot(u) \in Ids /\ Slot(u) # Slot(t)
  BY <1>1, SlotIs, SlotsDiffer
<1>8. \A u \in t + 1 .. h - 1 : b.nodes[Slot(u)].seq = u /\ b.nodes[Slot(u)].id \in Ids
  <2>1. ASSUME NEW u \in t + 1 .. h - 1 PROVE b.nodes[Slot(u)].seq = u /\ b.nodes[Slot(u)].id \in Ids
    <3>1. u \in t .. h - 1 /\ u \in t + 1 .. t + Count - 1
      BY <1>1, <1>2
    <3>2. a.nodes[Slot(u)].seq = u /\ a.nodes[Slot(u)].id \in Ids
      BY <1>2, <3>1 DEF Window
    <3> QED
      BY <1>6, <1>7, <3>1, <3>2
  <2> QED
    BY <2>1
<1>9. \A u \in h .. t + 1 + Count - 1 : b.nodes[Slot(u)] = Node(u, Invalid)
  <2>1. ASSUME NEW u \in h .. t + 1 + Count - 1 PROVE b.nodes[Slot(u)] = Node(u, Invalid)
    <3>1. CASE u = t + Count
      BY <1>1, <1>6, <3>1, SlotIs
    <3>2. CASE u # t + Count
      <4>1. u \in h .. t + Count - 1 /\ u \in t + 1 .. t + Count - 1
        BY <1>1, <1>4, <3>2
      <4>2. a.nodes[Slot(u)] = Node(u, Invalid)
        BY <1>2, <4>1 DEF Window
      <4> QED
        BY <1>6, <1>7, <4>1, <4>2
    <3> QED
      BY <3>1, <3>2
  <2> QED
    BY <2>1
<1>10. Window(b, t + 1, h)
  BY <1>1, <1>2, <1>4, <1>8, <1>9 DEF Window
<1>11. t + 1 \in Nat
  BY <1>1
<1>12. NextTaken(b) = t + 1 /\ NextGiven(b) = h
  BY <1>1, <1>10, <1>11, WindowIs
<1>13. Windowed(b)
  BY <1>10, <1>12 DEF Windowed
<1> QED
  BY <1>4, <1>12, <1>13 DEF t, h

(* Giving an id to the free slot of a sequence number the head has         *)
(* reached.                                                                *)
LEMMA GiveMovesWindow ==
  ASSUME LFQueueAssumption, NEW a \in RingType, NEW b \in RingType, Windowed(a), NEW s \in Nat,
         NEW id \in Ids, s <= a.head, a.nodes[Slot(s)] = Node(s, Invalid),
         b.head = a.head, b.tail = a.tail, b.nodes = [a.nodes EXCEPT ![Slot(s)] = Node(s, id)]
  PROVE  /\ Windowed(b)
         /\ NextTaken(b) = NextTaken(a) /\ NextGiven(b) = NextGiven(a) + 1
         /\ s = NextGiven(a) /\ s < NextTaken(a) + Count
<1> DEFINE t == NextTaken(a)
           h == NextGiven(a)
<1>1. /\ t \in Nat /\ h \in Nat /\ t \in {a.tail, a.tail + 1} /\ h \in {a.head, a.head + 1}
      /\ a.tail \in Nat /\ a.head \in Nat /\ Count \in Nat \ {0} /\ Slot(s) \in Ids
  BY NextIs, CountIs, SlotIs
<1>2. Window(a, t, h) /\ t <= a.head /\ t <= h /\ h <= t + Count
  BY <1>1 DEF Windowed, Window
<1> HIDE DEF t, h
<1>3. s \in t .. t + Count - 1 /\ s >= h
  <2>1. a.nodes[Slot(s)].seq = s /\ a.nodes[Slot(s)].id = Invalid
    BY NodeIs
  <2>2. InWindow(a.nodes[Slot(s)], t, h)
    BY <1>1, <1>2, SlotHolds
  <2> QED
    BY <1>1, <2>1, <2>2, CountIs DEF InWindow
<1>4. s = h /\ a.head = h /\ h < t + Count
  BY <1>1, <1>3
<1>5. DOMAIN a.nodes = Ids
  BY DEF RingType
<1>6. b.nodes[Slot(h)] = Node(h, id) /\ \A i \in Ids : i # Slot(h) => b.nodes[i] = a.nodes[i]
  BY <1>1, <1>4, <1>5
<1>7. \A u \in t .. t + Count - 1 : u \in Nat /\ Slot(u) \in Ids /\ (u # h => Slot(u) # Slot(h))
  <2>1. ASSUME NEW u \in t .. t + Count - 1, u # h PROVE Slot(u) # Slot(h)
    <3>1. u \in Nat /\ ((u < h /\ h < u + Count) \/ (h < u /\ u < h + Count))
      BY <1>1, <1>2, <1>4, <2>1
    <3> QED
      BY <1>1, <3>1, SlotsDiffer
  <2> QED
    BY <1>1, <2>1, SlotIs
<1>8. \A u \in t .. h + 1 - 1 : b.nodes[Slot(u)].seq = u /\ b.nodes[Slot(u)].id \in Ids
  <2>1. ASSUME NEW u \in t .. h + 1 - 1 PROVE b.nodes[Slot(u)].seq = u /\ b.nodes[Slot(u)].id \in Ids
    <3>1. CASE u = h
      BY <1>6, <3>1, NodeIs
    <3>2. CASE u # h
      <4>1. u \in t .. h - 1 /\ u \in t .. t + Count - 1
        BY <1>1, <1>2, <3>2
      <4>2. a.nodes[Slot(u)].seq = u /\ a.nodes[Slot(u)].id \in Ids
        BY <1>2, <4>1 DEF Window
      <4> QED
        BY <1>6, <1>7, <3>2, <4>1, <4>2
    <3> QED
      BY <3>1, <3>2
  <2> QED
    BY <2>1
<1>9. \A u \in h + 1 .. t + Count - 1 : b.nodes[Slot(u)] = Node(u, Invalid)
  <2>1. ASSUME NEW u \in h + 1 .. t + Count - 1 PROVE b.nodes[Slot(u)] = Node(u, Invalid)
    <3>1. u \in h .. t + Count - 1 /\ u \in t .. t + Count - 1 /\ u # h
      BY <1>1, <1>2
    <3>2. a.nodes[Slot(u)] = Node(u, Invalid)
      BY <1>2, <3>1 DEF Window
    <3> QED
      BY <1>6, <1>7, <3>1, <3>2
  <2> QED
    BY <2>1
<1>10. Window(b, t, h + 1)
  BY <1>1, <1>2, <1>4, <1>8, <1>9 DEF Window
<1>11. h + 1 \in Nat
  BY <1>1
<1>12. NextTaken(b) = t /\ NextGiven(b) = h + 1
  BY <1>1, <1>10, <1>11, WindowIs
<1>13. Windowed(b)
  BY <1>10, <1>12 DEF Windowed
<1> QED
  BY <1>4, <1>12, <1>13 DEF t, h

(* An index that is behind is moved on.                                    *)
LEMMA IndexMoves ==
  ASSUME LFQueueAssumption, NEW a \in RingType, NEW b \in RingType, Windowed(a),
         b.nodes = a.nodes,
         b.head = a.head \/ (b.head = a.head + 1 /\ a.head < NextGiven(a)),
         b.tail = a.tail \/ (b.tail = a.tail + 1 /\ a.tail < NextTaken(a))
  PROVE  /\ Windowed(b)
         /\ NextTaken(b) = NextTaken(a) /\ NextGiven(b) = NextGiven(a)
<1> DEFINE t == NextTaken(a)
           h == NextGiven(a)
<1>1. /\ t \in Nat /\ h \in Nat /\ t \in {a.tail, a.tail + 1} /\ h \in {a.head, a.head + 1}
      /\ a.tail \in Nat /\ a.head \in Nat
  BY NextIs
<1>2. Window(a, t, h)
  BY DEF Windowed
<1> HIDE DEF t, h
<1>3. t \in {b.tail, b.tail + 1} /\ h \in {b.head, b.head + 1} /\ t <= b.head
  BY <1>1, <1>2 DEF t, h, Window
<1>4. Window(b, t, h)
  BY <1>2, <1>3 DEF Window
<1>5. NextTaken(b) = t /\ NextGiven(b) = h
  BY <1>1, <1>4, WindowIs
<1>6. Windowed(b)
  BY <1>4, <1>5 DEF Windowed
<1> QED
  BY <1>5, <1>6 DEF t, h

-----------------------------------------------------------------------------
(* The local variables of a process, after the updates of a step.          *)

LEMMA NodeInType ==
  ASSUME LFQueueAssumption, NEW s \in Nat, NEW id \in SomeId
  PROVE  Node(s, id) \in NodeType
BY DEF Node, NodeType

LEMMA ZeroNode ==
  ASSUME LFQueueAssumption
  PROVE  Node(0, 0) \in NodeType
BY CountIs, NodeInType DEF Ids, SomeId

LEMMA IdleIs ==
  ASSUME LFQueueAssumption
  PROVE  Idle \in Local /\ Idle.at = "idle" /\ Idle.id = Invalid
<1>1. Node(0, 0) \in NodeType /\ Invalid \in SomeId /\ NoItem \in SomeItem
  BY ZeroNode DEF SomeId, SomeItem
<1> QED
  BY <1>1 DEF Idle, Local, Phases, Names, MaxBusyLoop

LEMMA BusyIs == 0 \in 0 .. MaxBusyLoop - 1
BY DEF MaxBusyLoop

LEMMA PoppingIs ==
  ASSUME LFQueueAssumption, NEW l \in Local, NEW r \in Names
  PROVE  /\ Popping(l, r) \in Local
         /\ Popping(l, r).at = "tail" /\ Popping(l, r).ring = r
         /\ Popping(l, r).id = l.id /\ Popping(l, r).item = l.item
<1>1. Node(0, 0) \in NodeType /\ 0 \in 0 .. MaxBusyLoop - 1 /\ "tail" \in Phases
  BY ZeroNode, BusyIs DEF Phases
<1> QED
  BY <1>1 DEF Popping, Local

LEMMA PushingIs ==
  ASSUME LFQueueAssumption, NEW l \in Local, NEW r \in Names
  PROVE  /\ Pushing(l, r) \in Local
         /\ Pushing(l, r).at = "head" /\ Pushing(l, r).ring = r
         /\ Pushing(l, r).id = l.id /\ Pushing(l, r).item = l.item
<1>1. Node(0, 0) \in NodeType /\ 0 \in 0 .. MaxBusyLoop - 1 /\ "head" \in Phases
  BY ZeroNode, BusyIs DEF Phases
<1> QED
  BY <1>1 DEF Pushing, Local

LEMMA ItemIs ==
  ASSUME NEW l \in Local, NEW x \in SomeItem, NEW m, m = [l EXCEPT !.item = x]
  PROVE  m \in Local /\ m.at = l.at /\ m.ring = l.ring /\ m.id = l.id /\ m.item = x
BY DEF Local

LEMMA AtIs ==
  ASSUME NEW l \in Local, NEW a \in Phases, NEW m, m = [l EXCEPT !.at = a]
  PROVE  /\ m \in Local /\ m.at = a /\ m.ring = l.ring /\ m.id = l.id /\ m.item = l.item
         /\ m.seq = l.seq /\ m.node = l.node
BY DEF Local

LEMMA SeenIs ==
  ASSUME NEW l \in Local, NEW n \in NodeType, NEW m, m = [l EXCEPT !.at = "take", !.node = n]
  PROVE  /\ m \in Local /\ m.at = "take" /\ m.ring = l.ring /\ m.id = l.id /\ m.item = l.item
         /\ m.seq = l.seq /\ m.node = n
BY DEF Local, Phases

LEMMA TookIs ==
  ASSUME LFQueueAssumption, NEW l \in Local, NEW id \in SomeId, NEW m,
         m = [l EXCEPT !.at = "tailEnd", !.id = id, !.node = Node(0, 0), !.true = l.seq]
  PROVE  /\ m \in Local /\ m.at = "tailEnd" /\ m.ring = l.ring /\ m.id = id /\ m.item = l.item
         /\ m.seq = l.seq
BY ZeroNode DEF Local, Phases

LEMMA LostIs ==
  ASSUME LFQueueAssumption, NEW l \in Local, NEW m, m = [l EXCEPT !.node = Node(0, 0)]
  PROVE  /\ m \in Local /\ m.at = l.at /\ m.ring = l.ring /\ m.id = l.id /\ m.item = l.item
BY ZeroNode DEF Local

LEMMA OwnsIs ==
  ASSUME LFQueueAssumption, NEW l \in Local, NEW n \in Nat, NEW m,
         m = [l EXCEPT !.at = "owns", !.out = n, !.seq = 0, !.expired = Node(0, 0), !.busy = 0]
  PROVE  m \in Local /\ m.at = "owns" /\ m.ring = l.ring /\ m.id = l.id /\ m.item = l.item
<1>1. Node(0, 0) \in NodeType /\ 0 \in 0 .. MaxBusyLoop - 1 /\ "owns" \in Phases
  BY ZeroNode, BusyIs DEF Phases
<1> QED
  BY <1>1 DEF Local

LEMMA GaveIs ==
  ASSUME NEW l \in Local, NEW n \in Nat, NEW m,
         m = [l EXCEPT !.at = "headEnd", !.id = Invalid, !.true = n]
  PROVE  m \in Local /\ m.at = "headEnd" /\ m.ring = l.ring /\ m.id = Invalid /\ m.seq = l.seq
BY DEF Local, Phases, SomeId

LEMMA ReturnedIs ==
  ASSUME NEW l \in Local, NEW n \in Nat, NEW k \in Nat, NEW m, m = [l EXCEPT !.true = n, !.out = k]
  PROVE  m \in Local /\ m.at = l.at /\ m.ring = l.ring /\ m.id = l.id
BY DEF Local

(* Another look in the same call.                                          *)
Looks(l, m) ==
  m \in Local /\ m.ring = l.ring /\ m.id = l.id /\ m.item = l.item /\ m.seq = l.seq

(* LookAgain goes back to the start of the loop, or on to the repair.      *)
LEMMA LookAgainIs ==
  ASSUME LFQueueAssumption, process \in [Processes -> Local], NEW p \in Processes,
         NEW n \in NodeType, NEW from \in Phases, NEW fix \in Phases
  PROVE  /\ Looks(process[p], LookAgain(p, n, from, fix))
         /\ LookAgain(p, n, from, fix).at \in {from, fix}
<1> DEFINE l == process[p]
<1>1. l \in Local
  OBVIOUS
<1>2. LookAgain(p, n, from, fix) =
        IF l.expired # n THEN [l EXCEPT !.at = from, !.expired = n, !.busy = 0]
        ELSE IF l.busy + 1 < MaxBusyLoop THEN [l EXCEPT !.at = from, !.busy = @ + 1]
        ELSE [l EXCEPT !.at = fix, !.expired = Node(0, 0), !.busy = 0]
  BY DEF LookAgain
<1> HIDE DEF l
<1>3. ASSUME NEW m, m = [l EXCEPT !.at = from, !.expired = n, !.busy = 0]
      PROVE  Looks(l, m) /\ m.at = from
  BY <1>1, <1>3, BusyIs DEF Local, Looks
<1>4. ASSUME NEW m, m = [l EXCEPT !.at = from, !.busy = @ + 1], l.busy + 1 < MaxBusyLoop
      PROVE  Looks(l, m) /\ m.at = from
  <2>1. l.busy + 1 \in 0 .. MaxBusyLoop - 1
    BY <1>1, <1>4 DEF Local, MaxBusyLoop
  <2> QED
    BY <1>1, <1>4, <2>1 DEF Local, Looks
<1>5. ASSUME NEW m, m = [l EXCEPT !.at = fix, !.expired = Node(0, 0), !.busy = 0]
      PROVE  Looks(l, m) /\ m.at = fix
  BY <1>1, <1>5, BusyIs, ZeroNode DEF Local, Looks
<1>6. CASE l.expired # n
  BY <1>2, <1>3, <1>6 DEF l
<1>7. CASE l.expired = n /\ l.busy + 1 < MaxBusyLoop
  BY <1>2, <1>4, <1>7 DEF l
<1>8. CASE l.expired = n /\ ~ (l.busy + 1 < MaxBusyLoop)
  BY <1>2, <1>5, <1>8 DEF l
<1> QED
  BY <1>6, <1>7, <1>8

-----------------------------------------------------------------------------
(* The inductive invariant.                                                *)

(* No id is in two slots.                                                  *)
Distinct(a) ==
  \A r, q \in Names, i, j \in Ids :
    a[r].nodes[i].id = a[q].nodes[j].id /\ a[r].nodes[i].id # Invalid => r = q /\ i = j

LEMMA DistinctStays ==
  ASSUME NEW a, NEW b, Distinct(a), \A r \in Names, i \in Ids : b[r].nodes[i] = a[r].nodes[i]
  PROVE  Distinct(b)
<1> SUFFICES ASSUME NEW r \in Names, NEW q \in Names, NEW i \in Ids, NEW j \in Ids,
                    b[r].nodes[i].id = b[q].nodes[j].id, b[r].nodes[i].id # Invalid
             PROVE  r = q /\ i = j
  BY DEF Distinct
<1>1. b[r].nodes[i] = a[r].nodes[i] /\ b[q].nodes[j] = a[q].nodes[j]
  OBVIOUS
<1>2. a[r].nodes[i].id = a[q].nodes[j].id /\ a[r].nodes[i].id # Invalid
  BY <1>1
<1> QED
  BY <1>2 DEF Distinct

RingsInv(a) == Distinct(a) /\ \A r \in Names : Windowed(a[r])

(* The id a process holds is in no slot, and no other process holds it.    *)
HeldOnce ==
  \A p \in Processes : process[p].id # Invalid =>
    /\ \A r \in Names, i \in Ids : ring[r].nodes[i].id # process[p].id
    /\ \A q \in Processes : process[q].id = process[p].id => q = p

(* A process holds an id from its compare-and-swap of a slot of one ring   *)
(* to that of the other.                                                   *)
EmptyHanded ==
  {"idle", "again", "crashed", "tail", "compare", "filled", "take", "fixTail", "headEnd"}

(* What the local variables l of a process say of the ring r it works on:  *)
(* an index it loaded is not ahead, and it moves one on, its own or for    *)
(* another, only after the slot has changed.                               *)
LocalInv(l, r) ==
  /\ l.id = Invalid <=> l.at \in EmptyHanded
  /\ l.at \in {"compare", "filled", "take", "fixTail", "tailEnd"} => l.seq <= r.tail
  /\ l.at \in {"filled", "take"} => l.seq < r.head
  /\ l.at = "take" => Filled(l.node, l.seq)
  /\ l.at \in {"fixTail", "tailEnd"} => l.seq < NextTaken(r)
  /\ l.at \in {"free", "give", "fixHead", "headEnd"} => l.seq <= r.head
  /\ l.at \in {"fixHead", "headEnd"} => l.seq < NextGiven(r)

LocalsInv == \A p \in Processes : LocalInv(process[p], ring[process[p].ring])

(* A producer gives a node with its item to the filled ring, a consumer    *)
(* gives one back to the other.                                            *)
Taking == {"tail", "compare", "filled", "take", "fixTail", "tailEnd", "owns"}
Giving == {"head", "free", "give", "fixHead"}

ItemInv(p, l, d) ==
  /\ p \in Producers /\ l.at \in Taking => l.item \in Items
  /\ p \in Producers /\ l.at \in Giving =>
       l.item \in Items /\ l.ring = "node" /\ d[l.id] = l.item
  /\ p \in Consumers /\ l.at \in Giving => l.ring = "resc"

ItemsInv == \A p \in Processes : ItemInv(p, process[p], data)

NodeInv ==
  /\ RingsInv(ring) /\ HeldOnce /\ LocalsInv /\ ItemsInv
  /\ saved # <<>> => RingsInv(saved[1].ring)

(* A process only moves on: it holds what it held, unless it crashes.      *)
Moves(p) ==
  \E m \in Local :
    /\ process' = [process EXCEPT ![p] = m]
    /\ m.id = process[p].id \/ (m.id = Invalid /\ crashes' # crashes)
    /\ LocalInv(m, ring[m.ring]) /\ ItemInv(p, m, data)

LEMMA LocalOf ==
  ASSUME LFQueueAssumption, TypeOK, NodeInv, NEW p \in Processes
  PROVE  /\ process[p] \in Local /\ process[p].ring \in Names /\ process[p].seq \in Nat
         /\ process[p].node \in NodeType /\ process[p].id \in SomeId
         /\ process[p].item \in SomeItem /\ process[p].true \in Nat /\ process[p].out \in Nat
         /\ LocalInv(process[p], ring[process[p].ring]) /\ ItemInv(p, process[p], data)
         /\ Mine(p) = ring[process[p].ring] /\ Mine(p) \in RingType /\ Windowed(Mine(p))
         /\ Mine(p).head \in Nat /\ Mine(p).tail \in Nat
         /\ \A s \in Nat : Mine(p).nodes[Slot(s)] \in NodeType
<1>1. process[p] \in Local /\ ring \in [Names -> RingType]
  BY DEF TypeOK
<1>2. /\ process[p].ring \in Names /\ process[p].seq \in Nat
      /\ process[p].node \in NodeType /\ process[p].id \in SomeId
      /\ process[p].item \in SomeItem /\ process[p].true \in Nat /\ process[p].out \in Nat
  BY <1>1 DEF Local
<1>3. Mine(p) = ring[process[p].ring] /\ Mine(p) \in RingType /\ Windowed(Mine(p))
  BY <1>1, <1>2 DEF Mine, NodeInv, RingsInv
<1>4. LocalInv(process[p], ring[process[p].ring]) /\ ItemInv(p, process[p], data)
  BY DEF NodeInv, LocalsInv, ItemsInv
<1>5. Mine(p).head \in Nat /\ Mine(p).tail \in Nat /\ Mine(p).nodes \in [Ids -> NodeType]
  BY <1>3 DEF RingType
<1> QED
  BY <1>1, <1>2, <1>3, <1>4, <1>5, SlotIs

(* A slot at the tail that is not filled has been taken already.           *)
LEMMA NotFilledIsTaken ==
  ASSUME LFQueueAssumption, NEW r \in RingType, Windowed(r), NEW s \in Nat,
         s <= r.tail, s < r.head, ~ Filled(r.nodes[Slot(s)], s)
  PROVE  s < NextTaken(r)
<1> DEFINE t == NextTaken(r)
           h == NextGiven(r)
<1>1. /\ t \in Nat /\ h \in Nat /\ t \in {r.tail, r.tail + 1} /\ h \in {r.head, r.head + 1}
      /\ r.tail \in Nat /\ r.head \in Nat
  BY NextIs
<1>2. \A u \in t .. h - 1 : r.nodes[Slot(u)].seq = u /\ r.nodes[Slot(u)].id \in Ids
  BY DEF Windowed, Window
<1> HIDE DEF t, h
<1>3. ASSUME s >= t PROVE FALSE
  <2>1. s \in t .. h - 1
    BY <1>1, <1>3
  <2> QED
    BY <1>2, <2>1, CountIs DEF Filled
<1> QED
  BY <1>1, <1>3 DEF t

(* A ring is not full while a process holds an id that is not in it.       *)
LEMMA NotFull ==
  ASSUME LFQueueAssumption, NEW a \in [Names -> RingType], RingsInv(a), NEW r \in Names,
         NEW id \in Ids, \A i \in Ids : a[r].nodes[i].id # id
  PROVE  NextGiven(a[r]) < NextTaken(a[r]) + Count
<1> DEFINE t == NextTaken(a[r])
           h == NextGiven(a[r])
<1>1. t \in Nat /\ h \in Nat /\ Count \in Nat \ {0}
  BY NextIs, CountIs
<1>2. h <= t + Count
  BY DEF RingsInv, Windowed, Window
<1>3. ASSUME h = t + Count PROVE FALSE
  <2>1. \A s \in t .. t + Count - 1 : a[r].nodes[Slot(s)].id \in Ids
    BY <1>1, <1>3 DEF RingsInv, Windowed, Window
  <2>2. \A i \in Ids : a[r].nodes[i].id \in Ids \ {id}
    BY <1>1, <2>1, SlotsCover
  <2> DEFINE f == [i \in Ids |-> a[r].nodes[i].id]
  <2>3. f \in [Ids -> Ids \ {id}]
    BY <2>2
  <2>4. IsFiniteSet(Ids) /\ Cardinality(Ids) = Count
    <3>1. 0 \in Int /\ Count - 1 \in Int
      BY <1>1
    <3>2. /\ IsFiniteSet(0 .. Count - 1)
          /\ Cardinality(0 .. Count - 1) = IF 0 > Count - 1 THEN 0 ELSE (Count - 1) - 0 + 1
      BY <3>1, FS_Interval
    <3> QED
      BY <1>1, <3>2 DEF Ids
  <2>5. IsFiniteSet(Ids \ {id}) /\ Cardinality(Ids \ {id}) = Count - 1
    BY <2>4, FS_RemoveElement
  <2>6. \E i, j \in Ids : i # j /\ f[i] = f[j]
    <3>1. Cardinality(Ids \ {id}) < Cardinality(Ids)
      BY <1>1, <2>4, <2>5
    <3> HIDE DEF f
    <3> QED
      BY <2>3, <2>4, <2>5, <3>1, FS_PigeonHole
  <2> QED
    BY <2>2, <2>6, CountIs DEF RingsInv, Distinct
<1> QED
  BY <1>1, <1>2, <1>3

(* A slot at the head that is not free has been given already.             *)
LEMMA NotFreeIsGiven ==
  ASSUME LFQueueAssumption, NEW a \in [Names -> RingType], RingsInv(a), NEW r \in Names,
         NEW id \in Ids, \A i \in Ids : a[r].nodes[i].id # id, NEW s \in Nat,
         s <= a[r].head, a[r].nodes[Slot(s)] # Node(s, Invalid)
  PROVE  s < NextGiven(a[r])
<1> DEFINE t == NextTaken(a[r])
           h == NextGiven(a[r])
<1>1. /\ t \in Nat /\ h \in Nat /\ h \in {a[r].head, a[r].head + 1} /\ a[r].head \in Nat
      /\ Count \in Nat \ {0}
  BY NextIs, CountIs
<1>2. \A u \in h .. t + Count - 1 : a[r].nodes[Slot(u)] = Node(u, Invalid)
  BY DEF RingsInv, Windowed, Window
<1>3. h < t + Count
  BY NotFull
<1> HIDE DEF t, h
<1>4. ASSUME s >= h PROVE FALSE
  <2>1. s \in h .. t + Count - 1
    BY <1>1, <1>3, <1>4
  <2> QED
    BY <1>2, <2>1
<1> QED
  BY <1>1, <1>4 DEF h

-----------------------------------------------------------------------------
(* Steps of a process that store neither to a slot nor to a node.          *)

(* Indices that are behind may be moved on.                                *)
IndicesMove ==
  /\ ring' \in [Names -> RingType]
  /\ \A r \in Names :
       /\ ring'[r].nodes = ring[r].nodes
       /\ \/ ring'[r].head = ring[r].head
          \/ ring'[r].head = ring[r].head + 1 /\ ring[r].head < NextGiven(ring[r])
       /\ \/ ring'[r].tail = ring[r].tail
          \/ ring'[r].tail = ring[r].tail + 1 /\ ring[r].tail < NextTaken(ring[r])

(* What a process knows of a ring stays true.                              *)
LEMMA LocalStays ==
  ASSUME LFQueueAssumption, NEW l \in Local, NEW a \in RingType, NEW b \in RingType,
         LocalInv(l, a), a.head <= b.head, a.tail <= b.tail,
         NextTaken(a) <= NextTaken(b), NextGiven(a) <= NextGiven(b)
  PROVE  LocalInv(l, b)
<1>1. /\ a.head \in Nat /\ a.tail \in Nat /\ NextTaken(a) \in Nat /\ NextGiven(a) \in Nat
      /\ b.head \in Nat /\ b.tail \in Nat /\ NextTaken(b) \in Nat /\ NextGiven(b) \in Nat
      /\ l.seq \in Nat
  BY NextIs DEF Local
<1> QED
  BY <1>1 DEF LocalInv

LEMMA MovesKeep ==
  ASSUME LFQueueAssumption, TypeOK, NodeInv, NEW p \in Processes, Moves(p),
         IndicesMove, data' = data, saved' = saved
  PROVE  /\ process' \in [Processes -> Local] /\ NodeInv'
         /\ \A r \in Names : /\ NextTaken(ring'[r]) = NextTaken(ring[r])
                             /\ NextGiven(ring'[r]) = NextGiven(ring[r])
<1>1. PICK m \in Local :
        /\ process' = [process EXCEPT ![p] = m] /\ m.id \in {process[p].id, Invalid}
        /\ LocalInv(m, ring[m.ring]) /\ ItemInv(p, m, data)
  BY DEF Moves
<1>2. process \in [Processes -> Local] /\ ring \in [Names -> RingType] /\ ring' \in [Names -> RingType]
  BY DEF TypeOK, IndicesMove
<1>3. process'[p] = m /\ \A q \in Processes : q # p => process'[q] = process[q]
  BY <1>1, <1>2
<1>4. process' \in [Processes -> Local]
  BY <1>1, <1>2
<1>5. ASSUME NEW r \in Names
      PROVE  /\ Windowed(ring'[r])
             /\ NextTaken(ring'[r]) = NextTaken(ring[r]) /\ NextGiven(ring'[r]) = NextGiven(ring[r])
  <2> DEFINE a == ring[r]
             b == ring'[r]
  <2>1. a \in RingType /\ b \in RingType /\ Windowed(a)
    BY <1>2 DEF NodeInv, RingsInv
  <2>2. b.nodes = a.nodes
    BY DEF IndicesMove
  <2>3. b.head = a.head \/ (b.head = a.head + 1 /\ a.head < NextGiven(a))
    BY DEF IndicesMove
  <2>4. b.tail = a.tail \/ (b.tail = a.tail + 1 /\ a.tail < NextTaken(a))
    BY DEF IndicesMove
  <2> HIDE DEF a, b
  <2>5. Windowed(b) /\ NextTaken(b) = NextTaken(a) /\ NextGiven(b) = NextGiven(a)
    BY <2>1, <2>2, <2>3, <2>4, IndexMoves
  <2> QED
    BY <2>5 DEF a, b
<1>6. \A r \in Names, i \in Ids : ring'[r].nodes[i] = ring[r].nodes[i]
  BY DEF IndicesMove
<1>7. Distinct(ring')
  <2>1. Distinct(ring)
    BY DEF NodeInv, RingsInv
  <2>2. PICK a, b : a = ring /\ b = ring'
    OBVIOUS
  <2>3. Distinct(a) /\ \A r \in Names, i \in Ids : b[r].nodes[i] = a[r].nodes[i]
    BY <1>6, <2>1, <2>2
  <2>4. Distinct(b)
    BY <2>3, DistinctStays
  <2> QED
    BY <2>2, <2>4
<1>8. RingsInv(ring')
  BY <1>5, <1>7 DEF RingsInv
<1>9. HeldOnce'
  BY <1>1, <1>3, <1>6 DEF HeldOnce, NodeInv
<1>10. LocalsInv'
  <2>1. ASSUME NEW l \in Local, LocalInv(l, ring[l.ring]) PROVE LocalInv(l, ring'[l.ring])
    <3>1. PICK r \in Names : l.ring = r
      BY DEF Local
    <3>2. /\ ring[r] \in RingType /\ ring'[r] \in RingType
          /\ ring[r].head \in Nat /\ ring[r].tail \in Nat
          /\ NextTaken(ring[r]) \in Nat /\ NextGiven(ring[r]) \in Nat
      BY <1>2, NextIs
    <3>3. ring[r].head <= ring'[r].head /\ ring[r].tail <= ring'[r].tail
      BY <3>2 DEF IndicesMove
    <3>4. NextTaken(ring[r]) <= NextTaken(ring'[r]) /\ NextGiven(ring[r]) <= NextGiven(ring'[r])
      BY <1>5, <3>2
    <3>5. LocalInv(l, ring[r])
      BY <2>1, <3>1
    <3> QED
      BY <3>1, <3>2, <3>3, <3>4, <3>5, LocalStays
  <2>2. \A q \in Processes : process'[q] \in Local /\ LocalInv(process'[q], ring[process'[q].ring])
    BY <1>1, <1>2, <1>3 DEF LocalsInv, NodeInv
  <2> QED
    BY <2>1, <2>2 DEF LocalsInv
<1>11. ItemsInv'
  BY <1>1, <1>3 DEF ItemsInv, NodeInv
<1>12. NodeInv'
  BY <1>8, <1>9, <1>10, <1>11 DEF NodeInv
<1> QED
  BY <1>4, <1>5, <1>12

LEMMA NoIndexMoves ==
  ASSUME TypeOK, ring' = ring
  PROVE  IndicesMove
BY DEF TypeOK, IndicesMove

LEMMA TailMoves ==
  ASSUME LFQueueAssumption, TypeOK, NEW r \in Names, NEW s \in Nat, s < NextTaken(ring[r]),
         Advance(r, "tail", s)
  PROVE  IndicesMove
<1>1. CASE ring[r].tail = s
  <2>1. ring' = WithTail(ring, r, s + 1) /\ ring \in [Names -> RingType] /\ s + 1 \in Nat
    BY <1>1 DEF Advance, WithTail, TypeOK
  <2>2. /\ ring' \in [Names -> RingType]
        /\ \A q \in Names : q # r => ring'[q] = ring[q]
        /\ ring'[r].head = ring[r].head /\ ring'[r].tail = s + 1 /\ ring'[r].nodes = ring[r].nodes
    BY <2>1, TailChange
  <2> QED
    BY <1>1, <2>2 DEF IndicesMove
<1>2. CASE ring[r].tail # s
  BY <1>2, NoIndexMoves DEF Advance
<1> QED
  BY <1>1, <1>2

LEMMA HeadMoves ==
  ASSUME LFQueueAssumption, TypeOK, NEW r \in Names, NEW s \in Nat, s < NextGiven(ring[r]),
         Advance(r, "head", s)
  PROVE  IndicesMove
<1>1. CASE ring[r].head = s
  <2>1. ring' = WithHead(ring, r, s + 1) /\ ring \in [Names -> RingType] /\ s + 1 \in Nat
    BY <1>1 DEF Advance, WithHead, TypeOK
  <2>2. /\ ring' \in [Names -> RingType]
        /\ \A q \in Names : q # r => ring'[q] = ring[q]
        /\ ring'[r].head = s + 1 /\ ring'[r].tail = ring[r].tail /\ ring'[r].nodes = ring[r].nodes
    BY <2>1, HeadChange
  <2> QED
    BY <1>1, <2>2 DEF IndicesMove
<1>2. CASE ring[r].head # s
  BY <1>2, NoIndexMoves DEF Advance
<1> QED
  BY <1>1, <1>2

(* A process with nothing in hand that stands at the start of a call.      *)
LEMMA AtRest ==
  ASSUME NEW p, NEW l, NEW r, NEW d, l.at \in {"idle", "again", "crashed"}, l.id = Invalid
  PROVE  LocalInv(l, r) /\ ItemInv(p, l, d)
BY DEF LocalInv, ItemInv, EmptyHanded, Taking, Giving

LEMMA IdleFits ==
  ASSUME LFQueueAssumption, NEW p, NEW r, NEW d
  PROVE  LocalInv(Idle, r) /\ ItemInv(p, Idle, d)
BY IdleIs, AtRest

LEMMA AtTail ==
  ASSUME NEW p, NEW l, NEW r, NEW d, l.at = "tail", l.id = Invalid,
         p \in Producers => l.item \in Items
  PROVE  LocalInv(l, r) /\ ItemInv(p, l, d)
BY DEF LocalInv, ItemInv, EmptyHanded, Giving

LEMMA PushMoves ==
  ASSUME LFQueueAssumption, TypeOK, NodeInv, NEW p \in Producers, Push(p)
  PROVE  Moves(p)
<1> DEFINE l == Popping(Idle, "resc")
           m == [l EXCEPT !.item = <<p, pushes'[p]>>]
<1>1. p \in Processes /\ process[p].at = "idle" /\ process[p] \in Local
      /\ process' = [process EXCEPT ![p] = IF pause THEN Idle ELSE m]
  BY DEF Push, Become, Processes, TypeOK
<1>0. process[p].id = Invalid
  BY <1>1, LocalOf DEF LocalInv, EmptyHanded
<1>2. CASE pause
  BY <1>0, <1>1, <1>2, IdleIs, IdleFits DEF Moves
<1>3. CASE ~ pause
  <2>1. pushes'[p] \in 1 .. MaxPushes
    BY DEF Push, TypeOK, LFQueueAssumption
  <2>2. <<p, pushes'[p]>> \in Items /\ <<p, pushes'[p]>> \in SomeItem
    BY <2>1 DEF Items, SomeItem
  <2>3. l \in Local /\ l.at = "tail" /\ l.id = Invalid
    BY IdleIs, PoppingIs DEF Names
  <2> HIDE DEF l
  <2>4. m \in Local /\ m.at = "tail" /\ m.id = Invalid /\ m.item \in Items
    BY <2>2, <2>3, ItemIs
  <2> HIDE DEF m
  <2> QED
    BY <1>0, <1>1, <1>3, <2>4, AtTail DEF Moves
<1> QED
  BY <1>2, <1>3

LEMMA PopMoves ==
  ASSUME LFQueueAssumption, TypeOK, NodeInv, NEW p \in Consumers, Pop(p)
  PROVE  Moves(p)
<1> DEFINE l == Popping(Idle, "node")
<1>1. p \in Processes /\ p \notin Producers
      /\ process' = [process EXCEPT ![p] = IF pause THEN Idle ELSE l]
  BY DEF Pop, Become, Processes, LFQueueAssumption
<1>0. process[p].id = Invalid
  BY <1>1, LocalOf DEF Pop, LocalInv, EmptyHanded
<1>2. l \in Local /\ l.at = "tail" /\ l.id = Invalid
  BY IdleIs, PoppingIs DEF Names
<1> HIDE DEF l
<1>3. CASE pause
  BY <1>0, <1>1, <1>3, IdleIs, IdleFits DEF Moves
<1>4. CASE ~ pause
  BY <1>0, <1>1, <1>2, <1>4, AtTail DEF Moves
<1> QED
  BY <1>3, <1>4

LEMMA CrashMoves ==
  ASSUME LFQueueAssumption, TypeOK, NodeInv, NEW p \in Processes, Crash(p)
  PROVE  Moves(p)
<1> DEFINE l == Idle
           m == [l EXCEPT !.at = "crashed"]
<1>1. process' = [process EXCEPT ![p] = m] /\ crashes' # crashes
  BY DEF Crash, Become, TypeOK
<1>2. l \in Local /\ l.id = Invalid /\ "crashed" \in Phases
  BY IdleIs DEF Phases
<1> HIDE DEF l
<1>3. m \in Local /\ m.at = "crashed" /\ m.id = Invalid
  BY <1>2, AtIs
<1> HIDE DEF m
<1>4. LocalInv(m, ring[m.ring]) /\ ItemInv(p, m, data)
  BY <1>3, AtRest
<1> QED
  BY <1>1, <1>3, <1>4 DEF Moves

LEMMA ConsumeMoves ==
  ASSUME LFQueueAssumption, TypeOK, NodeInv, NEW p \in Processes, Consume(p)
  PROVE  Moves(p)
<1> DEFINE l == Pushing(process[p], "resc")
           m == [l EXCEPT !.item = data[process[p].id]]
<1>1. /\ p \in Consumers /\ p \notin Producers /\ process[p].at = "owns"
      /\ process' = [process EXCEPT ![p] = m]
  BY DEF Consume, Become, LFQueueAssumption
<1>2. process[p] \in Local /\ process[p].id # Invalid /\ process[p].id \in Ids
  BY <1>1, LocalOf DEF LocalInv, EmptyHanded, SomeId
<1>3. data[process[p].id] \in SomeItem
  BY <1>2 DEF TypeOK
<1>4. l \in Local /\ l.at = "head" /\ l.ring = "resc" /\ l.id = process[p].id
  BY <1>2, PushingIs DEF Names
<1> HIDE DEF l
<1>5. m \in Local /\ m.at = "head" /\ m.ring = "resc" /\ m.id = process[p].id
  BY <1>3, <1>4, ItemIs
<1> HIDE DEF m
<1>6. LocalInv(m, ring[m.ring])
  BY <1>2, <1>5 DEF LocalInv, EmptyHanded
<1>7. ItemInv(p, m, data)
  BY <1>1, <1>5 DEF ItemInv
<1> QED
  BY <1>1, <1>5, <1>6, <1>7 DEF Moves

LEMMA LoadTailMoves ==
  ASSUME LFQueueAssumption, TypeOK, NodeInv, NEW p \in Processes, LoadTail(p)
  PROVE  Moves(p)
<1> DEFINE l == process[p]
           n == Mine(p).tail
           m == [l EXCEPT !.at = "compare", !.seq = n]
<1>1. l.at = "tail" /\ process' = [process EXCEPT ![p] = m]
  BY DEF LoadTail, Become
<1>2. /\ l \in Local /\ n \in Nat /\ n = ring[l.ring].tail /\ "compare" \in Phases
      /\ LocalInv(l, ring[l.ring]) /\ ItemInv(p, l, data)
  BY LocalOf DEF Phases
<1> HIDE DEF l, n
<1>3. /\ m \in Local /\ m.at = "compare" /\ m.ring = l.ring /\ m.id = l.id /\ m.item = l.item
      /\ m.seq = n
  BY <1>2 DEF Local
<1> HIDE DEF m
<1>4. LocalInv(m, ring[m.ring])
  BY <1>1, <1>2, <1>3 DEF LocalInv, EmptyHanded
<1>5. ItemInv(p, m, data)
  BY <1>1, <1>2, <1>3 DEF ItemInv, Taking, Giving
<1> QED
  BY <1>1, <1>3, <1>4, <1>5 DEF Moves, l

LEMMA LoadFreeMoves ==
  ASSUME LFQueueAssumption, TypeOK, NodeInv, NEW p \in Processes, LoadFree(p)
  PROVE  Moves(p)
<1> DEFINE l == process[p]
           n == Mine(p).head
           m == [l EXCEPT !.at = "free", !.seq = n]
<1>1. l.at = "head" /\ process' = [process EXCEPT ![p] = m]
  BY DEF LoadFree, Become
<1>2. /\ l \in Local /\ n \in Nat /\ n = ring[l.ring].head /\ "free" \in Phases
      /\ LocalInv(l, ring[l.ring]) /\ ItemInv(p, l, data)
  BY LocalOf DEF Phases
<1> HIDE DEF l, n
<1>3. /\ m \in Local /\ m.at = "free" /\ m.ring = l.ring /\ m.id = l.id /\ m.item = l.item
      /\ m.seq = n
  BY <1>2 DEF Local
<1> HIDE DEF m
<1>4. LocalInv(m, ring[m.ring])
  BY <1>1, <1>2, <1>3 DEF LocalInv, EmptyHanded
<1>5. ItemInv(p, m, data)
  BY <1>1, <1>2, <1>3 DEF ItemInv, Taking, Giving
<1> QED
  BY <1>1, <1>3, <1>4, <1>5 DEF Moves, l

LEMMA LoadHeadMoves ==
  ASSUME LFQueueAssumption, TypeOK, NodeInv, NEW p \in Processes, LoadHead(p)
  PROVE  Moves(p)
<1> DEFINE l == process[p]
           r == ring[l.ring]
<1>1. /\ l.at = "compare"
      /\ process' = [process EXCEPT ![p] =
           IF l.seq = r.head THEN Empty(p)
           ELSE [l EXCEPT !.at = IF l.seq > r.head THEN "tail" ELSE "filled"]]
  BY DEF LoadHead, Become, Own, Mine
<1>2. /\ l \in Local /\ l.seq \in Nat /\ r.head \in Nat
      /\ LocalInv(l, r) /\ ItemInv(p, l, data)
  BY LocalOf
<1>3. l.id = Invalid /\ l.seq <= r.tail /\ (p \in Producers => l.item \in Items)
  BY <1>1, <1>2 DEF LocalInv, ItemInv, EmptyHanded, Taking
<1>4. CASE l.seq = r.head
  <2>1. CASE p \in Consumers
    <3> DEFINE i == Idle
               m == [i EXCEPT !.at = "again"]
    <3>1. i \in Local /\ i.id = Invalid /\ "again" \in Phases
      BY IdleIs DEF Phases
    <3>2. Empty(p) = m
      BY <2>1 DEF Empty
    <3> HIDE DEF i
    <3>3. m \in Local /\ m.at = "again" /\ m.id = Invalid
      BY <3>1, AtIs
    <3> HIDE DEF m
    <3>4. LocalInv(m, ring[m.ring]) /\ ItemInv(p, m, data)
      BY <3>3, AtRest
    <3> QED
      BY <1>1, <1>3, <1>4, <3>2, <3>3, <3>4 DEF Moves
  <2>2. CASE p \notin Consumers /\ Overwrite /\ l.ring = "resc"
    <3> DEFINE m == Popping(l, "node")
    <3>1. Empty(p) = m
      BY <2>2 DEF Empty
    <3>2. m \in Local /\ m.at = "tail" /\ m.id = Invalid /\ m.item = l.item
      BY <1>2, <1>3, PoppingIs DEF Names
    <3> HIDE DEF m
    <3>3. LocalInv(m, ring[m.ring]) /\ ItemInv(p, m, data)
      BY <1>3, <3>2, AtTail
    <3> QED
      BY <1>1, <1>3, <1>4, <3>1, <3>2, <3>3 DEF Moves
  <2>3. CASE p \notin Consumers /\ ~ (Overwrite /\ l.ring = "resc")
    <3>1. Empty(p) = Idle
      BY <2>3 DEF Empty
    <3> QED
      BY <1>1, <1>3, <1>4, <3>1, IdleIs, IdleFits DEF Moves
  <2> QED
    BY <2>1, <2>2, <2>3
<1>5. CASE l.seq # r.head
  <2> DEFINE a == IF l.seq > r.head THEN "tail" ELSE "filled"
             m == [l EXCEPT !.at = a]
  <2>1. process' = [process EXCEPT ![p] = m]
    BY <1>1, <1>5
  <2>2. a \in Phases
    BY DEF Phases
  <2>3. a = "tail" \/ (a = "filled" /\ l.seq < r.head)
    BY <1>2, <1>5
  <2> HIDE DEF a
  <2>4. /\ m \in Local /\ m.at = a /\ m.ring = l.ring /\ m.id = l.id /\ m.item = l.item
        /\ m.seq = l.seq
    BY <1>2, <2>2, AtIs
  <2> HIDE DEF m
  <2>5. LocalInv(m, ring[m.ring])
    BY <1>3, <2>3, <2>4 DEF LocalInv, EmptyHanded
  <2>6. ItemInv(p, m, data)
    BY <1>3, <2>3, <2>4 DEF ItemInv, Giving
  <2> QED
    BY <2>1, <2>4, <2>5, <2>6 DEF Moves
<1> QED
  BY <1>4, <1>5

LEMMA LoadFilledMoves ==
  ASSUME LFQueueAssumption, TypeOK, NodeInv, NEW p \in Processes, LoadFilled(p)
  PROVE  Moves(p)
<1> DEFINE l == process[p]
           r == ring[l.ring]
           node == r.nodes[Slot(l.seq)]
<1>1. /\ l.at = "filled"
      /\ process' = [process EXCEPT ![p] =
           IF Filled(node, l.seq) THEN [l EXCEPT !.at = "take", !.node = node]
           ELSE LookAgain(p, node, "tail", "fixTail")]
  BY DEF LoadFilled, Become, Own, Mine
<1>2. /\ l \in Local /\ l.seq \in Nat /\ node \in NodeType /\ r \in RingType /\ Windowed(r)
      /\ LocalInv(l, r) /\ ItemInv(p, l, data)
  BY LocalOf DEF Mine
<1>3. l.id = Invalid /\ l.seq <= r.tail /\ l.seq < r.head /\ (p \in Producers => l.item \in Items)
  BY <1>1, <1>2 DEF LocalInv, ItemInv, EmptyHanded, Taking
<1>4. CASE Filled(node, l.seq)
  <2> DEFINE m == [l EXCEPT !.at = "take", !.node = node]
  <2>1. process' = [process EXCEPT ![p] = m]
    BY <1>1, <1>4
  <2>2. /\ m \in Local /\ m.at = "take" /\ m.ring = l.ring /\ m.id = l.id /\ m.item = l.item
        /\ m.seq = l.seq /\ m.node = node
    <3> HIDE DEF l, node
    <3> QED
      BY <1>2 DEF Local, Phases
  <2> HIDE DEF m, node
  <2>3. LocalInv(m, ring[m.ring])
    BY <1>3, <1>4, <2>2 DEF LocalInv, EmptyHanded
  <2>4. ItemInv(p, m, data)
    BY <1>3, <2>2 DEF ItemInv, Giving
  <2> QED
    BY <2>1, <2>2, <2>3, <2>4 DEF Moves
<1>5. CASE ~ Filled(node, l.seq)
  <2> DEFINE m == LookAgain(p, node, "tail", "fixTail")
  <2>1. process' = [process EXCEPT ![p] = m]
    BY <1>1, <1>5
  <2>2. /\ m \in Local /\ m.at \in {"tail", "fixTail"} /\ m.ring = l.ring /\ m.id = l.id
        /\ m.item = l.item /\ m.seq = l.seq
    <3>1. process \in [Processes -> Local] /\ "tail" \in Phases /\ "fixTail" \in Phases
      BY DEF TypeOK, Phases
    <3>2. Looks(l, m) /\ m.at \in {"tail", "fixTail"}
      BY <1>2, <3>1, LookAgainIs
    <3> QED
      BY <3>2 DEF Looks
  <2>3. l.seq < NextTaken(r)
    BY <1>2, <1>3, <1>5, NotFilledIsTaken
  <2> HIDE DEF m
  <2>4. LocalInv(m, ring[m.ring])
    BY <1>3, <2>2, <2>3 DEF LocalInv, EmptyHanded
  <2>5. ItemInv(p, m, data)
    BY <1>3, <2>2 DEF ItemInv, Giving
  <2> QED
    BY <2>1, <2>2, <2>4, <2>5 DEF Moves
<1> QED
  BY <1>4, <1>5

LEMMA LoadSlotMoves ==
  ASSUME LFQueueAssumption, TypeOK, NodeInv, NEW p \in Processes, LoadSlot(p)
  PROVE  Moves(p)
<1> DEFINE l == process[p]
           r == ring[l.ring]
           node == r.nodes[Slot(l.seq)]
<1>1. /\ l.at = "free"
      /\ process' = [process EXCEPT ![p] =
           IF node = Node(l.seq, Invalid) THEN [l EXCEPT !.at = "give"]
           ELSE LookAgain(p, node, "head", "fixHead")]
  BY DEF LoadSlot, Become, Own, Mine
<1>2. /\ l \in Local /\ l.seq \in Nat /\ node \in NodeType /\ r \in RingType /\ l.ring \in Names
      /\ LocalInv(l, r) /\ ItemInv(p, l, data) /\ l.id \in SomeId
  BY LocalOf DEF Mine
<1>3. l.id # Invalid /\ l.id \in Ids /\ l.seq <= r.head
  BY <1>1, <1>2 DEF LocalInv, EmptyHanded, SomeId
<1>4. CASE node = Node(l.seq, Invalid)
  <2> DEFINE m == [l EXCEPT !.at = "give"]
  <2>1. process' = [process EXCEPT ![p] = m] /\ "give" \in Phases
    BY <1>1, <1>4 DEF Phases
  <2>2. /\ m \in Local /\ m.at = "give" /\ m.ring = l.ring /\ m.id = l.id /\ m.item = l.item
        /\ m.seq = l.seq
    BY <1>2, <2>1, AtIs
  <2> HIDE DEF m, node
  <2>3. LocalInv(m, ring[m.ring])
    BY <1>3, <2>2 DEF LocalInv, EmptyHanded
  <2>4. ItemInv(p, m, data)
    BY <1>1, <1>2, <2>2 DEF ItemInv, Taking, Giving
  <2> QED
    BY <2>1, <2>2, <2>3, <2>4 DEF Moves
<1>5. CASE node # Node(l.seq, Invalid)
  <2> DEFINE m == LookAgain(p, node, "head", "fixHead")
  <2>1. process' = [process EXCEPT ![p] = m]
    BY <1>1, <1>5
  <2>2. /\ m \in Local /\ m.at \in {"head", "fixHead"} /\ m.ring = l.ring /\ m.id = l.id
        /\ m.item = l.item /\ m.seq = l.seq
    <3>1. process \in [Processes -> Local] /\ "head" \in Phases /\ "fixHead" \in Phases
      BY DEF TypeOK, Phases
    <3>2. Looks(l, m) /\ m.at \in {"head", "fixHead"}
      BY <1>2, <3>1, LookAgainIs
    <3> QED
      BY <3>2 DEF Looks
  <2>3. ring \in [Names -> RingType] /\ RingsInv(ring) /\ \A i \in Ids : r.nodes[i].id # l.id
    BY <1>2, <1>3 DEF TypeOK, NodeInv, HeldOnce
  <2>4. l.seq < NextGiven(r)
    BY <1>2, <1>3, <1>5, <2>3, NotFreeIsGiven
  <2> HIDE DEF m
  <2>5. LocalInv(m, ring[m.ring])
    BY <1>3, <2>2, <2>4 DEF LocalInv, EmptyHanded
  <2>6. ItemInv(p, m, data)
    BY <1>1, <1>2, <2>2 DEF ItemInv, Taking, Giving
  <2> QED
    BY <2>1, <2>2, <2>5, <2>6 DEF Moves
<1> QED
  BY <1>4, <1>5

-----------------------------------------------------------------------------
(* Steps of a process that move an index on.                               *)

LEMMA FixTailMoves ==
  ASSUME LFQueueAssumption, TypeOK, NodeInv, NEW p \in Processes, FixTail(p)
  PROVE  Moves(p) /\ IndicesMove
<1> DEFINE l == process[p]
           m == [l EXCEPT !.at = "tail"]
<1>1. /\ l.at = "fixTail" /\ process' = [process EXCEPT ![p] = m]
      /\ Advance(l.ring, "tail", l.seq)
  BY DEF FixTail, Become, Own
<1>2. /\ l \in Local /\ l.seq \in Nat /\ l.ring \in Names /\ "tail" \in Phases
      /\ LocalInv(l, ring[l.ring]) /\ ItemInv(p, l, data)
  BY LocalOf DEF Phases
<1>3. l.id = Invalid /\ l.seq < NextTaken(ring[l.ring]) /\ (p \in Producers => l.item \in Items)
  BY <1>1, <1>2 DEF LocalInv, ItemInv, EmptyHanded, Taking
<1>4. m \in Local /\ m.at = "tail" /\ m.id = Invalid /\ m.item = l.item
  BY <1>2, <1>3, AtIs
<1>5. IndicesMove
  BY <1>1, <1>2, <1>3, TailMoves
<1> HIDE DEF m
<1>6. LocalInv(m, ring[m.ring]) /\ ItemInv(p, m, data)
  BY <1>3, <1>4, AtTail
<1> QED
  BY <1>1, <1>3, <1>4, <1>5, <1>6 DEF Moves

LEMMA EndPopMoves ==
  ASSUME LFQueueAssumption, TypeOK, NodeInv, NEW p \in Processes, EndPop(p)
  PROVE  Moves(p) /\ IndicesMove
<1> DEFINE l == process[p]
           n == Operand(p, "tail")
           m == [l EXCEPT !.at = "owns", !.out = n, !.seq = 0, !.expired = Node(0, 0), !.busy = 0]
<1>1. /\ l.at = "tailEnd" /\ process' = [process EXCEPT ![p] = m]
      /\ Advance(l.ring, "tail", l.seq)
  BY DEF EndPop, Become, Own
<1>2. /\ l \in Local /\ l.seq \in Nat /\ l.ring \in Names
      /\ LocalInv(l, ring[l.ring]) /\ ItemInv(p, l, data)
  BY LocalOf
<1>3. /\ l.id # Invalid /\ l.seq < NextTaken(ring[l.ring])
      /\ (p \in Producers => l.item \in Items)
  BY <1>1, <1>2 DEF LocalInv, ItemInv, EmptyHanded, Taking
<1>4. n \in Nat
  BY LocalOf DEF Operand
<1>5. IndicesMove
  BY <1>1, <1>2, <1>3, TailMoves
<1> HIDE DEF l, n
<1>6. m \in Local /\ m.at = "owns" /\ m.id = l.id /\ m.item = l.item
  <2>1. Node(0, 0) \in NodeType /\ "owns" \in Phases
    BY ZeroNode DEF Phases
  <2> QED
    BY <1>2, <1>4, <2>1, BusyIs DEF Local
<1> HIDE DEF m
<1>7. LocalInv(m, ring[m.ring])
  BY <1>3, <1>6 DEF LocalInv, EmptyHanded
<1>8. ItemInv(p, m, data)
  BY <1>3, <1>6 DEF ItemInv, Giving
<1> QED
  BY <1>1, <1>5, <1>6, <1>7, <1>8 DEF Moves, l

LEMMA FixHeadMoves ==
  ASSUME LFQueueAssumption, TypeOK, NodeInv, NEW p \in Processes, FixHead(p)
  PROVE  Moves(p) /\ IndicesMove
<1> DEFINE l == process[p]
           m == [l EXCEPT !.at = "head"]
<1>1. /\ l.at = "fixHead" /\ process' = [process EXCEPT ![p] = m]
      /\ Advance(l.ring, "head", l.seq)
  BY DEF FixHead, Become, Own
<1>2. /\ l \in Local /\ l.seq \in Nat /\ l.ring \in Names /\ "head" \in Phases
      /\ LocalInv(l, ring[l.ring]) /\ ItemInv(p, l, data)
  BY LocalOf DEF Phases
<1>3. l.id # Invalid /\ l.seq < NextGiven(ring[l.ring])
  BY <1>1, <1>2 DEF LocalInv, EmptyHanded
<1>4. m \in Local /\ m.at = "head" /\ m.ring = l.ring /\ m.id = l.id /\ m.item = l.item
  BY <1>2, AtIs
<1>5. IndicesMove
  BY <1>1, <1>2, <1>3, HeadMoves
<1> HIDE DEF m
<1>6. LocalInv(m, ring[m.ring])
  BY <1>3, <1>4 DEF LocalInv, EmptyHanded
<1>7. ItemInv(p, m, data)
  BY <1>1, <1>2, <1>4 DEF ItemInv, Taking, Giving
<1> QED
  BY <1>1, <1>4, <1>5, <1>6, <1>7 DEF Moves

LEMMA EndPushMoves ==
  ASSUME LFQueueAssumption, TypeOK, NodeInv, NEW p \in Processes, EndPush(p)
  PROVE  Moves(p) /\ IndicesMove
<1> DEFINE l == process[p]
           i == Idle
           n == IF p \in Producers THEN Operand(p, "head") ELSE l.out
           m == [i EXCEPT !.true = l.true, !.out = n]
<1>1. /\ l.at = "headEnd" /\ process' = [process EXCEPT ![p] = m]
      /\ Advance(l.ring, "head", l.seq)
  BY DEF EndPush, Become, Own
<1>2. /\ l \in Local /\ l.seq \in Nat /\ l.ring \in Names /\ LocalInv(l, ring[l.ring])
      /\ l.true \in Nat
  BY LocalOf
<1>3. l.id = Invalid /\ l.seq < NextGiven(ring[l.ring])
  BY <1>1, <1>2 DEF LocalInv, EmptyHanded
<1>4. n \in Nat
  BY LocalOf DEF Operand
<1>5. IndicesMove
  BY <1>1, <1>2, <1>3, HeadMoves
<1>6. i \in Local /\ i.at = "idle" /\ i.id = Invalid
  BY IdleIs
<1> HIDE DEF i, n
<1>7. m \in Local /\ m.at = "idle" /\ m.id = Invalid
  BY <1>2, <1>4, <1>6 DEF Local
<1> HIDE DEF m
<1>8. LocalInv(m, ring[m.ring]) /\ ItemInv(p, m, data)
  BY <1>7, AtRest
<1> QED
  BY <1>1, <1>3, <1>5, <1>7, <1>8 DEF Moves

-----------------------------------------------------------------------------
(* Steps of a process that store to a slot or to a node.                   *)

(* Process p has taken the id of the next slot of a ring, or given its id  *)
(* to the next free one.                                                   *)
Takes(p, r, s, id) ==
  LET a == ring[r]
      b == ring'[r]
  IN  /\ ring' \in [Names -> RingType] /\ \A q \in Names : q # r => ring'[q] = ring[q]
      /\ b.head = a.head /\ b.tail = a.tail
      /\ b.nodes = [a.nodes EXCEPT ![Slot(s)] = Freed(s)]
      /\ a.nodes[Slot(s)].id = id /\ s \in Nat /\ id \in Ids /\ r \in Names
      /\ s <= a.tail /\ s = NextTaken(a) /\ s < NextGiven(a)
      /\ Windowed(b) /\ NextTaken(b) = NextTaken(a) + 1 /\ NextGiven(b) = NextGiven(a)

Gives(p, r, s, id) ==
  LET a == ring[r]
      b == ring'[r]
  IN  /\ ring' \in [Names -> RingType] /\ \A q \in Names : q # r => ring'[q] = ring[q]
      /\ b.head = a.head /\ b.tail = a.tail
      /\ b.nodes = [a.nodes EXCEPT ![Slot(s)] = Node(s, id)]
      /\ a.nodes[Slot(s)] = Node(s, Invalid) /\ process[p].id = id
      /\ s \in Nat /\ id \in Ids /\ r \in Names
      /\ s <= a.head /\ s = NextGiven(a) /\ s < NextTaken(a) + Count
      /\ Windowed(b) /\ NextTaken(b) = NextTaken(a) /\ NextGiven(b) = NextGiven(a) + 1

(* One slot changes, and the others are as they were.                      *)
LEMMA TakesSlot ==
  ASSUME LFQueueAssumption, TypeOK, NEW p, NEW r, NEW s, NEW id, Takes(p, r, s, id)
  PROVE  /\ ring'[r].nodes[Slot(s)].id = Invalid /\ ring[r].nodes[Slot(s)].id = id
         /\ \A q \in Names, i \in Ids :
              ~ (q = r /\ i = Slot(s)) => ring'[q].nodes[i] = ring[q].nodes[i]
<1>1. ring[r].nodes \in [Ids -> NodeType] /\ Slot(s) \in Ids
  BY SlotIs DEF TypeOK, RingType, Takes
<1>2. /\ ring'[r].nodes[Slot(s)] = Freed(s)
      /\ \A i \in Ids : i # Slot(s) => ring'[r].nodes[i] = ring[r].nodes[i]
  BY <1>1 DEF Takes
<1>3. ring'[r].nodes[Slot(s)].id = Invalid
  BY <1>2, NodeIs DEF Freed
<1>4. ring[r].nodes[Slot(s)].id = id /\ \A q \in Names : q # r => ring'[q] = ring[q]
  BY DEF Takes
<1> QED
  BY <1>2, <1>3, <1>4

LEMMA GivesSlot ==
  ASSUME LFQueueAssumption, TypeOK, NEW p, NEW r, NEW s, NEW id, Gives(p, r, s, id)
  PROVE  /\ ring'[r].nodes[Slot(s)].id = id /\ ring[r].nodes[Slot(s)].id = Invalid
         /\ \A q \in Names, i \in Ids :
              ~ (q = r /\ i = Slot(s)) => ring'[q].nodes[i] = ring[q].nodes[i]
<1>1. ring[r].nodes \in [Ids -> NodeType] /\ Slot(s) \in Ids
  BY SlotIs DEF TypeOK, RingType, Gives
<1>2. /\ ring'[r].nodes[Slot(s)] = Node(s, id)
      /\ \A i \in Ids : i # Slot(s) => ring'[r].nodes[i] = ring[r].nodes[i]
  BY <1>1 DEF Gives
<1>3. ring'[r].nodes[Slot(s)].id = id /\ ring[r].nodes[Slot(s)].id = Invalid
  BY <1>2, NodeIs DEF Gives
<1>4. \A q \in Names : q # r => ring'[q] = ring[q]
  BY DEF Gives
<1> QED
  BY <1>2, <1>3, <1>4

LEMMA TakeTakes ==
  ASSUME LFQueueAssumption, TypeOK, NodeInv, NEW p \in Processes, Take(p), StillThere(p)
  PROVE  /\ Takes(p, process[p].ring, process[p].seq, process[p].node.id)
         /\ taken' = IF process[p].ring = "node" THEN data[process[p].node.id] ELSE taken
<1> DEFINE l == process[p]
           r == l.ring
           s == l.seq
           a == ring[r]
           b == ring'[r]
           x == Freed(s)
<1>1. /\ l.at = "take" /\ a.nodes[Slot(s)] = l.node
      /\ ring' = WithSlot(ring, r, Slot(s), x)
      /\ taken' = IF r = "node" THEN data[l.node.id] ELSE taken
  BY DEF Take, StillThere, Mine, Own, Loaded, WithSlot
<1>2. /\ s \in Nat /\ r \in Names /\ l.node \in NodeType /\ a \in RingType /\ Windowed(a)
      /\ LocalInv(l, a) /\ ring \in [Names -> RingType]
  BY LocalOf DEF Mine, TypeOK
<1>3. s <= a.tail /\ s < a.head /\ Filled(l.node, s) /\ l.node.id \in Ids
  BY <1>1, <1>2 DEF LocalInv, Filled, NodeType, SomeId
<1>4. Slot(s) \in Ids /\ x \in NodeType
  <2>1. s + Count \in Nat /\ Invalid \in SomeId
    BY <1>2, CountIs DEF SomeId
  <2> QED
    BY <1>2, <2>1, SlotIs, NodeInType DEF Freed
<1> HIDE DEF x
<1>5. /\ ring' \in [Names -> RingType] /\ \A q \in Names : q # r => ring'[q] = ring[q]
      /\ b.head = a.head /\ b.tail = a.tail /\ b.nodes = [a.nodes EXCEPT ![Slot(s)] = x]
  BY <1>1, <1>2, <1>4, SlotChange
<1>6. b \in RingType
  BY <1>2, <1>5
<1> HIDE DEF a, b, r
<1>7. /\ Windowed(b) /\ NextTaken(b) = NextTaken(a) + 1 /\ NextGiven(b) = NextGiven(a)
      /\ s = NextTaken(a) /\ s < NextGiven(a)
  BY <1>1, <1>2, <1>3, <1>5, <1>6, TakeMovesWindow DEF x
<1> QED
  BY <1>1, <1>2, <1>3, <1>5, <1>7 DEF Takes, a, b, r, x

LEMMA GiveGives ==
  ASSUME LFQueueAssumption, TypeOK, NodeInv, NEW p \in Processes, Give(p),
         Mine(p).nodes[Slot(Own(p))] = Node(Own(p), Invalid)
  PROVE  Gives(p, process[p].ring, process[p].seq, process[p].id)
<1> DEFINE l == process[p]
           r == l.ring
           s == l.seq
           a == ring[r]
           b == ring'[r]
           x == Node(s, l.id)
<1>1. /\ l.at = "give" /\ a.nodes[Slot(s)] = Node(s, Invalid)
      /\ ring' = WithSlot(ring, r, Slot(s), x)
  BY DEF Give, Mine, Own, WithSlot
<1>2. /\ s \in Nat /\ r \in Names /\ l.id \in SomeId /\ a \in RingType /\ Windowed(a)
      /\ LocalInv(l, a) /\ ring \in [Names -> RingType]
  BY LocalOf DEF Mine, TypeOK
<1>3. s <= a.head /\ l.id \in Ids
  BY <1>1, <1>2 DEF LocalInv, EmptyHanded, SomeId
<1>4. Slot(s) \in Ids /\ x \in NodeType
  BY <1>2, SlotIs, NodeInType
<1> HIDE DEF x
<1>5. /\ ring' \in [Names -> RingType] /\ \A q \in Names : q # r => ring'[q] = ring[q]
      /\ b.head = a.head /\ b.tail = a.tail /\ b.nodes = [a.nodes EXCEPT ![Slot(s)] = x]
  BY <1>1, <1>2, <1>4, SlotChange
<1>6. b \in RingType
  BY <1>2, <1>5
<1> HIDE DEF a, b, r
<1>7. /\ Windowed(b) /\ NextTaken(b) = NextTaken(a) /\ NextGiven(b) = NextGiven(a) + 1
      /\ s = NextGiven(a) /\ s < NextTaken(a) + Count
  BY <1>1, <1>2, <1>3, <1>5, <1>6, GiveMovesWindow DEF x
<1> QED
  BY <1>1, <1>2, <1>3, <1>5, <1>7 DEF Gives, a, b, r, x

LEMMA TakeMoves ==
  ASSUME LFQueueAssumption, TypeOK, NodeInv, NEW p \in Processes, Take(p), ~ StillThere(p)
  PROVE  Moves(p) /\ ring' = ring /\ taken' = taken
<1> DEFINE l == process[p]
           k == Popping(l, l.ring)
           m == [k EXCEPT !.node = Node(0, 0)]
<1>1. l.at = "take" /\ process' = [process EXCEPT ![p] = m] /\ ring' = ring /\ taken' = taken
  BY DEF Take, Become
<1>2. l \in Local /\ l.ring \in Names /\ LocalInv(l, ring[l.ring]) /\ ItemInv(p, l, data)
  BY LocalOf
<1>3. l.id = Invalid /\ (p \in Producers => l.item \in Items)
  BY <1>1, <1>2 DEF LocalInv, ItemInv, EmptyHanded, Taking
<1>4. k \in Local /\ k.at = "tail" /\ k.id = Invalid /\ k.item = l.item
  BY <1>2, <1>3, PoppingIs
<1> HIDE DEF k
<1>5. m \in Local /\ m.at = "tail" /\ m.id = Invalid /\ m.item = l.item
  BY <1>4, LostIs
<1> HIDE DEF m
<1>6. LocalInv(m, ring[m.ring]) /\ ItemInv(p, m, data)
  BY <1>3, <1>5, AtTail
<1> QED
  BY <1>1, <1>3, <1>5, <1>6 DEF Moves

LEMMA GiveMoves ==
  ASSUME LFQueueAssumption, TypeOK, NodeInv, NEW p \in Processes, Give(p),
         Mine(p).nodes[Slot(Own(p))] # Node(Own(p), Invalid)
  PROVE  Moves(p) /\ ring' = ring
<1> DEFINE l == process[p]
           m == Pushing(l, l.ring)
<1>1. l.at = "give" /\ process' = [process EXCEPT ![p] = m] /\ ring' = ring
  BY DEF Give, Become
<1>2. l \in Local /\ l.ring \in Names /\ LocalInv(l, ring[l.ring]) /\ ItemInv(p, l, data)
  BY LocalOf
<1>3. m \in Local /\ m.at = "head" /\ m.ring = l.ring /\ m.id = l.id /\ m.item = l.item
  BY <1>2, PushingIs
<1> HIDE DEF m
<1>4. LocalInv(m, ring[m.ring])
  BY <1>1, <1>2, <1>3 DEF LocalInv, EmptyHanded
<1>5. ItemInv(p, m, data)
  BY <1>1, <1>2, <1>3 DEF ItemInv, Taking, Giving
<1> QED
  BY <1>1, <1>3, <1>4, <1>5 DEF Moves

(* What the others know of the rings stays true when p takes or gives.     *)
LEMMA OthersStay ==
  ASSUME LFQueueAssumption, TypeOK, NodeInv, NEW p \in Processes, NEW r \in Names, NEW s, NEW id,
         Takes(p, r, s, id) \/ Gives(p, r, s, id), NEW q \in Processes
  PROVE  LocalInv(process[q], ring'[process[q].ring])
<1> DEFINE l == process[q]
<1>1. l \in Local /\ LocalInv(l, ring[l.ring])
  BY LocalOf
<1>2. PICK k \in Names : l.ring = k
  BY <1>1 DEF Local
<1>3. /\ ring[k] \in RingType /\ ring'[k] \in RingType
      /\ ring[k].head \in Nat /\ ring[k].tail \in Nat
      /\ NextTaken(ring[k]) \in Nat /\ NextGiven(ring[k]) \in Nat
  BY NextIs DEF TypeOK, Takes, Gives
<1> HIDE DEF l
<1>4. CASE k # r
  <2>1. ring'[k] = ring[k]
    BY <1>4 DEF Takes, Gives
  <2> QED
    BY <1>1, <1>2, <2>1 DEF l
<1>5. CASE k = r
  <2>1. /\ ring[k].head <= ring'[k].head /\ ring[k].tail <= ring'[k].tail
        /\ NextTaken(ring[k]) <= NextTaken(ring'[k]) /\ NextGiven(ring[k]) <= NextGiven(ring'[k])
    BY <1>3, <1>5 DEF Takes, Gives
  <2>2. LocalInv(l, ring[k])
    BY <1>1, <1>2
  <2>3. LocalInv(l, ring'[k])
    BY <1>1, <1>3, <2>1, <2>2, LocalStays
  <2> QED
    BY <1>2, <2>3 DEF l
<1> QED
  BY <1>4, <1>5

LEMMA TakeKeeps ==
  ASSUME LFQueueAssumption, TypeOK, NodeInv, NEW p \in Processes, Take(p), StillThere(p)
  PROVE  process' \in [Processes -> Local] /\ NodeInv'
<1> DEFINE l == process[p]
           m == [l EXCEPT !.at = "tailEnd", !.id = l.node.id, !.node = Node(0, 0), !.true = l.seq]
<1>1. PICK r, s, id : r = l.ring /\ s = l.seq /\ id = l.node.id
  OBVIOUS
<1>2. Takes(p, r, s, id)
  BY <1>1, TakeTakes
<1>3. l.at = "take" /\ process' = [process EXCEPT ![p] = m] /\ data' = data /\ saved' = saved
  BY DEF Take, Become, StillThere, Loaded, Own, Others
<1>4. /\ l \in Local /\ ItemInv(p, l, data) /\ r \in Names /\ s \in Nat /\ id \in Ids
      /\ process \in [Processes -> Local] /\ ring \in [Names -> RingType] /\ Slot(s) \in Ids
  BY <1>1, <1>2, LocalOf, SlotIs DEF TypeOK, Takes
<1>5. id # Invalid /\ id \in SomeId
  BY <1>4, CountIs DEF SomeId
<1>6. /\ m \in Local /\ m.at = "tailEnd" /\ m.ring = r /\ m.id = id /\ m.item = l.item
      /\ m.seq = s
  <2>1. Node(0, 0) \in NodeType /\ "tailEnd" \in Phases
    BY ZeroNode DEF Phases
  <2> HIDE DEF l
  <2> QED
    BY <1>1, <1>4, <1>5, <2>1 DEF Local
<1> HIDE DEF m
<1>7. process'[p] = m /\ \A q \in Processes : q # p => process'[q] = process[q]
  BY <1>3, <1>4
<1>8. process' \in [Processes -> Local]
  BY <1>3, <1>4, <1>6
<1>9. /\ ring'[r].nodes[Slot(s)].id = Invalid /\ ring[r].nodes[Slot(s)].id = id
      /\ \A q \in Names, i \in Ids :
           ~ (q = r /\ i = Slot(s)) => ring'[q].nodes[i].id = ring[q].nodes[i].id
  BY <1>2, TakesSlot
<1>10. Distinct(ring')
  BY <1>4, <1>9 DEF NodeInv, RingsInv, Distinct
<1>11. RingsInv(ring')
  BY <1>2, <1>10 DEF NodeInv, RingsInv, Takes
<1>12. \A q \in Names, i \in Ids : ring'[q].nodes[i].id # id
  BY <1>4, <1>5, <1>9 DEF NodeInv, RingsInv, Distinct
<1>13. HeldOnce'
  <2>1. ASSUME NEW q \in Processes, process[q].id # Invalid
        PROVE  /\ \A k \in Names, i \in Ids : ring'[k].nodes[i].id # process[q].id
               /\ process[q].id # id
    BY <1>4, <1>9, <2>1 DEF NodeInv, HeldOnce
  <2> QED
    BY <1>5, <1>6, <1>7, <1>12, <2>1 DEF NodeInv, HeldOnce
<1>14. LocalInv(m, ring'[m.ring])
  <2>1. s <= ring'[r].tail /\ s < NextTaken(ring'[r])
    BY <1>2, <1>4 DEF Takes
  <2> QED
    BY <1>5, <1>6, <2>1 DEF LocalInv, EmptyHanded
<1>15. LocalsInv'
  <2>1. \A q \in Processes : LocalInv(process[q], ring'[process[q].ring])
    BY <1>2, <1>4, OthersStay
  <2> QED
    BY <1>7, <1>14, <2>1 DEF LocalsInv
<1>16. ItemInv(p, m, data')
  BY <1>3, <1>4, <1>6 DEF ItemInv, Taking, Giving
<1>17. ItemsInv'
  BY <1>3, <1>7, <1>16 DEF ItemsInv, NodeInv
<1> QED
  BY <1>3, <1>8, <1>11, <1>13, <1>15, <1>17 DEF NodeInv

LEMMA GiveKeeps ==
  ASSUME LFQueueAssumption, TypeOK, NodeInv, NEW p \in Processes, Give(p),
         Mine(p).nodes[Slot(Own(p))] = Node(Own(p), Invalid)
  PROVE  process' \in [Processes -> Local] /\ NodeInv'
<1> DEFINE l == process[p]
           n == IF l.ring = "node" THEN l.seq ELSE l.true
           m == [l EXCEPT !.at = "headEnd", !.id = Invalid, !.true = n]
<1>1. PICK r, s, id : r = l.ring /\ s = l.seq /\ id = l.id
  OBVIOUS
<1>2. Gives(p, r, s, id)
  BY <1>1, GiveGives
<1>3. l.at = "give" /\ process' = [process EXCEPT ![p] = m] /\ data' = data /\ saved' = saved
  BY DEF Give, Become, Own, Others
<1>4. /\ l \in Local /\ r \in Names /\ s \in Nat /\ id \in Ids /\ n \in Nat
      /\ process \in [Processes -> Local] /\ ring \in [Names -> RingType] /\ Slot(s) \in Ids
  BY <1>1, <1>2, LocalOf, SlotIs DEF TypeOK, Gives
<1>5. id # Invalid
  BY <1>4, CountIs
<1>6. m \in Local /\ m.at = "headEnd" /\ m.ring = r /\ m.id = Invalid /\ m.seq = s
  <2>1. Invalid \in SomeId /\ "headEnd" \in Phases
    BY DEF SomeId, Phases
  <2> HIDE DEF l, n
  <2> QED
    BY <1>1, <1>4, <2>1 DEF Local
<1> HIDE DEF m
<1>7. process'[p] = m /\ \A q \in Processes : q # p => process'[q] = process[q]
  BY <1>3, <1>4
<1>8. process' \in [Processes -> Local]
  BY <1>3, <1>4, <1>6
<1>9. /\ ring'[r].nodes[Slot(s)].id = id
      /\ \A q \in Names, i \in Ids :
           ~ (q = r /\ i = Slot(s)) => ring'[q].nodes[i].id = ring[q].nodes[i].id
  BY <1>2, GivesSlot
<1>10. /\ \A q \in Names, i \in Ids : ring[q].nodes[i].id # id
       /\ \A q \in Processes : q # p => process[q].id # id
  BY <1>1, <1>5 DEF NodeInv, HeldOnce
<1>11. Distinct(ring')
  BY <1>4, <1>9, <1>10 DEF NodeInv, RingsInv, Distinct
<1>12. RingsInv(ring')
  BY <1>2, <1>11 DEF NodeInv, RingsInv, Gives
<1>13. HeldOnce'
  BY <1>6, <1>7, <1>9, <1>10 DEF NodeInv, HeldOnce
<1>14. LocalInv(m, ring'[m.ring])
  <2>1. s <= ring'[r].head /\ s < NextGiven(ring'[r])
    BY <1>2, <1>4 DEF Gives
  <2> QED
    BY <1>6, <2>1 DEF LocalInv, EmptyHanded
<1>15. LocalsInv'
  <2>1. \A q \in Processes : LocalInv(process[q], ring'[process[q].ring])
    BY <1>2, <1>4, OthersStay
  <2> QED
    BY <1>7, <1>14, <2>1 DEF LocalsInv
<1>16. ItemInv(p, m, data')
  BY <1>6 DEF ItemInv, Taking, Giving
<1>17. ItemsInv'
  BY <1>3, <1>7, <1>16 DEF ItemsInv, NodeInv
<1> QED
  BY <1>3, <1>8, <1>12, <1>13, <1>15, <1>17 DEF NodeInv

LEMMA FillKeeps ==
  ASSUME LFQueueAssumption, TypeOK, NodeInv, NEW p \in Processes, Fill(p)
  PROVE  process' \in [Processes -> Local] /\ data' \in [Ids -> SomeItem] /\ NodeInv'
<1> DEFINE l == process[p]
           m == Pushing(l, "node")
<1>1. /\ p \in Producers /\ l.at = "owns" /\ process' = [process EXCEPT ![p] = m]
      /\ data' = [data EXCEPT ![l.id] = l.item] /\ ring' = ring /\ saved' = saved
  BY DEF Fill, Become
<1>2. /\ l \in Local /\ l.id \in SomeId /\ l.item \in SomeItem
      /\ LocalInv(l, ring[l.ring]) /\ ItemInv(p, l, data)
      /\ process \in [Processes -> Local] /\ data \in [Ids -> SomeItem]
  BY LocalOf DEF TypeOK
<1>3. l.id # Invalid /\ l.id \in Ids /\ l.item \in Items /\ p \notin Consumers
  BY <1>1, <1>2 DEF LocalInv, ItemInv, EmptyHanded, Taking, SomeId, LFQueueAssumption
<1>4. m \in Local /\ m.at = "head" /\ m.ring = "node" /\ m.id = l.id /\ m.item = l.item
  BY <1>2, PushingIs DEF Names
<1> HIDE DEF m
<1>5. process'[p] = m /\ \A q \in Processes : q # p => process'[q] = process[q]
  BY <1>1, <1>2
<1>6. process' \in [Processes -> Local] /\ data' \in [Ids -> SomeItem]
  BY <1>1, <1>2, <1>4
<1>7. HeldOnce'
  BY <1>1, <1>4, <1>5 DEF NodeInv, HeldOnce
<1>8. LocalInv(m, ring'[m.ring])
  BY <1>3, <1>4 DEF LocalInv, EmptyHanded
<1>9. LocalsInv'
  BY <1>1, <1>5, <1>8 DEF NodeInv, LocalsInv
<1>10. ItemInv(p, m, data')
  BY <1>1, <1>2, <1>3, <1>4 DEF ItemInv, Taking, Giving
<1>11. ASSUME NEW q \in Processes, q # p PROVE ItemInv(q, process[q], data')
  <2> DEFINE k == process[q]
  <2>1. ItemInv(q, k, data) /\ LocalInv(k, ring[k.ring]) /\ k.id \in SomeId
    BY LocalOf
  <2>2. k.id # l.id
    BY <1>3, <1>11 DEF NodeInv, HeldOnce
  <2>3. k.at \in Giving => data'[k.id] = data[k.id]
    BY <1>1, <1>2, <2>1, <2>2 DEF LocalInv, EmptyHanded, Giving, SomeId
  <2> HIDE DEF k
  <2>4. ItemInv(q, k, data')
    BY <2>1, <2>3 DEF ItemInv
  <2> QED
    BY <2>4 DEF k
<1>12. ItemsInv'
  BY <1>5, <1>10, <1>11 DEF ItemsInv
<1> QED
  BY <1>1, <1>6, <1>7, <1>9, <1>12 DEF NodeInv

-----------------------------------------------------------------------------
(* The operator's steps, and all of them.                                  *)

LEMMA FreshIs ==
  ASSUME LFQueueAssumption
  PROVE  Fresh \in [Names -> RingType] /\ RingsInv(Fresh)
<1>1. Count \in Nat \ {0} /\ \A i \in Ids : i \in Nat /\ i < Count /\ i # Invalid
  BY CountIs
<1>2. /\ RingOf(Count) \in RingType /\ Window(RingOf(Count), 0, Count)
      /\ RingOf(0) \in RingType /\ Window(RingOf(0), 0, 0)
  BY RingOfHasWindow
<1>3. Windowed(RingOf(Count)) /\ Windowed(RingOf(0))
  BY <1>1, <1>2, WindowIs DEF Windowed
<1>4. /\ \A i \in Ids : RingOf(Count).nodes[i].id = i
      /\ \A i \in Ids : RingOf(0).nodes[i].id = Invalid
  BY <1>1 DEF RingOf, Node
<1>5. Fresh["resc"] = RingOf(Count) /\ Fresh["node"] = RingOf(0)
  BY DEF Fresh, Names
<1>6. Fresh \in [Names -> RingType]
  BY <1>2 DEF Fresh
<1>7. Distinct(Fresh)
  BY <1>1, <1>4, <1>5 DEF Distinct, Names
<1>8. \A r \in Names : Windowed(Fresh[r])
  BY <1>3, <1>5 DEF Names
<1> QED
  BY <1>6, <1>7, <1>8 DEF RingsInv

(* While the queue is quiet nobody holds a node or knows of an index.      *)
LEMMA QuietKeeps ==
  ASSUME LFQueueAssumption, TypeOK, NodeInv, Quiet, process' = process,
         RingsInv(ring'), saved' # <<>> => RingsInv(saved'[1].ring)
  PROVE  NodeInv'
<1>1. \A p \in Processes : process[p].at \in {"idle", "crashed"} /\ process[p].id = Invalid
  BY DEF Quiet, NodeInv, LocalsInv, LocalInv, EmptyHanded
<1>2. HeldOnce'
  BY <1>1 DEF HeldOnce
<1>3. \A p \in Processes : LocalInv(process[p], ring'[process[p].ring]) /\ ItemInv(p, process[p], data')
  BY <1>1, AtRest
<1>4. LocalsInv' /\ ItemsInv'
  BY <1>3 DEF LocalsInv, ItemsInv
<1> QED
  BY <1>2, <1>4 DEF NodeInv

LEMMA InitNodes ==
  ASSUME LFQueueAssumption
  PROVE  Init => TypeOK /\ NodeInv
<1> SUFFICES ASSUME Init PROVE TypeOK /\ NodeInv
  OBVIOUS
<1>1. ring = Fresh /\ ring \in [Names -> RingType] /\ RingsInv(ring)
  BY FreshIs DEF Init
<1>2. \A p \in Processes : process[p] = Idle
  BY DEF Init
<1>3. \A p \in Processes : process[p].id = Invalid
  BY <1>2, IdleIs
<1>4. HeldOnce
  BY <1>3 DEF HeldOnce
<1>5. LocalsInv /\ ItemsInv
  BY <1>2, IdleFits DEF LocalsInv, ItemsInv
<1>6. NodeInv
  BY <1>1, <1>4, <1>5 DEF NodeInv, Init
<1>7. data \in [Ids -> SomeItem] /\ taken \in SomeItem
  BY DEF Init, SomeItem
<1>8. process \in [Processes -> Local]
  BY IdleIs DEF Init
<1>9. /\ pushes \in [Producers -> 0 .. MaxPushes]
      /\ crashes \in 0 .. MaxCrashes /\ pauses \in 0 .. MaxPauses
  BY DEF Init, LFQueueAssumption
<1>10. TypeOK
  BY <1>1, <1>7, <1>8, <1>9 DEF TypeOK, Init
<1> QED
  BY <1>6, <1>10

(* The variables the invariant does not speak of keep their types.         *)
LEMMA NextScalars ==
  ASSUME LFQueueAssumption, TypeOK, [Next]_vars
  PROVE  /\ pushes' \in [Producers -> 0 .. MaxPushes] /\ pause' \in BOOLEAN
         /\ crashes' \in 0 .. MaxCrashes /\ pauses' \in 0 .. MaxPauses
<1> USE DEF LFQueueAssumption, TypeOK
<1>1. CASE UNCHANGED vars
  BY <1>1 DEF vars
<1>2. ASSUME NEW p \in Producers, Push(p)
      PROVE  pushes' \in [Producers -> 0 .. MaxPushes]
  <2>1. pushes[p] + 1 \in 0 .. MaxPushes
    BY <1>2 DEF Push
  <2> QED
    BY <1>2, <2>1 DEF Push
<1>3. CASE \E p \in Producers : Push(p)
  BY <1>2, <1>3 DEF Push, Calls
<1>4. CASE \E p \in Processes : Step(p)
  BY <1>4 DEF Step, RingStep, LoadTail, LoadHead, LoadFilled, Take, FixTail, EndPop, LoadFree,
              LoadSlot, Give, FixHead, EndPush, Fill, Consume, Pop, Loads, Others, Calls
<1>5. CASE \E p \in Processes : Crash(p)
  BY <1>5 DEF Crash
<1>6. CASE Administrator
  <2>1. pushes' = pushes /\ crashes' = crashes
    BY <1>6 DEF Administrator, Pause, Resume, Reset, Dump, Load
  <2>2. pauses' = pauses \/ (pauses < MaxPauses /\ pauses' = pauses + 1)
    BY <1>6 DEF Administrator, Pause, Resume, Reset, Dump, Load
  <2>3. pause' = pause \/ pause' = TRUE \/ pause' = FALSE
    BY <1>6, Zenon DEF Administrator, Pause, Resume, Reset, Dump, Load
  <2>4. pause' \in BOOLEAN
    BY <2>3
  <2>5. pauses' \in 0 .. MaxPauses
    BY <2>2
  <2> QED
    BY <2>1, <2>4, <2>5
<1> QED
  BY <1>1, <1>3, <1>4, <1>5, <1>6 DEF Next

(* What a step of a process can be: one that takes, gives or fills a node, *)
(* or one that only moves the process on.                                  *)
Quietly(p) ==
  Moves(p) /\ IndicesMove /\ data' = data /\ saved' = saved /\ taken' = taken

GivesTo(p) == Give(p) /\ Mine(p).nodes[Slot(Own(p))] = Node(Own(p), Invalid)

LEMMA StepKinds ==
  ASSUME LFQueueAssumption, TypeOK, NodeInv, NEW p \in Processes,
         Step(p) \/ Crash(p) \/ (p \in Producers /\ Push(p))
  PROVE  Quietly(p) \/ (Take(p) /\ StillThere(p)) \/ GivesTo(p) \/ Fill(p)
<1>1. ASSUME Moves(p), ring' = ring, data' = data, saved' = saved, taken' = taken
      PROVE  Quietly(p)
  BY <1>1, NoIndexMoves DEF Quietly
<1>2. CASE LoadTail(p)
  BY <1>1, <1>2, LoadTailMoves DEF LoadTail, Loads
<1>3. CASE LoadHead(p)
  BY <1>1, <1>3, LoadHeadMoves DEF LoadHead, Loads
<1>4. CASE LoadFilled(p)
  BY <1>1, <1>4, LoadFilledMoves DEF LoadFilled, Loads
<1>5. CASE Take(p)
  <2>1. CASE ~ StillThere(p)
    <3>1. data' = data /\ saved' = saved
      BY <1>5 DEF Take, Others
    <3> QED
      BY <1>1, <1>5, <2>1, <3>1, TakeMoves
  <2> QED
    BY <1>5, <2>1
<1>6. CASE FixTail(p)
  BY <1>6, FixTailMoves DEF FixTail, Others, Quietly
<1>7. CASE EndPop(p)
  BY <1>7, EndPopMoves DEF EndPop, Others, Quietly
<1>8. CASE LoadFree(p)
  BY <1>1, <1>8, LoadFreeMoves DEF LoadFree, Loads
<1>9. CASE LoadSlot(p)
  BY <1>1, <1>9, LoadSlotMoves DEF LoadSlot, Loads
<1>10. CASE Give(p)
  <2>1. CASE Mine(p).nodes[Slot(Own(p))] # Node(Own(p), Invalid)
    <3>1. data' = data /\ saved' = saved /\ taken' = taken
      BY <1>10 DEF Give, Others
    <3> QED
      BY <1>1, <1>10, <2>1, <3>1, GiveMoves
  <2> QED
    BY <1>10, <2>1 DEF GivesTo
<1>11. CASE FixHead(p)
  BY <1>11, FixHeadMoves DEF FixHead, Others, Quietly
<1>12. CASE EndPush(p)
  BY <1>12, EndPushMoves DEF EndPush, Others, Quietly
<1>13. CASE Consume(p)
  BY <1>1, <1>13, ConsumeMoves DEF Consume, Loads
<1>14. CASE p \in Consumers /\ Pop(p)
  BY <1>1, <1>14, PopMoves DEF Pop, Calls
<1>15. CASE Crash(p)
  BY <1>1, <1>15, CrashMoves DEF Crash
<1>16. CASE p \in Producers /\ Push(p)
  BY <1>1, <1>16, PushMoves DEF Push, Calls
<1> QED
  BY <1>2, <1>3, <1>4, <1>5, <1>6, <1>7, <1>8, <1>9, <1>10, <1>11, <1>12, <1>13, <1>14, <1>15, <1>16
     DEF Step, RingStep

LEMMA StepKeeps ==
  ASSUME LFQueueAssumption, TypeOK, NodeInv, NEW p \in Processes,
         Step(p) \/ Crash(p) \/ (p \in Producers /\ Push(p))
  PROVE  /\ ring' \in [Names -> RingType] /\ data' \in [Ids -> SomeItem]
         /\ process' \in [Processes -> Local] /\ taken' \in SomeItem /\ saved' = saved
         /\ NodeInv'
<1> USE DEF TypeOK
<1>1. CASE Quietly(p)
  BY <1>1, MovesKeep DEF Quietly, IndicesMove
<1>2. CASE Take(p) /\ StillThere(p)
  <2>1. PICK r, s, id : r = process[p].ring /\ s = process[p].seq /\ id = process[p].node.id
    OBVIOUS
  <2>2. Takes(p, r, s, id) /\ taken' = IF r = "node" THEN data[id] ELSE taken
    BY <1>2, <2>1, TakeTakes
  <2>3. ring' \in [Names -> RingType] /\ id \in Ids
    BY <2>2 DEF Takes
  <2>4. data' = data /\ saved' = saved
    BY <1>2 DEF Take, Others
  <2>5. taken' \in SomeItem
    BY <2>2, <2>3
  <2> QED
    BY <1>2, <2>3, <2>4, <2>5, TakeKeeps
<1>3. CASE GivesTo(p)
  <2>1. PICK r, s, id : r = process[p].ring /\ s = process[p].seq /\ id = process[p].id
    OBVIOUS
  <2>2. Gives(p, r, s, id)
    BY <1>3, <2>1, GiveGives DEF GivesTo
  <2>3. ring' \in [Names -> RingType]
    BY <2>2 DEF Gives
  <2>4. data' = data /\ saved' = saved /\ taken' = taken
    BY <1>3 DEF GivesTo, Give, Others
  <2> QED
    BY <1>3, <2>3, <2>4, GiveKeeps DEF GivesTo
<1>4. CASE Fill(p)
  <2>1. ring' = ring /\ saved' = saved /\ taken' = taken
    BY <1>4 DEF Fill
  <2> QED
    BY <1>4, <2>1, FillKeeps
<1> QED
  BY <1>1, <1>2, <1>3, <1>4, StepKinds

LEMMA AdministratorKeeps ==
  ASSUME LFQueueAssumption, TypeOK, NodeInv, Administrator
  PROVE  /\ ring' \in [Names -> RingType] /\ data' \in [Ids -> SomeItem]
         /\ process' = process /\ taken' = taken
         /\ saved' # <<>> => saved'[1] \in File
         /\ NodeInv'
<1> USE DEF TypeOK
<1>1. CASE Pause \/ Resume
  <2>1. ring' = ring /\ data' = data /\ process' = process /\ saved' = saved /\ taken' = taken
    BY <1>1 DEF Pause, Resume
  <2> QED
    BY <2>1 DEF NodeInv, HeldOnce, LocalsInv, ItemsInv
<1>2. CASE Reset
  <2>1. Quiet /\ ring' = Fresh /\ process' = process /\ saved' = saved /\ taken' = taken
    BY <1>2 DEF Reset
  <2>2. data' \in [Ids -> SomeItem]
    BY <1>2 DEF Reset, SomeItem
  <2>3. NodeInv'
    BY <2>1, FreshIs, QuietKeeps DEF NodeInv
  <2> QED
    BY <2>1, <2>2, <2>3, FreshIs
<1>3. CASE Dump
  <2>1. /\ Quiet /\ ring' = ring /\ data' = data /\ process' = process /\ taken' = taken
        /\ saved' = <<[ring |-> ring, data |-> data]>>
    BY <1>3 DEF Dump
  <2>2. saved'[1] = [ring |-> ring, data |-> data]
    BY <2>1
  <2>3. saved'[1] \in File /\ saved'[1].ring = ring
    BY <2>2 DEF File
  <2>4. NodeInv'
    BY <2>1, <2>3, QuietKeeps DEF NodeInv
  <2> QED
    BY <2>1, <2>3, <2>4
<1>4. CASE Load
  <2>1. /\ Quiet /\ saved # <<>> /\ ring' = saved[1].ring /\ data' = saved[1].data
        /\ process' = process /\ taken' = taken /\ saved' = saved
    BY <1>4 DEF Load
  <2>2. ring' \in [Names -> RingType] /\ data' \in [Ids -> SomeItem]
    BY <2>1 DEF File
  <2>3. NodeInv'
    BY <2>1, QuietKeeps DEF NodeInv
  <2> QED
    BY <2>1, <2>2, <2>3
<1> QED
  BY <1>1, <1>2, <1>3, <1>4 DEF Administrator

LEMMA NextNodes ==
  ASSUME LFQueueAssumption
  PROVE  TypeOK /\ NodeInv /\ [Next]_vars => TypeOK' /\ NodeInv'
<1> SUFFICES ASSUME TypeOK, NodeInv, [Next]_vars PROVE TypeOK' /\ NodeInv'
  OBVIOUS
<1>1. /\ pushes' \in [Producers -> 0 .. MaxPushes] /\ pause' \in BOOLEAN
      /\ crashes' \in 0 .. MaxCrashes /\ pauses' \in 0 .. MaxPauses
  BY NextScalars
<1>2. /\ ring' \in [Names -> RingType] /\ data' \in [Ids -> SomeItem]
      /\ process' \in [Processes -> Local] /\ taken' \in SomeItem
      /\ saved' # <<>> => saved'[1] \in File
      /\ NodeInv'
  <2>1. CASE UNCHANGED vars
    BY <2>1 DEF vars, TypeOK, NodeInv, HeldOnce, LocalsInv, ItemsInv
  <2>2. CASE \E p \in Processes : Step(p) \/ Crash(p) \/ (p \in Producers /\ Push(p))
    BY <2>2, StepKeeps DEF TypeOK
  <2>3. CASE Administrator
    BY <2>3, AdministratorKeeps DEF TypeOK
  <2> QED
    BY <2>1, <2>2, <2>3 DEF Next, Processes
<1> QED
  BY <1>1, <1>2 DEF TypeOK

(* The variables of the lock-free queue keep their types, whatever its     *)
(* processes do.                                                           *)
THEOREM QueueTypeCorrect ==
  ASSUME LFQueueAssumption
  PROVE  Spec => []TypeOK
BY InitNodes, NextNodes, PTL DEF Spec

(* NodeInv holds in every reachable state, for any number of nodes,        *)
(* processes, crashes and pauses (ring.h, queue.c).                        *)
THEOREM NodesCorrect ==
  ASSUME LFQueueAssumption
  PROVE  Spec => []NodeInv
BY InitNodes, NextNodes, PTL DEF Spec

-----------------------------------------------------------------------------
(* What the invariant says to a user of the queue.                         *)

(* A node's places, at most one.                                           *)
LEMMA OnePlace ==
  ASSUME LFQueueAssumption, NodeInv, NEW id \in Ids
  PROVE  \/ Places(id) = {}
         \/ \E r \in Names, i \in Ids : ring[r].nodes[i].id = id /\ Places(id) = {<<r, i>>}
         \/ \E p \in Processes : process[p].id = id /\ Places(id) = {<<p, 0>>}
<1> DEFINE slots == {s \in Names \X Ids : ring[s[1]].nodes[s[2]].id = id}
           holders == {q \in Processes : process[q].id = id}
<1>1. Places(id) = slots \cup {<<p, 0>> : p \in holders} /\ id # Invalid
  BY CountIs DEF Places
<1>2. ASSUME NEW r \in Names, NEW i \in Ids, ring[r].nodes[i].id = id
      PROVE  Places(id) = {<<r, i>>}
  <2>1. holders = {}
    BY <1>1, <1>2 DEF NodeInv, HeldOnce
  <2>2. ASSUME NEW q \in Names, NEW j \in Ids, ring[q].nodes[j].id = id PROVE q = r /\ j = i
    BY <1>1, <1>2, <2>2 DEF NodeInv, RingsInv, Distinct
  <2>3. slots = {<<r, i>>}
    BY <1>2, <2>2
  <2> HIDE DEF slots, holders
  <2> QED
    BY <1>1, <2>1, <2>3
<1>3. ASSUME NEW p \in Processes, process[p].id = id
      PROVE  Places(id) = {<<p, 0>>}
  <2>1. slots = {}
    BY <1>1, <1>3 DEF NodeInv, HeldOnce
  <2>2. holders = {p}
    BY <1>1, <1>3 DEF NodeInv, HeldOnce
  <2> HIDE DEF slots, holders
  <2> QED
    BY <1>1, <2>1, <2>2
<1>4. CASE slots = {} /\ holders = {}
  <2> HIDE DEF slots, holders
  <2> QED
    BY <1>1, <1>4
<1> QED
  BY <1>2, <1>3, <1>4

LEMMA NotShared ==
  ASSUME LFQueueAssumption, NodeInv
  PROVE  NoSharedNode
<1> SUFFICES ASSUME NEW id \in Ids PROVE Cardinality(Places(id)) <= 1
  BY DEF NoSharedNode
<1>1. CASE Places(id) = {}
  BY <1>1, FS_EmptySet
<1>2. ASSUME NEW x, Places(id) = {x} PROVE Cardinality(Places(id)) <= 1
  <2>1. Cardinality({x}) = 1
    BY FS_Singleton
  <2> QED
    BY <1>2, <2>1
<1> QED
  BY <1>1, <1>2, OnePlace

(* NoSharedNode: no node is in two slots, in a slot and with a process, or *)
(* with two processes, so that nobody writes what another reads            *)
(* (LFRing_push and LFRing_pop, ring.h).                                   *)
THEOREM SharedNodeCorrect ==
  ASSUME LFQueueAssumption
  PROVE  Spec => []NoSharedNode
BY NodesCorrect, NotShared, PTL

LEMMA Encloses ==
  ASSUME LFQueueAssumption, TypeOK, NodeInv
  PROVE  IndicesEnclose
<1> SUFFICES ASSUME NEW r \in Names
    PROVE  /\ ring[r].tail <= ring[r].head
           /\ \A i \in Ids : ring[r].nodes[i].id # Invalid =>
                ring[r].nodes[i].seq \in ring[r].tail .. ring[r].head
  BY DEF IndicesEnclose, TypeOK
<1> DEFINE a == ring[r]
           t == NextTaken(a)
           h == NextGiven(a)
<1>1. /\ a \in RingType /\ a.tail \in Nat /\ a.head \in Nat /\ t \in Nat /\ h \in Nat
      /\ t \in {a.tail, a.tail + 1} /\ h \in {a.head, a.head + 1}
  BY NextIs DEF TypeOK
<1>2. Window(a, t, h) /\ t <= a.head
  BY DEF NodeInv, RingsInv, Windowed, Window
<1>3. ASSUME NEW i \in Ids PROVE InWindow(a.nodes[i], t, h)
  <2>1. PICK s \in t .. t + Count - 1 : Slot(s) = i
    BY <1>1, SlotsCover
  <2>2. s \in Nat
    BY <1>1, CountIs, <2>1
  <2> HIDE DEF a, t, h
  <2> QED
    BY <1>1, <1>2, <2>1, <2>2, SlotHolds
<1>4. ASSUME NEW i \in Ids, a.nodes[i].id # Invalid
      PROVE  a.nodes[i].seq \in a.tail .. a.head
  <2>1. a.nodes[i].seq \in t .. t + Count - 1 /\ a.nodes[i].seq < h
    BY <1>1, <1>3, <1>4, CountIs DEF InWindow
  <2> QED
    BY <1>1, <2>1, CountIs
<1>5. a.tail <= a.head
  BY <1>1, <1>2
<1> QED
  BY <1>4, <1>5

(* IndicesEnclose: no filled slot is before the tail or behind the head,   *)
(* though an index moves on after its slot, by whoever finds it behind     *)
(* (LFRing_push and LFRing_pop, ring.h).                                   *)
THEOREM EncloseCorrect ==
  ASSUME LFQueueAssumption
  PROVE  Spec => []IndicesEnclose
BY QueueTypeCorrect, NodesCorrect, Encloses, PTL

-----------------------------------------------------------------------------
(* No node is lost without a crash.                                        *)

InSlot(a, id) == \E r \in Names, i \in Ids : a[r].nodes[i].id = id

InProcess(id) == \E p \in Processes : process[p].id = id

(* Every id is in a slot or a process, and in the file, which is of a      *)
(* moment when no process held any, in a slot.                             *)
AllKept ==
  crashes = 0 =>
    /\ \A id \in Ids : InSlot(ring, id) \/ InProcess(id)
    /\ saved # <<>> => \A id \in Ids : InSlot(saved[1].ring, id)

(* A fresh queue has every id once, in the ring of free nodes.             *)
LEMMA FreshHasAll ==
  ASSUME LFQueueAssumption, NEW id \in Ids
  PROVE  /\ Fresh["resc"].nodes[id].id = id
         /\ \A r \in Names, i \in Ids : Fresh[r].nodes[i].id = id => r = "resc" /\ i = id
<1>1. Names = {"resc", "node"} /\ \A i \in Ids : i < Count /\ ~ (i < 0) /\ i # Invalid
  BY CountIs DEF Names, Ids
<1>2. /\ \A i \in Ids : RingOf(Count).nodes[i] = Node(i, i)
      /\ \A i \in Ids : RingOf(0).nodes[i] = Node(i, Invalid)
  BY <1>1 DEF RingOf
<1>3. Fresh["resc"] = RingOf(Count) /\ Fresh["node"] = RingOf(0)
  BY <1>1 DEF Fresh
<1> QED
  BY <1>1, <1>2, <1>3, NodeIs

LEMMA InitKeepsAll ==
  ASSUME LFQueueAssumption, Init
  PROVE  AllKept
<1>1. ASSUME NEW id \in Ids PROVE InSlot(Fresh, id)
  BY FreshHasAll DEF InSlot, Names
<1> QED
  BY <1>1 DEF Init, AllKept

(* A step of a process passes an id on, if it is not a crash.              *)
LEMMA StepKeepsAll ==
  ASSUME LFQueueAssumption, TypeOK, NodeInv, NEW p \in Processes,
         Step(p) \/ Crash(p) \/ (p \in Producers /\ Push(p)), crashes' = crashes,
         NEW id \in Ids, InSlot(ring, id) \/ InProcess(id)
  PROVE  InSlot(ring', id) \/ InProcess(id)'
<1>1. process \in [Processes -> Local] /\ id # Invalid
  BY CountIs DEF TypeOK
<1>2. CASE Quietly(p)
  <2>1. PICK m \in Local : process' = [process EXCEPT ![p] = m] /\ m.id = process[p].id
    BY <1>2 DEF Quietly, Moves
  <2>2. \A q \in Processes : process'[q].id = process[q].id
    BY <1>1, <2>1
  <2>3. \A r \in Names : ring'[r].nodes = ring[r].nodes
    BY <1>2 DEF Quietly, IndicesMove
  <2> QED
    BY <2>2, <2>3 DEF InSlot, InProcess
<1>3. CASE Take(p) /\ StillThere(p)
  <2> DEFINE l == process[p]
             m == [l EXCEPT !.at = "tailEnd", !.id = l.node.id, !.node = Node(0, 0), !.true = l.seq]
  <2>1. PICK r, s, k : r = l.ring /\ s = l.seq /\ k = l.node.id
    OBVIOUS
  <2>2. Takes(p, r, s, k)
    BY <1>3, <2>1, TakeTakes
  <2>3. process' = [process EXCEPT ![p] = m]
    BY <1>3 DEF Take, Become, StillThere, Loaded, Own
  <2>4. l \in Local /\ k \in SomeId /\ l.at = "take" /\ LocalInv(l, ring[l.ring])
    BY <1>3, <2>2, LocalOf DEF Take, Takes, SomeId
  <2>5. l.id = Invalid
    BY <2>4 DEF LocalInv, EmptyHanded
  <2>6. m.id = k
    <3> HIDE DEF l
    <3> QED
      BY <2>1, <2>4 DEF Local
  <2> HIDE DEF m
  <2>7. process'[p].id = k /\ \A q \in Processes : q # p => process'[q] = process[q]
    BY <1>1, <2>3, <2>6
  <2>8. /\ ring[r].nodes[Slot(s)].id = k
        /\ \A q \in Names, i \in Ids :
             ~ (q = r /\ i = Slot(s)) => ring'[q].nodes[i] = ring[q].nodes[i]
    BY <2>2, TakesSlot
  <2> QED
    BY <1>1, <2>5, <2>7, <2>8 DEF InSlot, InProcess
<1>4. CASE GivesTo(p)
  <2>1. PICK r, s, k : r = process[p].ring /\ s = process[p].seq /\ k = process[p].id
    OBVIOUS
  <2>2. Gives(p, r, s, k)
    BY <1>4, <2>1, GiveGives DEF GivesTo
  <2>3. \A q \in Processes : q # p => process'[q] = process[q]
    BY <1>1, <1>4 DEF GivesTo, Give, Become
  <2>4. /\ ring'[r].nodes[Slot(s)].id = k /\ ring[r].nodes[Slot(s)].id = Invalid
        /\ \A q \in Names, i \in Ids :
             ~ (q = r /\ i = Slot(s)) => ring'[q].nodes[i] = ring[q].nodes[i]
    BY <2>2, GivesSlot
  <2>5. r \in Names /\ Slot(s) \in Ids
    BY <2>2, SlotIs DEF Gives
  <2> QED
    BY <1>1, <2>1, <2>3, <2>4, <2>5 DEF InSlot, InProcess
<1>5. CASE Fill(p)
  <2>1. process' = [process EXCEPT ![p] = Pushing(process[p], "node")] /\ ring' = ring
    BY <1>5 DEF Fill, Become
  <2>2. Pushing(process[p], "node").id = process[p].id
    BY LocalOf, PushingIs DEF Names
  <2>3. \A q \in Processes : process'[q].id = process[q].id
    BY <1>1, <2>1, <2>2
  <2> QED
    BY <2>1, <2>3 DEF InSlot, InProcess
<1> QED
  BY <1>2, <1>3, <1>4, <1>5, StepKinds

LEMMA CrashesGrow ==
  ASSUME LFQueueAssumption, TypeOK, [Next]_vars
  PROVE  crashes' = 0 => crashes = 0 /\ crashes' = crashes
<1> USE DEF Calls, Loads, Others
<1>1. crashes \in Nat
  BY DEF TypeOK, LFQueueAssumption
<1>2. CASE UNCHANGED vars
  BY <1>2 DEF vars
<1>3. ASSUME NEW p \in Processes, Step(p) PROVE crashes' = crashes
  BY <1>3 DEF Step, RingStep, LoadTail, LoadHead, LoadFilled, Take, FixTail, EndPop, LoadFree,
     LoadSlot, Give, FixHead, EndPush, Fill, Consume, Pop
<1>4. ASSUME NEW p \in Processes, Crash(p) PROVE crashes' = crashes + 1
  BY <1>4 DEF Crash
<1>5. ASSUME NEW p \in Producers, Push(p) PROVE crashes' = crashes
  BY <1>5 DEF Push
<1>6. CASE Administrator
  BY <1>6 DEF Administrator, Pause, Resume, Reset, Dump, Load
<1> QED
  BY <1>1, <1>2, <1>3, <1>4, <1>5, <1>6 DEF Next

LEMMA NextKeepsAll ==
  ASSUME LFQueueAssumption
  PROVE  TypeOK /\ NodeInv /\ AllKept /\ [Next]_vars => AllKept'
<1> SUFFICES ASSUME TypeOK, NodeInv, AllKept, [Next]_vars, crashes' = 0
             PROVE  /\ \A id \in Ids : InSlot(ring', id) \/ InProcess(id)'
                    /\ saved' # <<>> => \A id \in Ids : InSlot(saved'[1].ring, id)
  BY DEF AllKept
<1>1. crashes' = crashes
  BY CrashesGrow
<1>2. /\ \A id \in Ids : InSlot(ring, id) \/ InProcess(id)
      /\ saved # <<>> => \A id \in Ids : InSlot(saved[1].ring, id)
  BY CrashesGrow DEF AllKept
<1>3. CASE UNCHANGED vars
  BY <1>2, <1>3 DEF vars, InSlot, InProcess
<1>4. ASSUME NEW p \in Processes, Step(p) \/ Crash(p) \/ (p \in Producers /\ Push(p))
      PROVE  /\ \A id \in Ids : InSlot(ring', id) \/ InProcess(id)'
             /\ saved' = saved
  BY <1>1, <1>2, <1>4, StepKeepsAll, StepKeeps
<1>5. ASSUME Quiet PROVE \A id \in Ids : InSlot(ring, id)
  <2>1. \A p \in Processes : process[p].id = Invalid
    BY <1>5 DEF Quiet, NodeInv, LocalsInv, LocalInv, EmptyHanded
  <2>2. \A id \in Ids : id # Invalid
    BY CountIs
  <2> QED
    BY <1>2, <2>1, <2>2 DEF InProcess
<1>6. CASE Pause \/ Resume
  <2>1. ring' = ring /\ process' = process /\ saved' = saved
    BY <1>6 DEF Pause, Resume
  <2> QED
    BY <1>2, <2>1 DEF InProcess
<1>7. CASE Reset
  <2>1. \A id \in Ids : InSlot(Fresh, id)
    BY FreshHasAll DEF InSlot, Names
  <2> QED
    BY <1>2, <1>7, <2>1 DEF Reset
<1>8. CASE Dump
  <2>1. saved' = <<[ring |-> ring, data |-> data]>> /\ ring' = ring /\ Quiet
    BY <1>8 DEF Dump
  <2>2. saved'[1].ring = ring
    BY <2>1
  <2> QED
    BY <1>5, <2>1, <2>2
<1>9. CASE Load
  BY <1>2, <1>9 DEF Load
<1> QED
  BY <1>2, <1>3, <1>4, <1>6, <1>7, <1>8, <1>9 DEF Next, Administrator, Processes

LEMMA KeptHasPlace ==
  ASSUME AllKept
  PROVE  NoNodeLost
<1>1. ASSUME NEW id, NEW r \in Names, NEW i \in Ids, ring[r].nodes[i].id = id
      PROVE  Places(id) # {}
  <2>1. <<r, i>> \in {s \in Names \X Ids : ring[s[1]].nodes[s[2]].id = id}
    BY <1>1
  <2> QED
    BY <2>1 DEF Places
<1>2. ASSUME NEW id, NEW p \in Processes, process[p].id = id
      PROVE  Places(id) # {}
  <2>1. <<p, 0>> \in {<<q, 0>> : q \in {q \in Processes : process[q].id = id}}
    BY <1>2
  <2> QED
    BY <2>1 DEF Places
<1> QED
  BY <1>1, <1>2 DEF AllKept, NoNodeLost, InSlot, InProcess

(* NoNodeLost: a node is always somewhere unless a process crashed with    *)
(* it: no loop gives up with an id in its hand, and the file of LFQueue_   *)
(* dump misses none (ring.h, queue.c).                                     *)
THEOREM NodeLostCorrect ==
  ASSUME LFQueueAssumption
  PROVE  Spec => []NoNodeLost
<1>1. Init => AllKept
  BY InitKeepsAll
<1>2. TypeOK /\ NodeInv /\ AllKept /\ [Next]_vars => AllKept'
  BY NextKeepsAll
<1>3. AllKept => NoNodeLost
  BY KeptHasPlace
<1> QED
  BY <1>1, <1>2, <1>3, QueueTypeCorrect, NodesCorrect, PTL DEF Spec

-----------------------------------------------------------------------------
(* Reset.                                                                  *)

(* While the queue is quiet no process touches a ring.                     *)
LEMMA QuietStays ==
  ASSUME LFQueueAssumption, Quiet, NEW p \in Processes,
         Step(p) \/ Crash(p) \/ (p \in Producers /\ Push(p))
  PROVE  ring' = ring
<1>1. process[p].at \in {"idle", "crashed"}
  BY DEF Quiet
<1>2. CASE RingStep(p) \/ Fill(p) \/ Consume(p)
  BY <1>1, <1>2 DEF RingStep, LoadTail, LoadHead, LoadFilled, Take, FixTail, EndPop, LoadFree,
     LoadSlot, Give, FixHead, EndPush, Fill, Consume
<1>3. CASE Pop(p) \/ Crash(p) \/ (p \in Producers /\ Push(p))
  BY <1>3 DEF Pop, Crash, Push, Calls
<1> QED
  BY <1>2, <1>3 DEF Step

LEMMA ResetGivesBack ==
  ASSUME LFQueueAssumption, NodeInv, Reset, NEW id \in Ids
  PROVE  Cardinality(Places(id)') = 1
<1>1. ring' = Fresh /\ process' = process
  BY DEF Reset
<1>2. \A p \in Processes : process[p].id = Invalid
  BY DEF Reset, Quiet, NodeInv, LocalsInv, LocalInv, EmptyHanded
<1>3. {q \in Processes : process[q].id = id} = {}
  BY <1>2, CountIs
<1>4. {s \in Names \X Ids : Fresh[s[1]].nodes[s[2]].id = id} = {<<"resc", id>>}
  BY FreshHasAll DEF Names
<1>5. Places(id)' = {<<"resc", id>>}
  <2>1. Places(id)' = {s \in Names \X Ids : Fresh[s[1]].nodes[s[2]].id = id}
                      \cup {<<q, 0>> : q \in {q \in Processes : process[q].id = id}}
    BY <1>1 DEF Places
  <2> QED
    BY <1>3, <1>4, <2>1
<1> QED
  BY <1>5, FS_Singleton

LEMMA NextResets ==
  ASSUME LFQueueAssumption
  PROVE  NodeInv /\ [Next]_vars => [ResetRepairs]_vars
<1> SUFFICES ASSUME NodeInv, [Next]_vars, ring' # ring, Quiet, saved = <<>>
             PROVE  \A id \in Ids : Cardinality(Places(id)') = 1
  BY DEF ResetRepairs
<1>1. ~ UNCHANGED vars
  BY DEF vars
<1>2. \A p \in Processes : ~ (Step(p) \/ Crash(p) \/ (p \in Producers /\ Push(p)))
  BY QuietStays
<1>3. Administrator
  BY <1>1, <1>2 DEF Next, Processes
<1>4. Reset
  BY <1>3 DEF Administrator, Pause, Resume, Dump, Load
<1> QED
  BY <1>4, ResetGivesBack

(* ResetRepairs: a reset has every node exactly once again, whatever the   *)
(* crashes before it lost (LFQueue_reset, queue.c).                        *)
THEOREM ResetCorrect ==
  ASSUME LFQueueAssumption
  PROVE  Spec => [][ResetRepairs]_vars
BY NodesCorrect, NextResets, PTL DEF Spec

-----------------------------------------------------------------------------
(* The queue implements the bounded queue of Fifo.                         *)

(* Functions from 1 to n as sequences.                                     *)
LEMMA FunctionIsSequence ==
  ASSUME NEW n \in Nat, NEW S, NEW q \in [1 .. n -> S]
  PROVE  q \in Seq(S) /\ Len(q) = n
<1>1. q = [k \in 1 .. n |-> q[k]] /\ \A k \in 1 .. n : q[k] \in S
  OBVIOUS
<1>2. [k \in 1 .. n |-> q[k]] \in Seq(S) /\ Len([k \in 1 .. n |-> q[k]]) = n
  BY <1>1
<1> QED
  BY <1>1, <1>2

LEMMA LongerIsAppend ==
  ASSUME NEW n \in Nat, NEW S, NEW q \in [1 .. n -> S], NEW b \in [1 .. n + 1 -> S],
         \A k \in 1 .. n : b[k] = q[k]
  PROVE  b = Append(q, b[n + 1]) /\ Len(q) = n
<1>1. b[n + 1] \in S
  OBVIOUS
<1>2. q \in Seq(S) /\ Len(q) = n /\ b \in Seq(S) /\ Len(b) = n + 1
  BY FunctionIsSequence
<1> DEFINE a == Append(q, b[n + 1])
<1>3. /\ a \in Seq(S) /\ Len(a) = n + 1 /\ a[n + 1] = b[n + 1]
      /\ \A k \in 1 .. n : a[k] = q[k]
  BY <1>1, <1>2, AppendProperties
<1> HIDE DEF a
<1>4. \A k \in 1 .. n + 1 : a[k] = b[k]
  BY <1>3
<1>5. a = b
  BY <1>2, <1>3, <1>4, SeqEqual
<1> QED
  BY <1>2, <1>5 DEF a

LEMMA ShorterIsTail ==
  ASSUME NEW n \in Nat, NEW S, NEW q \in [1 .. n + 1 -> S], NEW b \in [1 .. n -> S],
         \A k \in 1 .. n : b[k] = q[k + 1]
  PROVE  q # <<>> /\ Head(q) = q[1] /\ b = Tail(q)
<1>1. q \in Seq(S) /\ Len(q) = n + 1 /\ b \in Seq(S) /\ Len(b) = n
  BY FunctionIsSequence
<1>2. q # <<>>
  BY <1>1, EmptySeq
<1>3. /\ Head(q) = q[1] /\ Tail(q) \in Seq(S) /\ Len(Tail(q)) = n
      /\ \A k \in 1 .. n : Tail(q)[k] = q[k + 1]
  BY <1>1, <1>2, HeadTailProperties
<1>4. b = Tail(q)
  BY <1>1, <1>3, SeqEqual
<1> QED
  BY <1>2, <1>3, <1>4

(* The data d of the nodes of ring r with the sequence numbers t .. h - 1. *)
Contents(r, d, t, h) == [k \in 1 .. h - t |-> d[r.nodes[Slot(t + k - 1)].id]]

LEMMA QueuedIs ==
  LET r == ring["node"]
  IN  Queued = Contents(r, data, NextTaken(r), NextGiven(r))
BY DEF Queued, Contents

LEMMA ContentsIs ==
  ASSUME LFQueueAssumption, NEW r, NEW t \in Nat, NEW h \in Nat, Window(r, t, h), r.head \in Nat,
         NEW d \in [Ids -> SomeItem]
  PROVE  /\ Contents(r, d, t, h) \in [1 .. h - t -> SomeItem]
         /\ h - t \in Nat /\ h - t <= Count
         /\ \A k \in 1 .. h - t : /\ t + k - 1 \in t .. h - 1
                                  /\ r.nodes[Slot(t + k - 1)].id \in Ids
                                  /\ Contents(r, d, t, h)[k] = d[r.nodes[Slot(t + k - 1)].id]
<1>1. t <= h /\ h <= t + Count /\ Count \in Nat
  BY CountIs DEF Window
<1>2. \A k \in 1 .. h - t : t + k - 1 \in t .. h - 1
  BY <1>1
<1>3. \A k \in 1 .. h - t : r.nodes[Slot(t + k - 1)].id \in Ids
  BY <1>2 DEF Window
<1> QED
  BY <1>1, <1>2, <1>3 DEF Contents

(* Filling a node that is in no slot, or moving an index, changes nothing. *)
LEMMA ContentsKept ==
  ASSUME LFQueueAssumption, NEW r, NEW t \in Nat, NEW h \in Nat, Window(r, t, h), r.head \in Nat,
         NEW d \in [Ids -> SomeItem], NEW b, b.nodes = r.nodes, NEW e \in [Ids -> SomeItem],
         \A i \in Ids : r.nodes[i].id \in Ids => e[r.nodes[i].id] = d[r.nodes[i].id]
  PROVE  Contents(b, e, t, h) = Contents(r, d, t, h)
<1>1. \A k \in 1 .. h - t : t + k - 1 \in t .. h - 1 /\ r.nodes[Slot(t + k - 1)].id \in Ids
  BY ContentsIs
<1>2. \A k \in 1 .. h - t : Slot(t + k - 1) \in Ids
  BY <1>1, SlotIs
<1> QED
  BY <1>1, <1>2 DEF Contents

(* Giving a node appends what it holds.                                    *)
LEMMA ContentsGrow ==
  ASSUME LFQueueAssumption, NEW r \in RingType, NEW t \in Nat, NEW h \in Nat, Window(r, t, h),
         NEW d \in [Ids -> SomeItem], h < t + Count, NEW id \in Ids,
         NEW b \in RingType, Window(b, t, h + 1), b.nodes = [r.nodes EXCEPT ![Slot(h)] = Node(h, id)]
  PROVE  /\ Contents(b, d, t, h + 1) = Append(Contents(r, d, t, h), d[id])
         /\ Len(Contents(r, d, t, h)) < Count
<1>1. /\ r.head \in Nat /\ b.head \in Nat /\ Count \in Nat /\ h + 1 \in Nat
      /\ r.nodes \in [Ids -> NodeType] /\ Slot(h) \in Ids
  BY CountIs, SlotIs DEF RingType
<1> DEFINE n == h - t
           q == Contents(r, d, t, h)
           c == Contents(b, d, t, h + 1)
<1>2. /\ q \in [1 .. n -> SomeItem] /\ n \in Nat
      /\ \A k \in 1 .. n : /\ t + k - 1 \in t .. h - 1
                           /\ q[k] = d[r.nodes[Slot(t + k - 1)].id]
  BY <1>1, ContentsIs
<1>3. h + 1 - t = n + 1
  BY <1>1
<1>4. /\ c \in [1 .. n + 1 -> SomeItem]
      /\ \A k \in 1 .. n + 1 : c[k] = d[b.nodes[Slot(t + k - 1)].id]
  <2>1. PICK g \in Nat : g = h + 1
    BY <1>1
  <2>2. Window(b, t, g) /\ c = Contents(b, d, t, g) /\ g - t = n + 1
    BY <1>3, <2>1
  <2> HIDE DEF n, c
  <2>3. /\ c \in [1 .. g - t -> SomeItem]
        /\ \A k \in 1 .. g - t : c[k] = d[b.nodes[Slot(t + k - 1)].id]
    BY <1>1, <2>2, ContentsIs
  <2> QED
    BY <2>2, <2>3
<1>5. ASSUME NEW k \in 1 .. n PROVE c[k] = q[k]
  <2>1. t + k - 1 \in Nat /\ t + k - 1 < h /\ h < t + k - 1 + Count
    BY <1>1, <1>2
  <2>2. Slot(t + k - 1) # Slot(h) /\ Slot(t + k - 1) \in Ids
    BY <2>1, SlotsDiffer, SlotIs
  <2>3. b.nodes[Slot(t + k - 1)] = r.nodes[Slot(t + k - 1)]
    BY <1>1, <2>2
  <2>4. k \in 1 .. n + 1
    BY <1>2
  <2> HIDE DEF q, c, n
  <2> QED
    BY <1>2, <1>4, <2>3, <2>4
<1>6. c[n + 1] = d[id]
  <2>1. t + (n + 1) - 1 = h /\ n + 1 \in 1 .. n + 1
    BY <1>2
  <2>2. b.nodes[Slot(h)].id = id
    BY <1>1, NodeIs
  <2> HIDE DEF q, c, n
  <2> QED
    BY <1>4, <2>1, <2>2
<1>7. n < Count
  BY <1>1
<1> HIDE DEF q, c, n
<1>8. c = Append(q, c[n + 1]) /\ Len(q) = n
  BY <1>2, <1>4, <1>5, LongerIsAppend
<1> QED
  BY <1>6, <1>7, <1>8 DEF q, c

(* Taking the first one drops its data.                                    *)
LEMMA ContentsShrink ==
  ASSUME LFQueueAssumption, NEW r \in RingType, NEW t \in Nat, NEW h \in Nat, Window(r, t, h),
         NEW d \in [Ids -> SomeItem], t < h,
         NEW u \in Nat, u = t + 1,
         NEW b \in RingType, Window(b, u, h), \A i \in Ids : i # Slot(t) => b.nodes[i] = r.nodes[i]
  PROVE  /\ Contents(r, d, t, h) # <<>>
         /\ Head(Contents(r, d, t, h)) = d[r.nodes[Slot(t)].id]
         /\ Contents(b, d, u, h) = Tail(Contents(r, d, t, h))
<1>1. /\ r.head \in Nat /\ b.head \in Nat /\ Count \in Nat
      /\ r.nodes \in [Ids -> NodeType]
  BY CountIs DEF RingType
<1> DEFINE n == h - u
           q == Contents(r, d, t, h)
           c == Contents(b, d, u, h)
<1>2. n \in Nat /\ h - t = n + 1 /\ h <= t + Count
  BY <1>1 DEF Window
<1>3. /\ q \in [1 .. n + 1 -> SomeItem]
      /\ \A k \in 1 .. n + 1 : q[k] = d[r.nodes[Slot(t + k - 1)].id]
  <2>1. \A k \in 1 .. h - t : t + k - 1 \in t .. h - 1
    BY <1>2
  <2>2. \A k \in 1 .. h - t : r.nodes[Slot(t + k - 1)].id \in Ids
    BY <2>1 DEF Window
  <2>3. /\ q \in [1 .. h - t -> SomeItem]
        /\ \A k \in 1 .. h - t : q[k] = d[r.nodes[Slot(t + k - 1)].id]
    BY <2>2 DEF Contents
  <2> HIDE DEF n, q
  <2> QED
    BY <1>2, <2>3
<1>4. /\ c \in [1 .. n -> SomeItem]
      /\ \A k \in 1 .. n : c[k] = d[b.nodes[Slot(u + k - 1)].id]
  <2>1. \A k \in 1 .. n : u + k - 1 \in u .. h - 1
    BY <1>2
  <2>2. \A k \in 1 .. n : b.nodes[Slot(u + k - 1)].id \in Ids
    BY <2>1 DEF Window
  <2> QED
    BY <2>2 DEF Contents
<1>5. ASSUME NEW k \in 1 .. n PROVE c[k] = q[k + 1]
  <2>1. /\ u + k - 1 = t + (k + 1) - 1 /\ u + k - 1 \in Nat
        /\ t < u + k - 1 /\ u + k - 1 < t + Count /\ k + 1 \in 1 .. n + 1
    BY <1>1, <1>2
  <2>2. Slot(u + k - 1) # Slot(t) /\ Slot(u + k - 1) \in Ids
    BY <2>1, SlotsDiffer, SlotIs
  <2>3. b.nodes[Slot(u + k - 1)] = r.nodes[Slot(u + k - 1)]
    BY <1>1, <2>2
  <2> HIDE DEF q, c, n
  <2> QED
    BY <1>3, <1>4, <2>1, <2>3
<1>6. q[1] = d[r.nodes[Slot(t)].id]
  <2>1. t + 1 - 1 = t /\ 1 \in 1 .. n + 1
    BY <1>2
  <2> HIDE DEF q, n
  <2> QED
    BY <1>3, <2>1
<1> HIDE DEF q, c, n
<1>7. q # <<>> /\ Head(q) = q[1] /\ c = Tail(q)
  BY <1>2, <1>3, <1>4, <1>5, ShorterIsTail
<1> QED
  BY <1>6, <1>7 DEF q, c

(* The filled ring as the lemmas above see it.                             *)
LEMMA NodeRing ==
  ASSUME LFQueueAssumption, TypeOK, NodeInv, NEW r, r = ring["node"]
  PROVE  /\ r \in RingType /\ r.head \in Nat /\ r.nodes \in [Ids -> NodeType]
         /\ NextTaken(r) \in Nat /\ NextGiven(r) \in Nat
         /\ Window(r, NextTaken(r), NextGiven(r)) /\ data \in [Ids -> SomeItem]
         /\ Queued = Contents(r, data, NextTaken(r), NextGiven(r))
<1>1. r \in RingType /\ Windowed(r) /\ data \in [Ids -> SomeItem]
  BY DEF TypeOK, NodeInv, RingsInv, Names
<1>2. r.head \in Nat /\ r.nodes \in [Ids -> NodeType]
  BY <1>1 DEF RingType
<1> QED
  BY <1>1, <1>2, NextIs, QueuedIs DEF Windowed

LEMMA QueuedNext ==
  \A r : r = ring'["node"] => Queued' = Contents(r, data', NextTaken(r), NextGiven(r))
BY DEF Queued, Contents

(* Steps that leave the filled ring and what its nodes hold alone.         *)
LEMMA QueuedKept ==
  ASSUME LFQueueAssumption, TypeOK, NodeInv, ring'["node"].nodes = ring["node"].nodes,
         NextTaken(ring'["node"]) = NextTaken(ring["node"]),
         NextGiven(ring'["node"]) = NextGiven(ring["node"]), data' \in [Ids -> SomeItem],
         \A i \in Ids : ring["node"].nodes[i].id \in Ids =>
           data'[ring["node"].nodes[i].id] = data[ring["node"].nodes[i].id]
  PROVE  Queued' = Queued
<1>1. PICK r, b, t, h : r = ring["node"] /\ b = ring'["node"] /\ t = NextTaken(r) /\ h = NextGiven(r)
  OBVIOUS
<1>2. /\ t \in Nat /\ h \in Nat /\ Window(r, t, h) /\ r.head \in Nat /\ data \in [Ids -> SomeItem]
      /\ Queued = Contents(r, data, t, h)
  BY <1>1, NodeRing
<1>3. Queued' = Contents(b, data', t, h) /\ b.nodes = r.nodes
  BY <1>1, QueuedNext
<1>4. Contents(b, data', t, h) = Contents(r, data, t, h)
  BY <1>1, <1>2, <1>3, ContentsKept
<1> QED
  BY <1>2, <1>3, <1>4

(* The compare-and-swap that empties a slot of the filled ring gets.       *)
LEMMA TakeGets ==
  ASSUME LFQueueAssumption, TypeOK, NodeInv, NEW p \in Processes, Take(p), StillThere(p)
  PROVE  Queue!Get \/ UNCHANGED <<Queued, taken>>
<1>1. PICK q, s, id : q = process[p].ring /\ s = process[p].seq /\ id = process[p].node.id
  OBVIOUS
<1>2. Takes(p, q, s, id) /\ taken' = IF q = "node" THEN data[id] ELSE taken
  BY <1>1, TakeTakes
<1>3. data' = data
  BY DEF Take, Others
<1>4. ring' \in [Names -> RingType] /\ q \in Names /\ data \in [Ids -> SomeItem]
  BY <1>2 DEF Takes, TypeOK
<1>5. CASE q = "node"
  <2>1. PICK r, b, h : r = ring["node"] /\ b = ring'["node"] /\ h = NextGiven(r)
    OBVIOUS
  <2>2. /\ r \in RingType /\ h \in Nat /\ NextTaken(r) \in Nat
        /\ Window(r, NextTaken(r), h) /\ Queued = Contents(r, data, NextTaken(r), h)
    BY <2>1, NodeRing
  <2>3. /\ s = NextTaken(r) /\ s < h /\ r.nodes[Slot(s)].id = id
        /\ b.nodes = [r.nodes EXCEPT ![Slot(s)] = Freed(s)]
        /\ Windowed(b) /\ NextTaken(b) = s + 1 /\ NextGiven(b) = h
    BY <1>2, <1>5, <2>1 DEF Takes
  <2>4. b \in RingType /\ Window(b, s + 1, h)
    BY <1>4, <2>1, <2>3 DEF Windowed, Names
  <2>5. Queued' = Contents(b, data, s + 1, h)
    BY <1>3, <2>1, <2>3, QueuedNext
  <2>6. /\ Queued # <<>> /\ Head(Queued) = data[id]
        /\ Queued' = Tail(Queued)
    <3>1. s \in Nat /\ Window(r, s, h) /\ Queued = Contents(r, data, s, h)
      BY <2>2, <2>3
    <3>2. PICK u \in Nat : u = s + 1 /\ Window(b, u, h) /\ Queued' = Contents(b, data, u, h)
      BY <2>4, <2>5, <3>1
    <3>3. PICK d : d = data
      OBVIOUS
    <3>4. /\ r \in RingType /\ b \in RingType /\ h \in Nat /\ s < h /\ d \in [Ids -> SomeItem]
          /\ \A i \in Ids : i # Slot(s) => b.nodes[i] = r.nodes[i]
      BY <1>4, <2>2, <2>3, <2>4, <3>3 DEF RingType
    <3>5. /\ Contents(r, d, s, h) # <<>>
          /\ Head(Contents(r, d, s, h)) = d[r.nodes[Slot(s)].id]
          /\ Contents(b, d, u, h) = Tail(Contents(r, d, s, h))
      BY <3>1, <3>2, <3>4, ContentsShrink
    <3> QED
      BY <2>3, <3>1, <3>2, <3>3, <3>5
  <2> QED
    BY <1>2, <1>5, <2>6 DEF Queue!Get
<1>6. CASE q # "node"
  <2>1. ring'["node"] = ring["node"] /\ taken' = taken
    BY <1>2, <1>6 DEF Takes, Names
  <2> QED
    BY <1>3, <2>1 DEF Queued
<1> QED
  BY <1>5, <1>6

(* The one that fills a slot of it puts the producer's item.               *)
LEMMA GivePuts ==
  ASSUME LFQueueAssumption, TypeOK, NodeInv, NEW p \in Processes, GivesTo(p)
  PROVE  (\E x \in Items : Queue!Put(x)) \/ UNCHANGED <<Queued, taken>>
<1>1. PICK q, s, id : q = process[p].ring /\ s = process[p].seq /\ id = process[p].id
  OBVIOUS
<1>2. Gives(p, q, s, id)
  BY <1>1, GiveGives DEF GivesTo
<1>3. data' = data /\ taken' = taken /\ process[p].at = "give"
  BY DEF GivesTo, Give, Others
<1>4. ring' \in [Names -> RingType] /\ q \in Names /\ data \in [Ids -> SomeItem] /\ id \in Ids
  BY <1>2 DEF Gives, TypeOK
<1>5. CASE q = "node"
  <2>1. PICK r, b, t : r = ring["node"] /\ b = ring'["node"] /\ t = NextTaken(r)
    OBVIOUS
  <2>2. /\ r \in RingType /\ t \in Nat /\ NextGiven(r) \in Nat
        /\ Window(r, t, NextGiven(r)) /\ Queued = Contents(r, data, t, NextGiven(r))
    BY <2>1, NodeRing
  <2>3. /\ s = NextGiven(r) /\ s < t + Count
        /\ b.nodes = [r.nodes EXCEPT ![Slot(s)] = Node(s, id)]
        /\ Windowed(b) /\ NextTaken(b) = t /\ NextGiven(b) = s + 1
    BY <1>2, <1>5, <2>1 DEF Gives
  <2>4. b \in RingType /\ Window(b, t, s + 1)
    BY <1>4, <2>1, <2>3 DEF Windowed, Names
  <2>5. Queued' = Contents(b, data, t, s + 1)
    BY <1>3, <2>1, <2>3, QueuedNext
  <2>6. Queued' = Append(Queued, data[id]) /\ Len(Queued) < Count
    BY <1>4, <2>2, <2>3, <2>4, <2>5, ContentsGrow
  <2>7. data[id] \in Items
    <3>1. ItemInv(p, process[p], data)
      BY LocalOf
    <3>2. p \in Producers
      BY <1>1, <1>3, <1>5, <3>1 DEF ItemInv, Giving, Processes
    <3> QED
      BY <1>1, <1>3, <3>1, <3>2 DEF ItemInv, Giving
  <2> QED
    BY <1>3, <2>6, <2>7 DEF Queue!Put
<1>6. CASE q # "node"
  <2>1. ring'["node"] = ring["node"]
    BY <1>2, <1>6 DEF Gives, Names
  <2> QED
    BY <1>3, <2>1 DEF Queued
<1> QED
  BY <1>5, <1>6

LEMMA StepIsFifo ==
  ASSUME LFQueueAssumption, TypeOK, NodeInv, NEW p \in Processes,
         Step(p) \/ Crash(p) \/ (p \in Producers /\ Push(p))
  PROVE  [Queue!Next]_<<Queued, taken>>
<1>1. CASE Quietly(p)
  <2>1. Moves(p) /\ IndicesMove /\ data' = data /\ saved' = saved /\ taken' = taken
    BY <1>1 DEF Quietly
  <2>2. /\ NextTaken(ring'["node"]) = NextTaken(ring["node"])
        /\ NextGiven(ring'["node"]) = NextGiven(ring["node"])
        /\ ring'["node"].nodes = ring["node"].nodes
    BY <2>1, MovesKeep DEF IndicesMove, Names
  <2>3. data' \in [Ids -> SomeItem]
    BY <2>1 DEF TypeOK
  <2> QED
    BY <2>1, <2>2, <2>3, QueuedKept
<1>2. CASE Take(p) /\ StillThere(p)
  BY <1>2, TakeGets DEF Queue!Next
<1>3. CASE GivesTo(p)
  BY <1>3, GivePuts DEF Queue!Next
<1>4. CASE Fill(p)
  <2>1. /\ ring' = ring /\ taken' = taken /\ process[p].at = "owns"
        /\ data' = [data EXCEPT ![process[p].id] = process[p].item]
    BY <1>4 DEF Fill
  <2>2. data' \in [Ids -> SomeItem] /\ LocalInv(process[p], ring[process[p].ring])
    BY <1>4, FillKeeps, LocalOf
  <2>3. process[p].id # Invalid
    BY <2>1, <2>2 DEF LocalInv, EmptyHanded
  <2>4. \A i \in Ids : ring["node"].nodes[i].id # process[p].id
    BY <2>3 DEF NodeInv, HeldOnce, Names
  <2>5. \A i \in Ids : ring["node"].nodes[i].id \in Ids =>
          data'[ring["node"].nodes[i].id] = data[ring["node"].nodes[i].id]
    BY <2>1, <2>4 DEF TypeOK
  <2> QED
    BY <2>1, <2>2, <2>5, QueuedKept
<1> QED
  BY <1>1, <1>2, <1>3, <1>4, StepKinds

(* An operator's step does not touch the items unless it replaces them.    *)
LEMMA NextIsFifo ==
  ASSUME LFQueueAssumption
  PROVE  TypeOK /\ NodeInv /\ [Next]_vars => [Queue!Next \/ Reset \/ Load]_<<Queued, taken>>
<1> SUFFICES ASSUME TypeOK, NodeInv, [Next]_vars
             PROVE  [Queue!Next \/ Reset \/ Load]_<<Queued, taken>>
  OBVIOUS
<1>1. ASSUME ring' = ring, data' = data, taken' = taken PROVE UNCHANGED <<Queued, taken>>
  BY <1>1 DEF Queued
<1>2. CASE UNCHANGED vars
  BY <1>1, <1>2 DEF vars
<1>3. ASSUME NEW p \in Processes, Step(p) \/ Crash(p) \/ (p \in Producers /\ Push(p))
      PROVE  [Queue!Next]_<<Queued, taken>>
  BY <1>3, StepIsFifo
<1>4. CASE Pause \/ Resume \/ Dump
  BY <1>1, <1>4 DEF Pause, Resume, Dump
<1> QED
  BY <1>2, <1>3, <1>4 DEF Next, Administrator, Processes

(* The queue is a bounded queue at every step but the operator's that      *)
(* replace what it holds: what is popped is the oldest item pushed, once,  *)
(* unchanged, by whichever of any number of processes, and a crash takes   *)
(* no item out of it or puts one in (queue.c, ring.h).                     *)
THEOREM QueueStepsCorrect ==
  ASSUME LFQueueAssumption
  PROVE  Spec => [][Queue!Next \/ Reset \/ Load]_<<Queued, taken>>
BY QueueTypeCorrect, NodesCorrect, NextIsFifo, PTL DEF Spec

LEMMA InitIsFifo ==
  ASSUME LFQueueAssumption, Init
  PROVE  Queue!Init
<1>1. ring["node"] = RingOf(0) /\ taken = NoItem
  BY DEF Init, Fresh, Names
<1>2. RingOf(0) \in RingType /\ Window(RingOf(0), 0, 0)
  BY RingOfHasWindow
<1>3. NextTaken(RingOf(0)) = 0 /\ NextGiven(RingOf(0)) = 0
  BY <1>2, WindowIs
<1>4. Queued = Contents(RingOf(0), data, 0, 0)
  BY <1>1, <1>3, QueuedIs
<1>5. Queued = <<>>
  BY <1>4 DEF Contents
<1> QED
  BY <1>1, <1>5 DEF Queue!Init

(* Without an operator the queue is never paused.                          *)
LEMMA NeverPaused ==
  ASSUME LFQueueAssumption, MaxPauses = 0
  PROVE  /\ Init => ~ pause
         /\ TypeOK /\ ~ pause /\ [Next]_vars => ~ pause'
         /\ ~ pause => ~ Reset /\ ~ Load
<1> USE DEF Calls, Loads, Others
<1>1. ASSUME TypeOK, ~ pause, [Next]_vars PROVE ~ pause'
  <2>1. pauses = 0
    BY <1>1 DEF TypeOK
  <2>2. CASE UNCHANGED vars
    BY <1>1, <2>2 DEF vars
  <2>3. ASSUME NEW p \in Processes, Step(p) PROVE pause' = pause
    BY <2>3 DEF Step, RingStep, LoadTail, LoadHead, LoadFilled, Take, FixTail, EndPop, LoadFree,
       LoadSlot, Give, FixHead, EndPush, Fill, Consume, Pop
  <2>4. ASSUME NEW p \in Processes, Crash(p) PROVE pause' = pause
    BY <2>4 DEF Crash
  <2>5. ASSUME NEW p \in Producers, Push(p) PROVE pause' = pause
    BY <2>5 DEF Push
  <2>6. CASE Administrator
    BY <1>1, <2>1, <2>6 DEF Administrator, Pause, Resume, Reset, Dump, Load, Quiet
  <2> QED
    BY <1>1, <2>2, <2>3, <2>4, <2>5, <2>6 DEF Next
<1> QED
  BY <1>1 DEF Init, Reset, Load, Quiet

(* QueueImplementsFifo: a queue nobody resets or loads is a bounded queue, *)
(* for any number of producers, consumers, nodes and crashes.              *)
THEOREM QueueFifoCorrect ==
  ASSUME LFQueueAssumption, MaxPauses = 0
  PROVE  Spec => QueueImplementsFifo
<1>1. Init => Queue!Init
  BY InitIsFifo
<1>2. Init => ~ pause
  BY NeverPaused
<1>3. TypeOK /\ ~ pause /\ [Next]_vars => ~ pause'
  BY NeverPaused
<1>4. Spec => []~ pause
  BY <1>2, <1>3, QueueTypeCorrect, PTL DEF Spec
<1>5. TypeOK /\ NodeInv /\ ~ pause /\ [Next]_vars => [Queue!Next]_<<Queued, taken>>
  BY NextIsFifo, NeverPaused
<1> QED
  BY <1>1, <1>4, <1>5, QueueTypeCorrect, NodesCorrect, PTL
     DEF Spec, QueueImplementsFifo, Queue!Spec

=============================================================================
