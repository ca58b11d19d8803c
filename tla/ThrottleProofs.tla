--------------------------- MODULE ThrottleProofs ---------------------------
(***************************************************************************)
(* Theorems about Throttle for every value of its constants: the limit     *)
(* holds in every period, and nothing is refused without cause.            *)
(***************************************************************************)
EXTENDS Throttle, SequenceTheorems, FiniteSetTheorems, WellFoundedInduction, TLAPS

-----------------------------------------------------------------------------
(* Arithmetic of the clock, and the sizes of windows.                      *)

(* Where a % m is for a from -m to m - 1.                                  *)
LEMMA ModNear ==
  ASSUME NEW m \in Nat \ {0}, NEW a \in Int, - m <= a, a < m
  PROVE  a % m = IF a >= 0 THEN a ELSE a + m
<1>1. a % m \in 0 .. m - 1 /\ a = m * (a \div m) + (a % m) /\ a \div m \in Int
  OBVIOUS
<1>2. CASE a >= 0
  <2>1. a \div m = 0
    BY <1>1, <1>2
  <2> QED
    BY <1>1, <1>2, <2>1
<1>3. CASE a < 0
  <2>1. a \div m = - 1
    BY <1>1, <1>3
  <2> QED
    BY <1>1, <1>3, <2>1
<1> QED
  BY <1>2, <1>3

(* A time that is not after now is in the period when it is after its      *)
(* start; before the machine has been up for a period, none is.            *)
LEMMA InPeriodIs ==
  ASSUME ThrottleAssumption, now \in 0 .. MaxTime, NEW t \in 0 .. now
  PROVE  /\ InPeriod(t) => t > now - Period
         /\ now >= Period /\ ~ InPeriod(t) => t <= now - Period
<1>1. /\ Width \in Nat \ {0} /\ now - Period \in Int
      /\ - Width <= now - Period /\ now - Period < Width
  BY DEF ThrottleAssumption
<1>2. LowerBound = IF now - Period >= 0 THEN now - Period ELSE now - Period + Width
  BY <1>1, ModNear DEF LowerBound
<1> QED
  BY <1>1, <1>2 DEF InPeriod, ThrottleAssumption

(* A set of indices among the last ones is no larger than their number.    *)
LEMMA WindowSize ==
  ASSUME NEW a \in Int, NEW b \in Int, a <= b, NEW S \in SUBSET (a + 1 .. b)
  PROVE  Cardinality(S) \in Nat /\ Cardinality(S) <= b - a
<1>1. IsFiniteSet(a + 1 .. b) /\ Cardinality(a + 1 .. b) = b - a
  <2>1. IsFiniteSet(a + 1 .. b) /\ Cardinality(a + 1 .. b) = IF a + 1 > b THEN 0 ELSE b - (a + 1) + 1
    BY FS_Interval
  <2> QED
    BY <2>1
<1>2. IsFiniteSet(S) /\ Cardinality(S) <= b - a
  BY <1>1, FS_Subset
<1> QED
  BY <1>2, FS_CardinalityType

-----------------------------------------------------------------------------
(* What a check drops.                                                     *)

(* Dropped takes some of the oldest off, none of them in the period, and   *)
(* stops at one that is.                                                   *)
LEMMA DroppedIsTail ==
  ASSUME NEW q \in Seq(Nat)
  PROVE  \E k \in 0 .. Len(q) :
           /\ Dropped(q) \in Seq(Nat) /\ Len(Dropped(q)) = Len(q) - k
           /\ \A i \in 1 .. Len(q) - k : Dropped(q)[i] = q[k + i]
           /\ \A i \in 1 .. k : ~ InPeriod(q[i])
           /\ k < Len(q) => InPeriod(q[k + 1])
<1> DEFINE kept == {i \in 1 .. Len(q) : InPeriod(q[i])}
<1>1. CASE kept = {}
  <2>1. Dropped(q) = <<>>
    BY <1>1 DEF Dropped
  <2>2. \A i \in 1 .. Len(q) : ~ InPeriod(q[i])
    BY <1>1
  <2> QED
    BY <2>1, <2>2
<1>2. CASE kept # {}
  <2> DEFINE first == CHOOSE i \in kept : \A j \in kept : i <= j
  <2>1. \E i \in kept : \A j \in kept : i <= j
    <3> DEFINE below == {ss \in Nat \X Nat : ss[1] < ss[2]}
    <3>1. IsWellFoundedOn(below, Nat)
      BY NatLessThanWellFounded DEF OpToRel
    <3>2. kept \subseteq Nat
      OBVIOUS
    <3>3. PICK i \in kept : \A j \in kept : ~ (<<j, i>> \in below)
      BY <1>2, <3>1, <3>2, WFMin
    <3>4. ASSUME NEW j \in kept PROVE i <= j
      <4>1. i \in Nat /\ j \in Nat
        BY <3>2
      <4>2. ~ (j < i)
        BY <3>3, <4>1
      <4> QED
        BY <4>1, <4>2
    <3> QED
      BY <3>4
  <2>2. first \in kept /\ \A j \in kept : first <= j
    BY <2>1
  <2>3. Dropped(q) = SubSeq(q, first, Len(q))
    BY <1>2 DEF Dropped
  <2> HIDE DEF first
  <2>4. first \in 1 .. Len(q) /\ InPeriod(q[first]) /\ \A i \in 1 .. first - 1 : ~ InPeriod(q[i])
    BY <2>2
  <2>5. PICK k \in 0 .. Len(q) - 1 : first = k + 1
    <3>1. first - 1 \in 0 .. Len(q) - 1 /\ first = (first - 1) + 1
      BY <2>4
    <3> QED
      BY <3>1
  <2>6. \A i \in first .. Len(q) : q[i] \in Nat
    BY <2>4
  <2>7. /\ Dropped(q) \in Seq(Nat)
        /\ Len(Dropped(q)) = IF first <= Len(q) THEN Len(q) - first + 1 ELSE 0
        /\ \A i \in 1 .. Len(q) - first + 1 : Dropped(q)[i] = q[first + i - 1]
    BY <2>3, <2>4, <2>6, SubSeqProperties
  <2>8. k \in 0 .. Len(q) /\ k < Len(q) /\ Len(q) \in Nat
    BY <2>5
  <2>9. Len(Dropped(q)) = Len(q) - k
    BY <2>5, <2>7, <2>8
  <2>10. ASSUME NEW i \in 1 .. Len(q) - k PROVE Dropped(q)[i] = q[k + i]
    <3>1. i \in 1 .. Len(q) - first + 1 /\ first + i - 1 = k + i
      BY <2>5, <2>8
    <3> QED
      BY <2>7, <3>1
  <2>11. /\ \A i \in 1 .. k : ~ InPeriod(q[i])
         /\ InPeriod(q[k + 1])
    BY <2>4, <2>5
  <2> QED
    BY <2>7, <2>8, <2>9, <2>10, <2>11
<1> QED
  BY <1>1, <1>2

-----------------------------------------------------------------------------
(* What the rule remembers of the orders that were sent.                   *)

(* The times the rule keeps are in order and not after c, and belong to    *)
(* the last orders, which were sent at that time or later.                 *)
Counted(q, s, c) ==
  /\ q \in Seq(Nat) /\ s \in Seq(Nat) /\ Len(q) <= Len(s)
  /\ \A i \in 1 .. Len(q) : q[i] <= c /\ q[i] <= s[Len(s) - Len(q) + i]
  /\ \A i, j \in 1 .. Len(q) : i <= j => q[i] <= q[j]

LEMMA CountedDrop ==
  ASSUME NEW q, NEW s, NEW c \in Nat, Counted(q, s, c)
  PROVE  Counted(Dropped(q), s, c)
<1>1. q \in Seq(Nat) /\ s \in Seq(Nat) /\ Len(q) <= Len(s) /\ Len(q) \in Nat /\ Len(s) \in Nat
  BY DEF Counted
<1>2. PICK k \in 0 .. Len(q) :
        /\ Dropped(q) \in Seq(Nat) /\ Len(Dropped(q)) = Len(q) - k
        /\ \A i \in 1 .. Len(q) - k : Dropped(q)[i] = q[k + i]
  BY <1>1, DroppedIsTail
<1>3. ASSUME NEW i \in 1 .. Len(Dropped(q))
      PROVE  /\ Dropped(q)[i] <= c
             /\ Dropped(q)[i] <= s[Len(s) - Len(Dropped(q)) + i]
  <2>1. k + i \in 1 .. Len(q) /\ Dropped(q)[i] = q[k + i]
        /\ Len(s) - Len(Dropped(q)) + i = Len(s) - Len(q) + (k + i)
    BY <1>1, <1>2
  <2>2. q[k + i] <= c /\ q[k + i] <= s[Len(s) - Len(q) + (k + i)]
    BY <2>1 DEF Counted
  <2> QED
    BY <2>1, <2>2
<1>4. ASSUME NEW i \in 1 .. Len(Dropped(q)), NEW j \in 1 .. Len(Dropped(q)), i <= j
      PROVE  Dropped(q)[i] <= Dropped(q)[j]
  <2>1. /\ k + i \in 1 .. Len(q) /\ Dropped(q)[i] = q[k + i]
        /\ k + j \in 1 .. Len(q) /\ Dropped(q)[j] = q[k + j] /\ k + i <= k + j
    <3>1. i \in 1 .. Len(q) - k /\ j \in 1 .. Len(q) - k
      BY <1>2
    <3>2. Dropped(q)[i] = q[k + i] /\ Dropped(q)[j] = q[k + j]
      BY <1>2, <3>1
    <3>3. i \in Int /\ j \in Int /\ k \in Int /\ Len(q) \in Int
      BY <1>1, <3>1
    <3> QED
      BY <1>4, <3>1, <3>2, <3>3
  <2> QED
    BY <2>1 DEF Counted
<1> QED
  BY <1>1, <1>2, <1>3, <1>4 DEF Counted

LEMMA CountedAppend ==
  ASSUME NEW q, NEW s, NEW c \in Nat, NEW t \in Nat, c <= t, Counted(q, s, c)
  PROVE  Counted(Append(q, c), Append(s, t), c)
<1>1. q \in Seq(Nat) /\ s \in Seq(Nat) /\ Len(q) <= Len(s) /\ Len(q) \in Nat /\ Len(s) \in Nat
  BY DEF Counted
<1> DEFINE r == Append(q, c)
           u == Append(s, t)
<1>2. /\ r \in Seq(Nat) /\ Len(r) = Len(q) + 1
      /\ \A i \in 1 .. Len(q) : r[i] = q[i]
      /\ r[Len(q) + 1] = c
      /\ u \in Seq(Nat) /\ Len(u) = Len(s) + 1
      /\ \A i \in 1 .. Len(s) : u[i] = s[i]
      /\ u[Len(s) + 1] = t
  BY <1>1, AppendProperties
<1> HIDE DEF r, u
<1>3. ASSUME NEW i \in 1 .. Len(q) + 1
      PROVE  r[i] <= c /\ r[i] <= u[Len(s) - Len(q) + i]
  <2>1. CASE i = Len(q) + 1
    <3>1. Len(s) - Len(q) + i = Len(s) + 1
      BY <1>1, <2>1
    <3> QED
      BY <1>2, <2>1, <3>1
  <2>2. CASE i # Len(q) + 1
    <3>1. i \in 1 .. Len(q) /\ Len(s) - Len(q) + i \in 1 .. Len(s)
      BY <1>1, <2>2
    <3> QED
      BY <1>2, <3>1 DEF Counted
  <2> QED
    BY <2>1, <2>2
<1>4. ASSUME NEW i \in 1 .. Len(q) + 1, NEW j \in 1 .. Len(q) + 1, i <= j
      PROVE  r[i] <= r[j]
  <2>1. CASE j = Len(q) + 1
    BY <1>2, <1>3, <2>1
  <2>2. CASE j # Len(q) + 1
    <3>1. i \in 1 .. Len(q) /\ j \in 1 .. Len(q)
      BY <1>1, <1>4, <2>2
    <3> QED
      BY <1>2, <1>4, <3>1 DEF Counted
  <2> QED
    BY <2>1, <2>2
<1>5. Len(u) - Len(r) = Len(s) - Len(q)
  BY <1>1, <1>2
<1>6. Len(r) <= Len(u) /\ 1 .. Len(r) = 1 .. Len(q) + 1 /\ r \in Seq(Nat) /\ u \in Seq(Nat)
  BY <1>1, <1>2
<1>7. Counted(r, u, c)
  BY <1>3, <1>4, <1>5, <1>6 DEF Counted
<1> QED
  BY <1>7 DEF r, u

(* A later c does as well.                                                 *)
LEMMA CountedLater ==
  ASSUME NEW q, NEW s, NEW c \in Nat, NEW t \in Nat, c <= t, Counted(q, s, c)
  PROVE  Counted(q, s, t)
<1>1. ASSUME NEW i \in 1 .. Len(q) PROVE q[i] <= t
  BY DEF Counted
<1> QED
  BY <1>1 DEF Counted

(* Without a limit nothing is counted.                                     *)
LEMMA CountedNothing ==
  ASSUME NEW s \in Seq(Nat), NEW c \in Nat
  PROVE  Counted(<<>>, s, c)
BY DEF Counted

(* The number of orders of the last period.                                *)
LEMMA RecentIsNat ==
  ASSUME sent \in Seq(Nat)
  PROVE  Recent \in Nat
<1>1. Len(sent) \in Nat
  OBVIOUS
<1>2. IsFiniteSet(1 .. Len(sent))
  BY <1>1, FS_Interval
<1>3. IsFiniteSet({i \in 1 .. Len(sent) : sent[i] > now - Period})
  BY <1>2, FS_Subset
<1> QED
  BY <1>3, FS_CardinalityType DEF Recent

(* When a check finds the times it keeps at the limit, the period has as   *)
(* many orders.                                                            *)
LEMMA FullIsFull ==
  ASSUME ThrottleAssumption, now \in 0 .. MaxTime, Counted(queue, sent, now),
         Full(Dropped(queue)), Limited
  PROVE  Recent >= Limit
<1> DEFINE q == Dropped(queue)
           recent == {i \in 1 .. Len(sent) : sent[i] > now - Period}
<1>1. Counted(q, sent, now) /\ now \in Nat /\ Limit \in Nat \ {0} /\ Period \in Nat
  BY CountedDrop DEF ThrottleAssumption, Limited
<1>2. /\ queue \in Seq(Nat) /\ sent \in Seq(Nat) /\ Len(queue) \in Nat /\ Len(sent) \in Nat
      /\ q \in Seq(Nat) /\ Len(q) \in Nat /\ Len(q) <= Len(sent) /\ Len(q) >= Limit
  BY <1>1 DEF Counted, Full
<1>3. PICK k \in 0 .. Len(queue) :
        /\ Len(q) = Len(queue) - k
        /\ \A i \in 1 .. Len(queue) - k : q[i] = queue[k + i]
        /\ k < Len(queue) => InPeriod(queue[k + 1])
  BY <1>2, DroppedIsTail
<1> HIDE DEF q
<1>4. InPeriod(q[1]) /\ q[1] \in 0 .. now
  <2>1. k < Len(queue) /\ 1 \in 1 .. Len(queue) - k /\ 1 \in 1 .. Len(q)
    BY SMTT(30), <1>1, <1>2, <1>3
  <2>2. q[1] \in Nat
    BY <1>2, <2>1, ElementOfSeq
  <2>3. q[1] <= now /\ q[1] = queue[k + 1]
    BY <1>1, <1>3, <2>1 DEF Counted
  <2> QED
    BY <1>1, <1>3, <2>1, <2>2, <2>3
<1>5. q[1] > now - Period
  BY <1>1, <1>4, InPeriodIs
<1>6. ASSUME NEW i \in Len(sent) - Len(q) + 1 .. Len(sent)
      PROVE  i \in recent
  <2> DEFINE j == i - (Len(sent) - Len(q))
  <2>1. j \in 1 .. Len(q) /\ Len(sent) - Len(q) + j = i /\ i \in 1 .. Len(sent) /\ 1 \in 1 .. Len(q)
        /\ 1 <= j
    BY <1>2
  <2> HIDE DEF j
  <2>2. q[j] <= sent[i] /\ q[1] <= q[j]
    BY <1>1, <2>1 DEF Counted
  <2>3. q[1] \in Nat /\ q[j] \in Nat /\ sent[i] \in Nat
    BY <1>2, <2>1, ElementOfSeq
  <2> QED
    BY SMTT(30), <1>1, <1>5, <2>1, <2>2, <2>3
<1>7. Len(sent) - Len(q) + 1 .. Len(sent) \in SUBSET recent
  BY <1>6
<1>8. IsFiniteSet(recent)
  <2>1. IsFiniteSet(1 .. Len(sent))
    BY <1>2, FS_Interval
  <2> QED
    BY <2>1, FS_Subset
<1> HIDE DEF recent
<1>9. Cardinality(Len(sent) - Len(q) + 1 .. Len(sent)) <= Cardinality(recent)
  BY <1>7, <1>8, FS_Subset
<1>10. Cardinality(Len(sent) - Len(q) + 1 .. Len(sent)) = Len(q)
  <2> DEFINE a == Len(sent) - Len(q) + 1
  <2>1. a \in Int /\ Len(sent) \in Int /\ ~ (a > Len(sent)) /\ Len(sent) - a + 1 = Len(q)
    BY <1>1, <1>2
  <2> HIDE DEF a
  <2>2. Cardinality(a .. Len(sent)) = IF a > Len(sent) THEN 0 ELSE Len(sent) - a + 1
    BY <2>1, FS_Interval
  <2> QED
    BY <2>1, <2>2 DEF a
<1>11. Cardinality(recent) \in Nat
  BY <1>8, FS_CardinalityType
<1> QED
  BY <1>1, <1>2, <1>9, <1>10, <1>11 DEF Recent, recent

-----------------------------------------------------------------------------
(* Nothing is refused without cause, with and without unchecked orders.    *)

TimesInv ==
  /\ now \in 0 .. MaxTime /\ current \in 0 .. now
  /\ Counted(queue, sent, current)
  /\ Limited \/ queue = <<>>
  /\ \A i \in 1 .. Len(sent) : sent[i] <= now
  /\ \A i, j \in 1 .. Len(sent) : i <= j => sent[i] <= sent[j]
  /\ refused \in [last : BOOLEAN, room : BOOLEAN]
  /\ RefusedForCause

(* The orders sent stay in order when one is sent now.                     *)
LEMMA SentInOrder ==
  ASSUME NEW s \in Seq(Nat), NEW t \in Nat,
         \A i \in 1 .. Len(s) : s[i] <= t,
         \A i, j \in 1 .. Len(s) : i <= j => s[i] <= s[j]
  PROVE  /\ \A i \in 1 .. Len(Append(s, t)) : Append(s, t)[i] <= t
         /\ \A i, j \in 1 .. Len(Append(s, t)) : i <= j => Append(s, t)[i] <= Append(s, t)[j]
<1> DEFINE u == Append(s, t)
<1>1. /\ Len(u) = Len(s) + 1 /\ Len(s) \in Nat /\ u[Len(s) + 1] = t
      /\ \A i \in 1 .. Len(s) : u[i] = s[i]
  BY AppendProperties
<1> HIDE DEF u
<1>2. ASSUME NEW i \in 1 .. Len(u) PROVE u[i] <= t
  <2>1. CASE i = Len(s) + 1
    BY <1>1, <2>1
  <2>2. CASE i # Len(s) + 1
    <3>1. i \in 1 .. Len(s)
      BY <1>1, <2>2
    <3> QED
      BY <1>1, <3>1
  <2> QED
    BY <2>1, <2>2
<1>3. ASSUME NEW i \in 1 .. Len(u), NEW j \in 1 .. Len(u), i <= j PROVE u[i] <= u[j]
  <2>1. CASE j = Len(s) + 1
    BY <1>1, <1>2, <2>1
  <2>2. CASE j # Len(s) + 1
    <3>1. i \in 1 .. Len(s) /\ j \in 1 .. Len(s)
      BY <1>1, <1>3, <2>2
    <3> QED
      BY <1>1, <1>3, <3>1
  <2> QED
    BY <2>1, <2>2
<1> QED
  BY <1>2, <1>3 DEF u

(* What sending an order now, counted at c, does to the times.             *)
LEMMA SendTimes ==
  ASSUME NEW q, NEW c \in 0 .. now, now \in Nat, Counted(q, sent, c), Limited \/ q = <<>>,
         \A i \in 1 .. Len(sent) : sent[i] <= now,
         \A i, j \in 1 .. Len(sent) : i <= j => sent[i] <= sent[j]
  PROVE  /\ Counted(OnOrderSent(q, c), Append(sent, now), c)
         /\ Limited \/ OnOrderSent(q, c) = <<>>
         /\ \A i \in 1 .. Len(Append(sent, now)) : Append(sent, now)[i] <= now
         /\ \A i, j \in 1 .. Len(Append(sent, now)) :
              i <= j => Append(sent, now)[i] <= Append(sent, now)[j]
<1>1. sent \in Seq(Nat) /\ c \in Nat /\ c <= now
  BY DEF Counted
<1>2. Counted(OnOrderSent(q, c), Append(sent, now), c)
  <2>1. CASE Limited
    BY <1>1, <2>1, CountedAppend DEF OnOrderSent
  <2>2. CASE ~ Limited
    <3>1. Append(sent, now) \in Seq(Nat)
      BY <1>1, AppendProperties
    <3> QED
      BY <1>1, <2>2, <3>1, CountedNothing DEF OnOrderSent
  <2> QED
    BY <2>1, <2>2
<1>3. Limited \/ OnOrderSent(q, c) = <<>>
  BY DEF OnOrderSent
<1> QED
  BY <1>1, <1>2, <1>3, SentInOrder

(* What a check leaves, counted now.                                       *)
LEMMA CheckTimes ==
  ASSUME TimesInv, NEW q, q = IF Limited THEN Dropped(queue) ELSE queue
  PROVE  /\ Counted(q, sent, current) /\ Counted(q, sent, now)
         /\ Limited \/ q = <<>>
         /\ current \in Nat /\ now \in Nat
<1>1. current \in Nat /\ now \in Nat /\ current <= now /\ Counted(queue, sent, current)
  BY DEF TimesInv
<1>2. Counted(q, sent, current)
  BY <1>1, CountedDrop
<1> QED
  BY <1>1, <1>2, CountedLater DEF TimesInv

LEMMA InitTimes == ThrottleAssumption /\ Init => TimesInv
<1> SUFFICES ASSUME ThrottleAssumption, Init PROVE TimesInv
  OBVIOUS
<1>1. now \in 0 .. MaxTime /\ current \in 0 .. now
  BY DEF ThrottleAssumption, Init
<1>2. Counted(queue, sent, current)
  <2>1. Counted(<<>>, <<>>, 0)
    <3>1. <<>> \in Seq(Nat) /\ 0 \in Nat
      OBVIOUS
    <3> QED
      BY <3>1, CountedNothing
  <2> QED
    BY <2>1 DEF Init
<1> QED
  BY <1>1, <1>2 DEF Init, TimesInv, RefusedForCause

LEMMA NextTimes == ThrottleAssumption /\ TimesInv /\ [Next]_vars => TimesInv'
<1> SUFFICES ASSUME ThrottleAssumption, TimesInv, [Next]_vars PROVE TimesInv'
  OBVIOUS
<1>1. CASE Tick
  <2>1. /\ now' = now + 1 /\ now < MaxTime /\ UNCHANGED <<queue, current, sent, refused>>
    BY <1>1 DEF Tick
  <2>2. now' \in 0 .. MaxTime /\ current' \in 0 .. now'
    BY <2>1 DEF TimesInv, ThrottleAssumption
  <2>3. \A i \in 1 .. Len(sent) : sent[i] <= now'
    <3>1. sent \in Seq(Nat) /\ now \in Nat
      BY DEF TimesInv, Counted
    <3>2. ASSUME NEW i \in 1 .. Len(sent) PROVE sent[i] <= now'
      <4>1. sent[i] \in Nat /\ sent[i] <= now
        BY <3>1, ElementOfSeq DEF TimesInv
      <4> QED
        BY <2>1, <3>1, <4>1
    <3> QED
      BY <3>2
  <2> QED
    BY <2>1, <2>2, <2>3 DEF TimesInv, RefusedForCause, Limited
<1>2. CASE Send /\ SendChecked
  <2>1. PICK q : q = IF Limited THEN Dropped(queue) ELSE queue
    OBVIOUS
  <2>2. /\ Counted(q, sent, current) /\ Counted(q, sent, now)
        /\ Limited \/ q = <<>>
        /\ current \in Nat /\ now \in Nat
    BY <2>1, CheckTimes
  <2>3. /\ current' = IF Limited THEN now ELSE current
        /\ now' = now
        /\ \/ /\ CheckOrderRequest(q) /\ refused' = [refused EXCEPT !.last = FALSE]
              /\ \/ queue' = OnOrderSent(q, current') /\ sent' = Append(sent, now)
                 \/ queue' = q /\ UNCHANGED sent
           \/ /\ ~ CheckOrderRequest(q)
              /\ queue' = q /\ refused' = [last |-> TRUE, room |-> Recent < Limit] /\ UNCHANGED sent
    BY <1>2, <2>1 DEF SendChecked
  <2>4. now' \in 0 .. MaxTime /\ current' \in 0 .. now' /\ Counted(q, sent, current')
    <3>1. now \in 0 .. MaxTime /\ current \in 0 .. now
      BY DEF TimesInv
    <3>2. CASE Limited
      BY <2>2, <2>3, <3>1, <3>2
    <3>3. CASE ~ Limited
      BY <2>2, <2>3, <3>1, <3>3
    <3> QED
      BY <3>2, <3>3
  <2>5. refused' \in [last : BOOLEAN, room : BOOLEAN] /\ RefusedForCause'
    <3>1. CASE CheckOrderRequest(q)
      BY <2>3, <3>1 DEF TimesInv, RefusedForCause
    <3>2. CASE ~ CheckOrderRequest(q)
      <4>1. Limited /\ Full(Dropped(queue)) /\ Counted(queue, sent, now)
        BY <2>1, <3>2, CountedLater DEF CheckOrderRequest, TimesInv
      <4>2. Recent >= Limit
        BY <4>1, FullIsFull DEF TimesInv
      <4>3. ~ (Recent < Limit)
        <5>1. Limit \in Nat /\ Recent \in Nat
          BY <4>1, RecentIsNat DEF Counted, ThrottleAssumption
        <5> QED
          BY <4>2, <5>1
      <4>4. (Recent < Limit) = FALSE
        BY <4>3
      <4>5. refused' = [last |-> TRUE, room |-> FALSE]
        BY <2>3, <3>2, <4>4
      <4> QED
        BY <4>5 DEF RefusedForCause
    <3> QED
      BY <3>1, <3>2
  <2>6. CASE queue' = q /\ UNCHANGED sent
    BY <2>2, <2>3, <2>4, <2>5, <2>6 DEF TimesInv, Limited
  <2>7. CASE queue' = OnOrderSent(q, current') /\ sent' = Append(sent, now)
    <3>1. PICK c : c = current'
      OBVIOUS
    <3>2. c \in 0 .. now /\ Counted(q, sent, c)
      BY <2>3, <2>4, <3>1
    <3>3. /\ Counted(OnOrderSent(q, c), Append(sent, now), c)
          /\ Limited \/ OnOrderSent(q, c) = <<>>
          /\ \A i \in 1 .. Len(Append(sent, now)) : Append(sent, now)[i] <= now
          /\ \A i, j \in 1 .. Len(Append(sent, now)) :
               i <= j => Append(sent, now)[i] <= Append(sent, now)[j]
      BY <2>2, <3>2, SendTimes DEF TimesInv
    <3> QED
      BY <2>3, <2>4, <2>5, <2>7, <3>1, <3>3 DEF TimesInv, Limited
  <2> QED
    BY <2>3, <2>6, <2>7
<1>3. CASE Send /\ SendUnchecked
  <2>1. /\ queue' = OnOrderSent(queue, current) /\ sent' = Append(sent, now)
        /\ UNCHANGED <<now, current, refused>>
    BY <1>3 DEF SendUnchecked
  <2>2. /\ Counted(OnOrderSent(queue, current), Append(sent, now), current)
        /\ Limited \/ OnOrderSent(queue, current) = <<>>
        /\ \A i \in 1 .. Len(Append(sent, now)) : Append(sent, now)[i] <= now
        /\ \A i, j \in 1 .. Len(Append(sent, now)) :
             i <= j => Append(sent, now)[i] <= Append(sent, now)[j]
    BY SendTimes DEF TimesInv
  <2> QED
    BY <2>1, <2>2 DEF TimesInv, Limited, RefusedForCause
<1>4. CASE UNCHANGED vars
  BY <1>4 DEF vars, TimesInv, Limited, RefusedForCause
<1> QED
  BY <1>1, <1>2, <1>3, <1>4 DEF Next, Send

(* An order is refused only when the last period has no room for it,       *)
(* whatever was sent without a check, failed or was refused before         *)
(* (CheckOrderRequest, OnOrderSent).                                       *)
THEOREM RefusalCorrect ==
  ASSUME ThrottleAssumption
  PROVE  Spec => []RefusedForCause
<1>1. TimesInv => RefusedForCause
  BY DEF TimesInv
<1> QED
  BY <1>1, InitTimes, NextTimes, PTL DEF Spec

-----------------------------------------------------------------------------
(* The types, and that no more times are kept than the limit, when no      *)
(* order skips the checks.                                                 *)

(* What OnOrderSent adds to the times.                                     *)
LEMMA SentLength ==
  ASSUME NEW q \in Seq(Nat), NEW c \in Nat
  PROVE  Len(OnOrderSent(q, c)) = IF Limited THEN Len(q) + 1 ELSE Len(q)
BY AppendProperties DEF OnOrderSent

LEMMA NextTypes ==
  ThrottleAssumption /\ ~ Unchecked /\ TimesInv /\ TimesInv' /\ TypeOK /\ [Next]_vars => TypeOK'
<1> SUFFICES ASSUME ThrottleAssumption, ~ Unchecked, TimesInv, TimesInv', TypeOK, [Next]_vars
             PROVE  TypeOK'
  OBVIOUS
<1>1. queue \in Seq(Nat) /\ Len(queue) \in Nat /\ Limit \in Nat
  BY DEF TimesInv, Counted, ThrottleAssumption
<1>2. Limited => Len(queue') <= Limit
  <2> SUFFICES ASSUME Limited PROVE Len(queue') <= Limit
    OBVIOUS
  <2>1. Len(queue) <= Limit
    BY DEF TypeOK
  <2>2. CASE Send /\ SendChecked
    <3>1. PICK q : q = Dropped(queue)
      OBVIOUS
    <3>2. q \in Seq(Nat) /\ Len(q) \in Nat /\ Len(q) <= Len(queue)
      <4>1. PICK k \in 0 .. Len(queue) :
              Dropped(queue) \in Seq(Nat) /\ Len(Dropped(queue)) = Len(queue) - k
        BY <1>1, DroppedIsTail
      <4> QED
        BY <1>1, <3>1, <4>1
    <3>3. \/ queue' = q
          \/ CheckOrderRequest(q) /\ queue' = OnOrderSent(q, current')
      BY <2>2, <3>1 DEF SendChecked
    <3>4. CASE queue' = q
      BY <1>1, <2>1, <3>2, <3>4
    <3>5. CASE CheckOrderRequest(q) /\ queue' = OnOrderSent(q, current')
      <4>1. Len(q) < Limit
        BY <1>1, <3>2, <3>5 DEF CheckOrderRequest, Full
      <4>2. current' \in Nat
        BY DEF TimesInv
      <4>3. Len(queue') = Len(q) + 1
        BY <3>2, <3>5, <4>2, SentLength
      <4> QED
        BY <1>1, <3>2, <4>1, <4>3
    <3> QED
      BY <3>3, <3>4, <3>5
  <2>3. CASE Tick \/ UNCHANGED vars
    BY <2>1, <2>3 DEF Tick, vars
  <2> QED
    BY <2>2, <2>3 DEF Next, Send, SendUnchecked
<1>3. /\ now' \in Nat /\ current' \in 0 .. now'
      /\ queue' \in Seq(Nat) /\ Len(queue') <= Len(sent')
  BY DEF TimesInv, Counted
<1>4. ASSUME NEW i \in 1 .. Len(queue') PROVE queue'[i] \in 0 .. now'
  <2>1. queue'[i] \in Nat /\ queue'[i] <= current'
    BY <1>3, ElementOfSeq DEF TimesInv, Counted
  <2> QED
    BY <1>3, <2>1
<1> QED
  BY <1>2, <1>3, <1>4 DEF TypeOK, Limited

(* The times kept are of the past, and no more than the limit.             *)
THEOREM ThrottleTypeCorrect ==
  ASSUME ThrottleAssumption, ~ Unchecked
  PROVE  Spec => []TypeOK
<1>1. Init => TypeOK
  BY DEF Init, TypeOK, ThrottleAssumption
<1> QED
  BY <1>1, InitTimes, NextTimes, NextTypes, PTL DEF Spec

-----------------------------------------------------------------------------
(* The limit, when every order is checked and the machine has been up for  *)
(* a period.                                                               *)

(* The rule's times are those of the last orders sent.                     *)
Latest(q, s) == \A i \in 1 .. Len(q) : q[i] = s[Len(s) - Len(q) + i]

(* The orders before them were not sent after t.                           *)
EarlierBy(q, s, t) == \A i \in 1 .. Len(s) - Len(q) : s[i] <= t

(* An order is a period or more after the one Limit orders before.         *)
Spaced(s) == \A i \in 1 .. Len(s) : i > Limit => s[i - Limit] <= s[i] - Period

RateInv ==
  /\ now >= Period
  /\ Latest(queue, sent)
  /\ EarlierBy(queue, sent, now - Period)
  /\ Spaced(sent)

(* A check leaves the times of the orders in the period.                   *)
LEMMA CheckLeaves ==
  ASSUME ThrottleAssumption, TimesInv, RateInv, NEW q, q = Dropped(queue)
  PROVE  /\ q \in Seq(Nat) /\ Len(q) <= Len(sent)
         /\ Latest(q, sent) /\ EarlierBy(q, sent, now - Period)
<1>1. queue \in Seq(Nat) /\ sent \in Seq(Nat)
  BY DEF TimesInv, Counted
<1>2. /\ Len(queue) \in Nat /\ Len(sent) \in Nat /\ Len(queue) <= Len(sent)
      /\ now \in 0 .. MaxTime /\ now \in Nat /\ now >= Period /\ Period \in Nat
  BY <1>1 DEF TimesInv, Counted, RateInv, ThrottleAssumption
<1>3. PICK k \in 0 .. Len(queue) :
        /\ q \in Seq(Nat) /\ Len(q) = Len(queue) - k
        /\ \A i \in 1 .. Len(queue) - k : q[i] = queue[k + i]
        /\ \A i \in 1 .. k : ~ InPeriod(queue[i])
  BY <1>1, DroppedIsTail
<1>4. ASSUME NEW i \in 1 .. Len(q) PROVE q[i] = sent[Len(sent) - Len(q) + i]
  <2>1. k + i \in 1 .. Len(queue) /\ i \in 1 .. Len(queue) - k
        /\ Len(sent) - Len(q) + i = Len(sent) - Len(queue) + (k + i)
    BY SMTT(30), <1>2, <1>3
  <2>2. q[i] = queue[k + i]
    BY <1>3, <2>1
  <2>3. queue[k + i] = sent[Len(sent) - Len(queue) + (k + i)]
    BY <2>1 DEF RateInv, Latest
  <2> QED
    BY <2>1, <2>2, <2>3
<1>5. ASSUME NEW i \in 1 .. Len(sent) - Len(q) PROVE sent[i] <= now - Period
  <2>1. CASE i <= Len(sent) - Len(queue)
    <3>1. i \in 1 .. Len(sent) - Len(queue)
      BY <1>2, <2>1
    <3> QED
      BY <3>1 DEF RateInv, EarlierBy
  <2>2. CASE ~ (i <= Len(sent) - Len(queue))
    <3>1. i - (Len(sent) - Len(queue)) \in 1 .. k /\ i \in Int
      BY <1>2, <1>3, <2>2
    <3>2. PICK j \in 1 .. k : j = i - (Len(sent) - Len(queue))
      BY <3>1
    <3>3. j \in 1 .. Len(queue) /\ Len(sent) - Len(queue) + j = i /\ i \in 1 .. Len(sent)
      BY <1>2, <3>1, <3>2
    <3>4. queue[j] = sent[i]
      BY <3>3 DEF RateInv, Latest
    <3>5. queue[j] \in Nat /\ queue[j] <= now
      BY <1>1, <3>3, <3>4, ElementOfSeq DEF TimesInv
    <3>6. queue[j] \in 0 .. now /\ ~ InPeriod(queue[j])
      BY <1>2, <1>3, <3>2, <3>5
    <3>7. queue[j] <= now - Period
      BY <1>2, <3>6, InPeriodIs
    <3> QED
      BY <3>4, <3>7
  <2> QED
    BY <2>1, <2>2
<1> QED
  <2>1. q \in Seq(Nat) /\ Len(q) <= Len(sent)
    BY <1>2, <1>3
  <2> QED
    BY <2>1, <1>4, <1>5 DEF Latest, EarlierBy

(* An order that is sent when the times kept are below the limit.          *)
LEMMA SendSpaced ==
  ASSUME NEW q \in Seq(Nat), NEW s \in Seq(Nat), NEW t \in Nat, Limit \in Nat, Period \in Nat,
         Len(q) <= Len(s), Len(q) < Limit, Latest(q, s), EarlierBy(q, s, t - Period), Spaced(s)
  PROVE  /\ Latest(Append(q, t), Append(s, t))
         /\ EarlierBy(Append(q, t), Append(s, t), t - Period)
         /\ Spaced(Append(s, t))
<1> DEFINE r == Append(q, t)
           u == Append(s, t)
<1>1. /\ Len(r) = Len(q) + 1 /\ Len(u) = Len(s) + 1
      /\ Len(q) \in Nat /\ Len(s) \in Nat
  BY AppendProperties
<1>2. /\ r[Len(q) + 1] = t /\ \A i \in 1 .. Len(q) : r[i] = q[i]
      /\ u[Len(s) + 1] = t /\ \A i \in 1 .. Len(s) : u[i] = s[i]
  BY AppendProperties
<1> HIDE DEF r, u
<1>3. Len(u) - Len(r) = Len(s) - Len(q)
  BY <1>1
<1>4. ASSUME NEW i \in 1 .. Len(r) PROVE r[i] = u[Len(u) - Len(r) + i]
  <2>1. CASE i = Len(q) + 1
    <3>1. Len(u) - Len(r) + i = Len(s) + 1
      BY <1>1, <2>1
    <3> QED
      BY <1>2, <2>1, <3>1
  <2>2. CASE i # Len(q) + 1
    <3>1. i \in 1 .. Len(q) /\ Len(s) - Len(q) + i \in 1 .. Len(s)
      BY <1>1, <2>2
    <3>2. q[i] = s[Len(s) - Len(q) + i]
      BY <3>1 DEF Latest
    <3>3. r[i] = q[i] /\ u[Len(s) - Len(q) + i] = s[Len(s) - Len(q) + i]
      BY <1>2, <3>1
    <3> QED
      BY <1>3, <3>2, <3>3
  <2> QED
    BY <2>1, <2>2
<1>5. ASSUME NEW i \in 1 .. Len(u) - Len(r) PROVE u[i] <= t - Period
  <2>1. i \in 1 .. Len(s) - Len(q) /\ i \in 1 .. Len(s)
    BY <1>1
  <2> QED
    BY <1>2, <2>1 DEF EarlierBy
<1>6. ASSUME NEW i \in 1 .. Len(u), i > Limit PROVE u[i - Limit] <= u[i] - Period
  <2>1. i - Limit \in 1 .. Len(s) /\ i \in Int
    BY <1>1, <1>6
  <2>2. CASE i = Len(s) + 1
    <3>1. i - Limit \in 1 .. Len(s) - Len(q)
      BY <1>1, <2>1, <2>2
    <3>2. s[i - Limit] <= t - Period
      BY <3>1 DEF EarlierBy
    <3> QED
      BY <1>2, <2>1, <2>2, <3>2
  <2>3. CASE i # Len(s) + 1
    <3>1. i \in 1 .. Len(s)
      BY <1>1, <2>3
    <3>2. s[i - Limit] <= s[i] - Period
      BY <1>6, <3>1 DEF Spaced
    <3> QED
      BY <1>2, <2>1, <3>1, <3>2
  <2> QED
    BY <2>2, <2>3
<1>7. Latest(r, u) /\ EarlierBy(r, u, t - Period) /\ Spaced(u)
  BY <1>4, <1>5, <1>6 DEF Latest, EarlierBy, Spaced
<1> QED
  BY <1>7 DEF r, u

LEMMA InitRate ==
  ThrottleAssumption /\ Period <= Start /\ Init => RateInv
BY DEF ThrottleAssumption, Init, RateInv, Latest, EarlierBy, Spaced

LEMMA NextRate ==
  ThrottleAssumption /\ Limited /\ ~ Unchecked /\ TimesInv /\ RateInv /\ [Next]_vars => RateInv'
<1> SUFFICES ASSUME ThrottleAssumption, Limited, ~ Unchecked, TimesInv, RateInv, [Next]_vars
             PROVE  RateInv'
  OBVIOUS
<1>1. /\ now \in Nat /\ Period \in Nat /\ Limit \in Nat /\ now >= Period
      /\ sent \in Seq(Nat) /\ queue \in Seq(Nat)
  BY DEF ThrottleAssumption, TimesInv, Counted, RateInv
<1>2. CASE Tick
  <2>1. now' = now + 1 /\ queue' = queue /\ sent' = sent
    BY <1>2 DEF Tick
  <2>2. ASSUME NEW i \in 1 .. Len(sent) - Len(queue) PROVE sent[i] <= now' - Period
    <3>1. sent[i] <= now - Period
      BY DEF RateInv, EarlierBy
    <3>2. i \in 1 .. Len(sent)
      BY <1>1
    <3>3. sent[i] \in Nat
      BY <1>1, <3>2, ElementOfSeq
    <3> QED
      BY <1>1, <2>1, <3>1, <3>3
  <2>3. EarlierBy(queue, sent, now' - Period) /\ now' >= Period
    BY <1>1, <2>1, <2>2 DEF EarlierBy
  <2> QED
    BY <2>1, <2>3 DEF RateInv
<1>3. CASE Send /\ SendChecked
  <2>1. PICK q : q = Dropped(queue)
    OBVIOUS
  <2>2. /\ q \in Seq(Nat) /\ Len(q) <= Len(sent)
        /\ Latest(q, sent) /\ EarlierBy(q, sent, now - Period)
    BY <2>1, CheckLeaves
  <2>3. /\ now' = now
        /\ \/ queue' = q /\ sent' = sent
           \/ CheckOrderRequest(q) /\ queue' = Append(q, now) /\ sent' = Append(sent, now)
    BY <1>3, <2>1 DEF SendChecked, OnOrderSent
  <2>4. CASE queue' = q /\ sent' = sent
    BY <1>1, <2>2, <2>3, <2>4 DEF RateInv
  <2>5. CASE CheckOrderRequest(q) /\ queue' = Append(q, now) /\ sent' = Append(sent, now)
    <3>1. Len(q) < Limit
      BY <1>1, <2>2, <2>5 DEF CheckOrderRequest, Full
    <3>2. /\ Latest(Append(q, now), Append(sent, now))
          /\ EarlierBy(Append(q, now), Append(sent, now), now - Period)
          /\ Spaced(Append(sent, now))
      BY <1>1, <2>2, <3>1, SendSpaced DEF RateInv
    <3> QED
      BY <1>1, <2>3, <2>5, <3>2 DEF RateInv
  <2> QED
    BY <2>3, <2>4, <2>5
<1>4. CASE UNCHANGED vars
  BY <1>4 DEF vars, RateInv
<1> QED
  BY <1>2, <1>3, <1>4 DEF Next, Send, SendUnchecked

(* Orders that are spaced are no more than the limit in any period.        *)
LEMMA SpacedIsLimited ==
  ASSUME ThrottleAssumption, TimesInv, RateInv
  PROVE  AtMostLimit
<1>1. sent \in Seq(Nat) /\ Limit \in Nat /\ Period \in Nat
  BY DEF ThrottleAssumption, TimesInv, Counted
<1>2. SUFFICES ASSUME NEW i \in 1 .. Len(sent)
               PROVE  Cardinality({j \in 1 .. i : sent[j] > sent[i] - Period}) <= Limit
  BY DEF AtMostLimit
<1> DEFINE S == {j \in 1 .. i : sent[j] > sent[i] - Period}
<1>3. PICK a \in 0 .. i : i - a <= Limit /\ (a # 0 => a = i - Limit)
  <2>1. CASE i <= Limit
    BY <1>1, <2>1
  <2>2. CASE i > Limit
    <3>1. i - Limit \in 0 .. i /\ i - (i - Limit) <= Limit
      BY <1>1, <2>2
    <3> QED
      BY <3>1
  <2> QED
    BY <1>1, <2>1, <2>2
<1>4. ASSUME NEW j \in S PROVE j \in a + 1 .. i
  <2>1. SUFFICES ASSUME j <= a PROVE FALSE
    BY <1>3
  <2>2. a = i - Limit /\ i > Limit /\ a \in 1 .. Len(sent) /\ j \in 1 .. Len(sent)
    BY <1>1, <1>2, <1>3, <2>1
  <2>3. sent[a] <= sent[i] - Period
    BY <1>2, <2>2 DEF RateInv, Spaced
  <2>4. sent[j] <= sent[a]
    BY <2>1, <2>2 DEF TimesInv
  <2>5. sent[j] \in Nat /\ sent[a] \in Nat /\ sent[i] \in Nat
    BY <1>1, <1>2, <2>2, ElementOfSeq
  <2>6. sent[j] > sent[i] - Period
    OBVIOUS
  <2> QED
    BY <1>1, <2>3, <2>4, <2>5, <2>6
<1>5. S \in SUBSET (a + 1 .. i)
  BY <1>4
<1>6. Cardinality(S) \in Nat /\ Cardinality(S) <= i - a
  <2>1. a \in Int /\ i \in Int /\ a <= i
    BY <1>3
  <2> HIDE DEF S
  <2> QED
    BY <1>5, <2>1, WindowSize
<1> QED
  BY <1>1, <1>3, <1>6

(* No period has more orders than the limit, at the instants where it      *)
(* ends: whatever was sent, refused or failed before (CheckOrderRequest).  *)
(* The emergency closes skip the check, and before the machine has been up *)
(* for a period its start wraps around; both are left out.                 *)
THEOREM LimitCorrect ==
  ASSUME ThrottleAssumption, Limited, ~ Unchecked, Period <= Start
  PROVE  Spec => []AtMostLimit
<1> QED
  BY InitTimes, NextTimes, InitRate, NextRate, SpacedIsLimited, PTL DEF Spec

(* An order that is sent had room in the last period (CheckOrderRequest).  *)
THEOREM RoomCorrect ==
  ASSUME ThrottleAssumption, Limited, ~ Unchecked, Period <= Start
  PROVE  Spec => CheckedHasRoom
<1>1. TimesInv /\ RateInv /\ [Next]_vars => [(SendChecked /\ sent' # sent) => Recent < Limit]_vars
  <2> SUFFICES ASSUME TimesInv, RateInv, SendChecked, sent' # sent
               PROVE  Recent < Limit
    OBVIOUS
  <2>1. PICK q : q = Dropped(queue)
    OBVIOUS
  <2>2. q \in Seq(Nat) /\ Len(q) <= Len(sent) /\ EarlierBy(q, sent, now - Period)
    BY <2>1, CheckLeaves
  <2>3. CheckOrderRequest(q) /\ sent \in Seq(Nat) /\ Limit \in Nat /\ now \in Nat /\ Period \in Nat
    BY <2>1 DEF SendChecked, TimesInv, Counted, ThrottleAssumption
  <2>4. Len(q) < Limit
    BY <2>2, <2>3 DEF CheckOrderRequest, Full
  <2> DEFINE S == {i \in 1 .. Len(sent) : sent[i] > now - Period}
             a == Len(sent) - Len(q)
  <2>5. ASSUME NEW i \in S PROVE i \in a + 1 .. Len(sent)
    <3>1. SUFFICES ASSUME i <= a PROVE FALSE
      BY <2>2, <2>3
    <3>2. i \in 1 .. Len(sent) - Len(q)
      BY <3>1
    <3>3. sent[i] <= now - Period
      BY <2>2, <3>2 DEF EarlierBy
    <3>4. sent[i] > now - Period /\ sent[i] \in Nat
      BY <2>3, ElementOfSeq
    <3> QED
      BY <2>3, <3>3, <3>4
  <2>6. S \in SUBSET (a + 1 .. Len(sent))
    BY <2>5
  <2>7. a \in Int /\ Len(sent) \in Int /\ a <= Len(sent) /\ Len(sent) - a = Len(q)
    BY <2>2, <2>3
  <2> HIDE DEF S, a
  <2>8. Cardinality(S) \in Nat /\ Cardinality(S) <= Len(sent) - a
    BY <2>6, <2>7, WindowSize
  <2>9. Recent = Cardinality(S)
    BY DEF Recent, S
  <2> QED
    BY <2>2, <2>3, <2>4, <2>7, <2>8, <2>9
<1> QED
  BY <1>1, InitTimes, NextTimes, InitRate, NextRate, PTL DEF Spec, CheckedHasRoom

=============================================================================
