--------------------------- MODULE RecoveryProofs ---------------------------
(***************************************************************************)
(* Theorems about Recovery for every configuration of strategies, every    *)
(* holding and any numbers of trades and crashes: the pools divide what    *)
(* the broker has, whatever the store says; and with a store that answers, *)
(* it is never behind the book, and a restart that nothing was under way   *)
(* at gives each strategy its holdings back.                               *)
(***************************************************************************)
EXTENDS Recovery, SequenceTheorems

-----------------------------------------------------------------------------
(* The inductive invariant                                                 *)

Position == [Sides -> Nat]
Update == [pool : Pools, pos : Position]
Report == [pool : Names, side : Sides, changed : {-1, 1}]
Count == Len(Strategies)

Typed ==
  /\ broker \in Position /\ reports \in Seq(Report)
  /\ main \in {"down", "cleared", "sleeps", "reads", "long", "short", "recovered", "runs", "false"}
  /\ index \in 1 .. Count + 1 /\ (main \in Sides => index <= Count)
  /\ loaded \in Position
  /\ moving \in Sides \cup {"no"} /\ (moving # "no" => main = moving)
  /\ book \in [Pools -> Position]
  /\ queue \in Seq(Update) /\ Len(queue) <= Capacity
  /\ writer \in {"idle", "sets", "ended"} /\ context \in Update
  /\ db \in [Pools -> Position \cup {None}]
  /\ before \in [Names -> Position] /\ clean \in BOOLEAN

(* What a report does to a side of a pool.                                 *)
Of(r, pool, side) == IF r.pool = pool /\ r.side = side THEN r.changed ELSE 0

(* What the first k reports of q make of a side of a pool.                 *)
Part(q, pool, side, k) == SumTo([i \in 1 .. k |-> Of(q[i], pool, side)], k)

(* No report takes more than its pool has when it arrives.                 *)
Covered ==
  \A p \in Names, side \in Sides, k \in 0 .. Len(reports) :
    book[p][side] + Part(reports, p, side, k) >= 0

(* Taken from the common pool, not yet added to the strategy's.            *)
InHand(side) == IF moving = side THEN loaded[side] ELSE 0

(* The strategies' holdings of a side in the book b, and what the reports   *)
(* of q add to a side.                                                     *)
Held(b, side) == SumTo([i \in 1 .. Count |-> b[Strategies[i]][side]], Count)
Added(q, side) ==
  SumTo([i \in 1 .. Len(q) |-> IF q[i].side = side THEN q[i].changed ELSE 0], Len(q))
All(b, q, side) == b["common"][side] + Held(b, side) + Added(q, side)

Divided ==
  main \notin {"down", "cleared", "false"} =>
    \A side \in Sides : All(book, reports, side) + InHand(side) = broker[side]

(* The same with each pool's reports added to it.                          *)
Net(b, q, side) ==
  SumTo([i \in 1 .. Count |-> b[Strategies[i]][side] + Part(q, Strategies[i], side, Len(q))],
        Count)

NetDivided ==
  main = "runs" =>
    \A side \in Sides : book["common"][side] + Net(book, reports, side) = broker[side]

(* A strategy whose position is still to be loaded has none in the book,   *)
(* nor any on its way to the store.                                        *)
Ahead(j) == main # "false" /\ (j > index \/ (j = index /\ main \notin Sides))
NotQueued(q, p) == \A i \in DOMAIN q : q[i].pool # p
Untouched(p) ==
  /\ book[p] = Empty
  /\ NotQueued(queue, p)
  /\ writer = "sets" => context.pool # p

Phases ==
  /\ main # "runs" => reports = <<>>
  /\ main \in {"down", "cleared"} =>
       queue = <<>> /\ writer = "idle" /\ book = [p \in Pools |-> Empty]
  /\ main \in {"down", "cleared", "sleeps"} => index = 1
  /\ main \in {"recovered", "runs"} => index = Count + 1
  /\ \A j \in 1 .. Count : Ahead(j) => Untouched(Strategies[j])

PoolsInv == Typed /\ Phases /\ Covered /\ Divided /\ NetDivided

-----------------------------------------------------------------------------
(* With a store that answers.                                              *)

(* The newest position of a pool: the last in the queue q, or else the one *)
(* the writer w has in its context c, or else the one in the store d.      *)
LatestOf(q, p) == q[Max({i \in DOMAIN q : q[i].pool = p})].pos
NewestIn(q, w, c, d, p) ==
  IF ~ NotQueued(q, p) THEN LatestOf(q, p)
  ELSE IF w = "sets" /\ c.pool = p THEN c.pos ELSE d[p]
Now(p) == NewestIn(queue, writer, context, db, p)

Follows(p) == Now(p) = book[p] \/ (Now(p) = None /\ book[p] = Empty)

(* A strategy whose sides are being moved: what it has so far, and that it *)
(* is what is stored last, unless nothing has changed it yet.              *)
Half == [side \in Sides |-> IF main = "short" /\ side = "long" THEN loaded["long"] ELSE 0]
Moving(p) ==
  /\ book[p] = Half
  /\ Now(p) = IF main = "short" /\ loaded["long"] # 0 THEN book[p] ELSE loaded

Following ==
  /\ main = "cleared" => db["common"] = None
  /\ main \notin {"down", "false"} => Follows("common")
  /\ main # "false" => \A j \in 1 .. index - 1 : Follows(Strategies[j])
  /\ main \in Sides => Moving(Strategies[index])

(* What the store has of the holdings at the last crash.                   *)
Kept(p) == db[p] = before[p] \/ (db[p] = None /\ before[p] = Empty)

Restoring ==
  clean /\ main # "runs" =>
    /\ main # "false"
    /\ \A side \in Sides : Held(before, side) <= broker[side]
    /\ \A j \in 1 .. index - 1 : book[Strategies[j]] = before[Strategies[j]]
    /\ \A j \in 1 .. Count : Ahead(j) => Kept(Strategies[j])
    /\ main \in Sides => loaded = before[Strategies[index]]

StoreInv == Following /\ Restoring

-----------------------------------------------------------------------------
(* Facts about the data.                                                   *)

(* A sum of terms that are no greater is no greater.                       *)
LEMMA SumToMono ==
  ASSUME NEW N \in Nat, NEW f \in [1 .. N -> Int], NEW g \in [1 .. N -> Int],
         \A i \in 1 .. N : f[i] <= g[i]
  PROVE  SumTo(f, N) <= SumTo(g, N)
<1>1. PICK a \in PartialSums(f, N) : SumTo(f, N) = a[N]
  BY SumToIsPartialSum
<1>2. PICK b \in PartialSums(g, N) : SumTo(g, N) = b[N]
  BY SumToIsPartialSum
<1>3. a \in [0 .. N -> Int] /\ a[0] = 0 /\ \A i \in 1 .. N : a[i] = a[i - 1] + f[i]
  BY <1>1 DEF PartialSums
<1>4. b \in [0 .. N -> Int] /\ b[0] = 0 /\ \A i \in 1 .. N : b[i] = b[i - 1] + g[i]
  BY <1>2 DEF PartialSums
<1> DEFINE T == {n \in Nat : n <= N => a[n] <= b[n]}
<1>5. 0 \in T
  BY <1>3, <1>4
<1>6. ASSUME NEW n \in Nat, n \in T PROVE n + 1 \in T
  <2>1. SUFFICES ASSUME n + 1 <= N PROVE a[n + 1] <= b[n + 1]
    OBVIOUS
  <2>2. n + 1 \in 1 .. N /\ n \in 0 .. N /\ (n + 1) - 1 = n
    BY <2>1
  <2>3. a[n] <= b[n] /\ a[n] \in Int /\ b[n] \in Int
    BY <1>3, <1>4, <1>6, <2>1, <2>2
  <2>4. a[n + 1] = a[n] + f[n + 1] /\ b[n + 1] = b[n] + g[n + 1]
    BY <1>3, <1>4, <2>2
  <2>5. f[n + 1] <= g[n + 1] /\ f[n + 1] \in Int /\ g[n + 1] \in Int
    BY <2>2
  <2> QED
    BY <2>3, <2>4, <2>5
<1>7. T = Nat
  <2> HIDE DEF T
  <2>1. T \in SUBSET Nat
    BY DEF T
  <2> QED
    BY <1>5, <1>6, <2>1, NatSetInduction
<1>8. a[N] <= b[N]
  BY <1>7
<1> QED
  BY <1>1, <1>2, <1>8

LEMMA NamesAre ==
  ASSUME RecoveryAssumption
  PROVE  /\ Count \in Nat /\ DOMAIN Strategies = 1 .. Count
         /\ \A j \in 1 .. Count : Strategies[j] \in Names /\ Strategies[j] \in Pools
         /\ \A p \in Names : \E j \in 1 .. Count : p = Strategies[j]
         /\ \A i, j \in 1 .. Count : Strategies[i] = Strategies[j] => i = j
         /\ "common" \notin Names /\ "common" \in Pools
         /\ \A p \in Names : p \in Pools
         /\ \A p \in Pools : p = "common" \/ p \in Names
<1>1. Count \in Nat /\ DOMAIN Strategies = 1 .. Count
  BY LenProperties DEF RecoveryAssumption, Count
<1> QED
  BY <1>1 DEF RecoveryAssumption, Names, Pools, ToSet

LEMMA SidesAre ==
  /\ "long" \in Sides /\ "short" \in Sides /\ "no" \notin Sides
  /\ \A side \in Sides : side = "long" \/ side = "short"
BY DEF Sides

LEMMA EmptyIs ==
  /\ Empty \in Position /\ \A side \in Sides : Empty[side] = 0
  /\ None \notin Position /\ None # Empty
<1>1. None["long"] = -1 /\ Empty["long"] = 0
  BY DEF None, Empty, Sides
<1>2. \A x \in Position : x["long"] \in Nat
  BY DEF Position, Sides
<1>3. None \notin Position
  BY <1>1, <1>2
<1> QED
  BY <1>1, <1>3 DEF Empty, Position

LEMMA HeldType ==
  ASSUME RecoveryAssumption, NEW b \in [Pools -> Position], NEW side \in Sides
  PROVE  Held(b, side) \in Nat
<1> DEFINE f == [i \in 1 .. Count |-> b[Strategies[i]][side]]
<1>1. Count \in Nat /\ \A j \in 1 .. Count : Strategies[j] \in Pools
  BY NamesAre
<1>2. \A j \in 1 .. Count : b[Strategies[j]][side] \in Nat
  BY <1>1 DEF Position
<1>3. f \in [1 .. Count -> Int] /\ \A j \in 1 .. Count : f[j] >= 0
  BY <1>2
<1> HIDE DEF f
<1>4. SumTo(f, Count) \in Nat
  BY <1>1, <1>3, SumToNat
<1> QED
  BY <1>4 DEF f, Held

LEMMA HeldEmpty ==
  ASSUME RecoveryAssumption, NEW b, NEW side \in Sides,
         \A j \in 1 .. Count : b[Strategies[j]] = Empty
  PROVE  Held(b, side) = 0
<1> DEFINE f == [i \in 1 .. Count |-> b[Strategies[i]][side]]
<1>1. Count \in Nat
  BY NamesAre
<1>2. f \in [1 .. Count -> Int] /\ \A j \in 1 .. Count : f[j] = 0
  BY EmptyIs
<1> HIDE DEF f
<1>3. SumTo(f, Count) = 0
  BY <1>1, <1>2, SumToZero
<1> QED
  BY <1>3 DEF f, Held

(* The strategies' holdings are those of their pools.                      *)
LEMMA HeldSame ==
  ASSUME RecoveryAssumption, NEW b, NEW c, NEW side,
         \A j \in 1 .. Count : c[Strategies[j]][side] = b[Strategies[j]][side]
  PROVE  Held(c, side) = Held(b, side)
<1>1. [i \in 1 .. Count |-> c[Strategies[i]][side]] = [i \in 1 .. Count |-> b[Strategies[i]][side]]
  OBVIOUS
<1> QED
  BY <1>1 DEF Held

LEMMA HeldChanged ==
  ASSUME RecoveryAssumption, NEW b \in [Pools -> Position], NEW c \in [Pools -> Position],
         NEW pool \in Names, NEW side \in Sides, NEW d \in Int,
         c[pool][side] = b[pool][side] + d,
         \A p \in Pools : p # pool => c[p] = b[p]
  PROVE  Held(c, side) = Held(b, side) + d
<1> DEFINE f == [i \in 1 .. Count |-> b[Strategies[i]][side]]
           g == [i \in 1 .. Count |-> c[Strategies[i]][side]]
<1>1. PICK k \in 1 .. Count : pool = Strategies[k]
  BY NamesAre
<1>2. Count \in Nat /\ \A j \in 1 .. Count : Strategies[j] \in Pools
  BY NamesAre
<1>3. \A j \in 1 .. Count : b[Strategies[j]][side] \in Nat /\ c[Strategies[j]][side] \in Nat
  BY <1>2 DEF Position
<1>4. f \in [1 .. Count -> Int] /\ g \in [1 .. Count -> Int]
  BY <1>3
<1>5. \A j \in 1 .. Count : j # k => g[j] = f[j]
  BY <1>1, <1>2, NamesAre
<1>6. g[k] = f[k] + d /\ f[k] \in Int
  BY <1>1, <1>3
<1> HIDE DEF f, g
<1>7. SumTo(g, Count) = SumTo(f, Count) + (g[k] - f[k])
  BY <1>2, <1>4, <1>5, SumToUpdate
<1>8. SumTo(f, Count) \in Int
  BY <1>2, <1>4, SumToInt
<1>9. SumTo(g, Count) = SumTo(f, Count) + d
  BY <1>6, <1>7, <1>8
<1> QED
  BY <1>9 DEF f, g, Held

(* Reports *)

LEMMA OfIs ==
  ASSUME RecoveryAssumption, NEW r \in Report, NEW pool, NEW side
  PROVE  /\ Of(r, pool, side) \in Int
         /\ r.pool \in Names /\ r.side \in Sides /\ r.changed \in {-1, 1}
BY DEF Of, Report

LEMMA OfTerms ==
  ASSUME RecoveryAssumption, NEW q \in Seq(Report), NEW pool, NEW side
  PROVE  /\ Len(q) \in Nat
         /\ \A i \in 1 .. Len(q) : Of(q[i], pool, side) \in Int
<1>1. Len(q) \in Nat
  BY LenProperties
<1>2. \A i \in 1 .. Len(q) : q[i] \in Report
  BY <1>1, ElementOfSeq
<1> QED
  BY <1>1, <1>2, OfIs

LEMMA PartTerms ==
  ASSUME RecoveryAssumption, NEW q \in Seq(Report), NEW pool, NEW side,
         NEW k \in 0 .. Len(q)
  PROVE  /\ k \in Nat
         /\ [i \in 1 .. k |-> Of(q[i], pool, side)] \in [1 .. k -> Int]
         /\ Part(q, pool, side, k) \in Int
<1> DEFINE f == [i \in 1 .. k |-> Of(q[i], pool, side)]
<1>1. k \in Nat /\ Len(q) \in Nat
  BY LenProperties
<1>2. \A i \in 1 .. k : q[i] \in Report
  BY <1>1, ElementOfSeq
<1>3. f \in [1 .. k -> Int]
  BY <1>2, OfIs
<1> HIDE DEF f
<1>4. SumTo(f, k) \in Int
  BY <1>1, <1>3, SumToInt
<1> QED
  BY <1>1, <1>3, <1>4 DEF f, Part

LEMMA PartNone ==
  ASSUME RecoveryAssumption, NEW q, NEW pool, NEW side
  PROVE  Part(q, pool, side, 0) = 0
<1> DEFINE f == [i \in 1 .. 0 |-> Of(q[i], pool, side)]
<1>1. f \in [1 .. 0 -> Int] /\ \A i \in 1 .. 0 : f[i] = 0
  OBVIOUS
<1> HIDE DEF f
<1>2. SumTo(f, 0) = 0
  BY <1>1, SumToZero
<1> QED
  BY <1>2 DEF f, Part

LEMMA PartBefore ==
  ASSUME NEW q \in Seq(Report), NEW r \in Report, NEW pool, NEW side,
         NEW k \in 0 .. Len(q)
  PROVE  Part(Append(q, r), pool, side, k) = Part(q, pool, side, k)
<1>1. Len(q) \in Nat /\ \A i \in 1 .. Len(q) : Append(q, r)[i] = q[i]
  BY AppendProperties, LenProperties
<1>2. [i \in 1 .. k |-> Of(Append(q, r)[i], pool, side)] = [i \in 1 .. k |-> Of(q[i], pool, side)]
  BY <1>1
<1> QED
  BY <1>2 DEF Part

LEMMA PartAppend ==
  ASSUME RecoveryAssumption, NEW q \in Seq(Report), NEW r \in Report, NEW pool, NEW side
  PROVE  Part(Append(q, r), pool, side, Len(q) + 1)
           = Part(q, pool, side, Len(q)) + Of(r, pool, side)
<1>1. /\ Append(q, r) \in Seq(Report) /\ Len(Append(q, r)) = Len(q) + 1 /\ Len(q) \in Nat
      /\ \A i \in 1 .. Len(q) : Append(q, r)[i] = q[i]
      /\ Append(q, r)[Len(q) + 1] = r
  BY AppendProperties, LenProperties
<1> DEFINE n == Len(q)
           f == [i \in 1 .. n |-> Of(q[i], pool, side)]
           g == [i \in 1 .. n + 1 |-> Of(Append(q, r)[i], pool, side)]
<1>3. f \in [1 .. n -> Int]
  BY OfTerms
<1>4. \A i \in 1 .. Len(Append(q, r)) : Of(Append(q, r)[i], pool, side) \in Int
  BY <1>1, OfTerms
<1>5. g \in [1 .. n + 1 -> Int]
  BY <1>1, <1>4
<1>6. \A i \in 1 .. n : g[i] = f[i]
  BY <1>1
<1>7. g[n + 1] = Of(r, pool, side)
  BY <1>1
<1>8. n \in Nat
  BY <1>1
<1> HIDE DEF n, f, g
<1>9. SumTo(g, n + 1) = SumTo(f, n) + g[n + 1]
  BY <1>3, <1>5, <1>6, <1>8, SumToExtend
<1> QED
  BY <1>7, <1>9 DEF Part, n, f, g

LEMMA PartTail ==
  ASSUME RecoveryAssumption, NEW q \in Seq(Report), q # <<>>, NEW pool, NEW side,
         NEW k \in 0 .. Len(Tail(q))
  PROVE  /\ Tail(q) \in Seq(Report) /\ Head(q) \in Report
         /\ Len(q) = Len(Tail(q)) + 1 /\ k + 1 \in 0 .. Len(q) /\ 1 \in 0 .. Len(q)
         /\ Part(q, pool, side, k + 1) = Of(Head(q), pool, side) + Part(Tail(q), pool, side, k)
         /\ Part(q, pool, side, 1) = Of(Head(q), pool, side)
<1>1. /\ Tail(q) \in Seq(Report) /\ Head(q) \in Report /\ Head(q) = q[1]
      /\ Len(Tail(q)) = Len(q) - 1 /\ Len(q) \in Nat /\ Len(q) >= 1
      /\ \A i \in 1 .. Len(q) - 1 : Tail(q)[i] = q[i + 1]
  BY HeadTailProperties, LenProperties, EmptySeq, ElementOfSeq
<1>2. ASSUME NEW m \in 0 .. Len(Tail(q))
      PROVE  Part(q, pool, side, m + 1) = Of(Head(q), pool, side) + Part(Tail(q), pool, side, m)
  <2> DEFINE f == [i \in 1 .. m |-> Of(Tail(q)[i], pool, side)]
             g == [i \in 1 .. m + 1 |-> Of(q[i], pool, side)]
  <2>1. m \in Nat /\ m + 1 \in 0 .. Len(q)
    BY <1>1
  <2>2. f \in [1 .. m -> Int]
    <3>1. \A i \in 1 .. Len(Tail(q)) : Of(Tail(q)[i], pool, side) \in Int
      BY <1>1, OfTerms
    <3> QED
      BY <1>1, <3>1
  <2>3. g \in [1 .. m + 1 -> Int]
    <3>1. \A i \in 1 .. Len(q) : Of(q[i], pool, side) \in Int
      BY OfTerms
    <3> QED
      BY <1>1, <3>1
  <2>4. \A i \in 1 .. m : f[i] = g[i + 1]
    BY <1>1, <2>1
  <2>5. g[1] = Of(Head(q), pool, side)
    BY <1>1, <2>1
  <2> HIDE DEF f, g
  <2>6. SumTo(g, m + 1) = g[1] + SumTo(f, m)
    BY <2>1, <2>2, <2>3, <2>4, SumToShift
  <2> QED
    BY <2>5, <2>6 DEF Part, f, g
<1>3. Part(Tail(q), pool, side, 0) = 0
  BY PartNone
<1>4. Of(Head(q), pool, side) \in Int
  BY <1>1, OfIs
<1>5. Part(q, pool, side, 0 + 1) = Of(Head(q), pool, side) + 0
  BY <1>1, <1>2, <1>3
<1> QED
  BY <1>1, <1>2, <1>4, <1>5

LEMMA UnreportedIs ==
  ASSUME RecoveryAssumption, reports \in Seq(Report), NEW pool, NEW side
  PROVE  Unreported(pool, side) = Part(reports, pool, side, Len(reports))
<1>1. DOMAIN reports = 1 .. Len(reports)
  BY LenProperties
<1>2. [i \in DOMAIN reports |-> IF reports[i].pool = pool /\ reports[i].side = side
                                THEN reports[i].changed ELSE 0]
        = [i \in 1 .. Len(reports) |-> Of(reports[i], pool, side)]
  BY <1>1 DEF Of
<1> QED
  BY <1>2 DEF Unreported, Part

(* What one report adds to a side.                                         *)
Adds(r, side) == IF r.side = side THEN r.changed ELSE 0

LEMMA AddedTerms ==
  ASSUME RecoveryAssumption, NEW q \in Seq(Report), NEW side
  PROVE  /\ Len(q) \in Nat
         /\ [i \in 1 .. Len(q) |-> Adds(q[i], side)] \in [1 .. Len(q) -> Int]
         /\ Added(q, side) = SumTo([i \in 1 .. Len(q) |-> Adds(q[i], side)], Len(q))
         /\ Added(q, side) \in Int
<1> DEFINE f == [i \in 1 .. Len(q) |-> Adds(q[i], side)]
<1>1. Len(q) \in Nat
  BY LenProperties
<1>2. \A i \in 1 .. Len(q) : q[i] \in Report
  BY <1>1, ElementOfSeq
<1>3. f \in [1 .. Len(q) -> Int]
  BY <1>2, OfIs DEF Adds
<1>4. Added(q, side) = SumTo(f, Len(q))
  BY DEF Added, Adds
<1> HIDE DEF f
<1>5. SumTo(f, Len(q)) \in Int
  BY <1>1, <1>3, SumToInt
<1> QED
  BY <1>1, <1>3, <1>4, <1>5 DEF f

LEMMA AddedNone ==
  ASSUME RecoveryAssumption, NEW side
  PROVE  Added(<<>>, side) = 0
<1> DEFINE q == <<>>
           f == [i \in 1 .. 0 |-> Adds(q[i], side)]
<1>1. q \in Seq(Report) /\ Len(q) = 0
  BY EmptySeq
<1>2. f \in [1 .. 0 -> Int] /\ \A i \in 1 .. 0 : f[i] = 0
  OBVIOUS
<1>3. Added(q, side) = SumTo(f, 0)
  BY <1>1, AddedTerms
<1> HIDE DEF f
<1>4. SumTo(f, 0) = 0
  BY <1>2, SumToZero
<1> QED
  BY <1>3, <1>4

LEMMA AddedAppend ==
  ASSUME RecoveryAssumption, NEW q \in Seq(Report), NEW r \in Report, NEW side
  PROVE  Added(Append(q, r), side) = Added(q, side) + Adds(r, side)
<1>1. /\ Append(q, r) \in Seq(Report) /\ Len(Append(q, r)) = Len(q) + 1 /\ Len(q) \in Nat
      /\ \A i \in 1 .. Len(q) : Append(q, r)[i] = q[i]
      /\ Append(q, r)[Len(q) + 1] = r
  BY AppendProperties, LenProperties
<1> DEFINE n == Len(q)
           f == [i \in 1 .. n |-> Adds(q[i], side)]
           g == [i \in 1 .. n + 1 |-> Adds(Append(q, r)[i], side)]
<1>2. f \in [1 .. n -> Int] /\ Added(q, side) = SumTo(f, n)
  BY AddedTerms
<1>3. g \in [1 .. n + 1 -> Int] /\ Added(Append(q, r), side) = SumTo(g, n + 1)
  BY <1>1, AddedTerms
<1>4. (\A i \in 1 .. n : g[i] = f[i]) /\ g[n + 1] = Adds(r, side) /\ n \in Nat
  BY <1>1
<1> HIDE DEF n, f, g
<1>5. SumTo(g, n + 1) = SumTo(f, n) + g[n + 1]
  BY <1>2, <1>3, <1>4, SumToExtend
<1> QED
  BY <1>2, <1>3, <1>4, <1>5

LEMMA AddedTail ==
  ASSUME RecoveryAssumption, NEW q \in Seq(Report), q # <<>>, NEW side
  PROVE  Added(q, side) = Adds(Head(q), side) + Added(Tail(q), side)
<1>1. /\ Tail(q) \in Seq(Report) /\ Head(q) = q[1]
      /\ Len(Tail(q)) = Len(q) - 1 /\ Len(q) \in Nat /\ Len(q) >= 1
      /\ \A i \in 1 .. Len(q) - 1 : Tail(q)[i] = q[i + 1]
  BY HeadTailProperties, LenProperties, EmptySeq
<1> DEFINE n == Len(Tail(q))
           f == [i \in 1 .. n |-> Adds(Tail(q)[i], side)]
           g == [i \in 1 .. n + 1 |-> Adds(q[i], side)]
<1>2. f \in [1 .. n -> Int] /\ Added(Tail(q), side) = SumTo(f, n)
  BY <1>1, AddedTerms
<1>3. n \in Nat /\ n + 1 = Len(q)
  BY <1>1
<1>4. g \in [1 .. n + 1 -> Int] /\ Added(q, side) = SumTo(g, n + 1)
  BY <1>3, AddedTerms
<1>5. (\A i \in 1 .. n : f[i] = g[i + 1]) /\ g[1] = Adds(Head(q), side)
  BY <1>1
<1> HIDE DEF n, f, g
<1>6. SumTo(g, n + 1) = g[1] + SumTo(f, n)
  BY <1>2, <1>3, <1>4, <1>5, SumToShift
<1> QED
  BY <1>2, <1>4, <1>5, <1>6

(* The holdings of all pools, from these two sums.                         *)
LEMMA TotalIs ==
  ASSUME RecoveryAssumption, reports \in Seq(Report), NEW side
  PROVE  Total(side) = All(book, reports, side)
<1>1. DOMAIN reports = 1 .. Len(reports) /\ DOMAIN Strategies = 1 .. Count
  BY LenProperties, NamesAre
<1>2. [i \in DOMAIN reports |-> IF reports[i].side = side THEN reports[i].changed ELSE 0]
        = [i \in 1 .. Len(reports) |-> IF reports[i].side = side THEN reports[i].changed ELSE 0]
  BY <1>1
<1>3. [i \in DOMAIN Strategies |-> book[Strategies[i]][side]]
        = [i \in 1 .. Count |-> book[Strategies[i]][side]]
  BY <1>1
<1> QED
  BY <1>2, <1>3 DEF Total, All, Held, Added, Count

-----------------------------------------------------------------------------
(* The sums of what each strategy has with its reports                     *)

LEMMA NetTerms ==
  ASSUME RecoveryAssumption, NEW b \in [Pools -> Position], NEW q \in Seq(Report),
         NEW side \in Sides
  PROVE  /\ Count \in Nat
         /\ [i \in 1 .. Count |-> b[Strategies[i]][side] + Part(q, Strategies[i], side, Len(q))]
              \in [1 .. Count -> Int]
         /\ Net(b, q, side) \in Int
<1> DEFINE f == [i \in 1 .. Count |->
                   b[Strategies[i]][side] + Part(q, Strategies[i], side, Len(q))]
<1>1. Count \in Nat /\ \A j \in 1 .. Count : Strategies[j] \in Pools
  BY NamesAre
<1>2. \A j \in 1 .. Count : b[Strategies[j]][side] \in Nat
  BY <1>1 DEF Position
<1>3. Len(q) \in 0 .. Len(q)
  BY LenProperties
<1>4. \A j \in 1 .. Count : Part(q, Strategies[j], side, Len(q)) \in Int
  BY <1>3, PartTerms
<1>5. f \in [1 .. Count -> Int]
  BY <1>2, <1>4
<1> HIDE DEF f
<1>6. SumTo(f, Count) \in Int
  BY <1>1, <1>5, SumToInt
<1> QED
  BY <1>1, <1>5, <1>6 DEF f, Net

(* Without reports it is the holdings.                                     *)
LEMMA NetQuiet ==
  ASSUME RecoveryAssumption, NEW b \in [Pools -> Position], NEW side \in Sides
  PROVE  Net(b, <<>>, side) = Held(b, side)
<1>1. \A j \in 1 .. Count : Part(<<>>, Strategies[j], side, 0) = 0
  BY PartNone
<1>2. Count \in Nat /\ \A j \in 1 .. Count : Strategies[j] \in Pools
  BY NamesAre
<1>3. \A j \in 1 .. Count : b[Strategies[j]][side] \in Nat
  BY <1>2 DEF Position
<1>4. Len(<<>>) = 0
  OBVIOUS
<1>5. [i \in 1 .. Count |-> b[Strategies[i]][side] + Part(<<>>, Strategies[i], side, 0)]
        = [i \in 1 .. Count |-> b[Strategies[i]][side]]
  BY <1>1, <1>3
<1> QED
  BY <1>4, <1>5 DEF Net, Held

(* It is not less than what one strategy has so.                           *)
LEMMA NetCovers ==
  ASSUME RecoveryAssumption, NEW b \in [Pools -> Position], NEW q \in Seq(Report),
         NEW side \in Sides, NEW pool \in Names,
         \A p \in Names : b[p][side] + Part(q, p, side, Len(q)) >= 0
  PROVE  Net(b, q, side) >= b[pool][side] + Part(q, pool, side, Len(q))
<1> DEFINE f == [i \in 1 .. Count |->
                   b[Strategies[i]][side] + Part(q, Strategies[i], side, Len(q))]
<1>1. PICK k \in 1 .. Count : pool = Strategies[k]
  BY NamesAre
<1>2. f \in [1 .. Count -> Int] /\ Count \in Nat
  BY NetTerms
<1>3. \A j \in 1 .. Count : f[j] >= 0
  BY NamesAre
<1>4. f[k] = b[pool][side] + Part(q, pool, side, Len(q)) /\ Net(b, q, side) = SumTo(f, Count)
  BY <1>1 DEF Net
<1> HIDE DEF f
<1> DEFINE g == [f EXCEPT ![k] = 0]
<1>5. g \in [1 .. Count -> Int] /\ g[k] = 0 /\ \A j \in 1 .. Count : j # k => g[j] = f[j]
  BY <1>2
<1>6. \A j \in 1 .. Count : g[j] >= 0
  BY <1>3, <1>5
<1> HIDE DEF g
<1>7. SumTo(g, Count) \in Nat /\ SumTo(f, Count) \in Int
  BY <1>2, <1>5, <1>6, SumToNat, SumToInt
<1>8. SumTo(g, Count) = SumTo(f, Count) + (g[k] - f[k])
  BY <1>2, <1>5, SumToUpdate
<1>9. f[k] \in Int
  BY <1>2
<1>10. SumTo(f, Count) >= f[k]
  BY <1>5, <1>7, <1>8, <1>9
<1> QED
  BY <1>4, <1>10

(* A trade under way counts as done.                                       *)
LEMMA NetAppend ==
  ASSUME RecoveryAssumption, NEW b \in [Pools -> Position], NEW q \in Seq(Report),
         NEW side \in Sides, NEW r \in Report
  PROVE  Net(b, Append(q, r), side) = Net(b, q, side) + Adds(r, side)
<1> DEFINE s == Append(q, r)
           f == [i \in 1 .. Count |->
                   b[Strategies[i]][side] + Part(q, Strategies[i], side, Len(q))]
           g == [i \in 1 .. Count |->
                   b[Strategies[i]][side] + Part(s, Strategies[i], side, Len(s))]
<1>1. s \in Seq(Report) /\ Len(s) = Len(q) + 1
  BY AppendProperties
<1>2. PICK k \in 1 .. Count : r.pool = Strategies[k]
  BY OfIs, NamesAre
<1>3. f \in [1 .. Count -> Int] /\ Net(b, q, side) = SumTo(f, Count) /\ Count \in Nat
  BY NetTerms DEF Net
<1>4. g \in [1 .. Count -> Int] /\ Net(b, s, side) = SumTo(g, Count)
  BY <1>1, NetTerms DEF Net
<1>5. \A p : Part(s, p, side, Len(s)) = Part(q, p, side, Len(q)) + Of(r, p, side)
  BY <1>1, PartAppend
<1>6. /\ \A p : Of(r, p, side) = IF p = r.pool THEN Adds(r, side) ELSE 0
      /\ Adds(r, side) \in Int
  BY OfIs DEF Of, Adds
<1>7. Len(q) \in 0 .. Len(q)
  BY LenProperties
<1>8. \A j \in 1 .. Count : Part(q, Strategies[j], side, Len(q)) \in Int
  BY <1>7, PartTerms
<1>9. \A j \in 1 .. Count : b[Strategies[j]][side] \in Nat
  BY NamesAre DEF Position
<1>10. ASSUME NEW j \in 1 .. Count, j # k
       PROVE  g[j] = f[j]
  <2>1. Strategies[j] # r.pool
    BY <1>2, <1>10, NamesAre
  <2>2. Part(s, Strategies[j], side, Len(s)) = Part(q, Strategies[j], side, Len(q)) + 0
    BY <1>5, <1>6, <2>1
  <2> QED
    BY <1>8, <2>2
<1>11. g[k] = f[k] + Adds(r, side) /\ f[k] \in Int
  <2>1. Part(s, Strategies[k], side, Len(s)) = Part(q, Strategies[k], side, Len(q)) + Adds(r, side)
    BY <1>2, <1>5, <1>6
  <2> QED
    BY <1>6, <1>8, <1>9, <2>1
<1> HIDE DEF f, g, s
<1>12. SumTo(g, Count) = SumTo(f, Count) + (g[k] - f[k])
  BY <1>3, <1>4, <1>10, SumToUpdate
<1>13. SumTo(f, Count) \in Int
  BY <1>3, SumToInt
<1>14. SumTo(g, Count) = SumTo(f, Count) + Adds(r, side)
  BY <1>6, <1>11, <1>12, <1>13
<1> QED
  BY <1>3, <1>4, <1>14 DEF s

(* Done, it is in the pool it was under way to.                            *)
LEMMA NetTail ==
  ASSUME RecoveryAssumption, NEW b \in [Pools -> Position], NEW c \in [Pools -> Position],
         NEW q \in Seq(Report), q # <<>>, NEW side \in Sides,
         \A p \in Names, s \in Sides : c[p][s] = b[p][s] + Of(Head(q), p, s)
  PROVE  Net(c, Tail(q), side) = Net(b, q, side)
<1> DEFINE t == Tail(q)
<1>1. Len(t) \in 0 .. Len(t) /\ t \in Seq(Report) /\ Head(q) \in Report
  BY HeadTailProperties, LenProperties
<1>2. \A p : Part(q, p, side, Len(q)) = Of(Head(q), p, side) + Part(t, p, side, Len(t))
  BY <1>1, PartTail
<1>3. ASSUME NEW j \in 1 .. Count
      PROVE  c[Strategies[j]][side] + Part(t, Strategies[j], side, Len(t))
               = b[Strategies[j]][side] + Part(q, Strategies[j], side, Len(q))
  <2>1. Strategies[j] \in Names /\ Strategies[j] \in Pools
    BY NamesAre
  <2>2. b[Strategies[j]][side] \in Nat
    BY <2>1 DEF Position
  <2>3. Part(t, Strategies[j], side, Len(t)) \in Int
    BY <1>1, PartTerms
  <2>4. Of(Head(q), Strategies[j], side) \in Int
    BY <1>1, OfIs
  <2>5. c[Strategies[j]][side] = b[Strategies[j]][side] + Of(Head(q), Strategies[j], side)
    BY <2>1
  <2>6. Part(q, Strategies[j], side, Len(q))
          = Of(Head(q), Strategies[j], side) + Part(t, Strategies[j], side, Len(t))
    BY <1>2
  <2> QED
    BY <2>2, <2>3, <2>4, <2>5, <2>6
<1>4. [i \in 1 .. Count |-> c[Strategies[i]][side] + Part(t, Strategies[i], side, Len(t))]
        = [i \in 1 .. Count |-> b[Strategies[i]][side] + Part(q, Strategies[i], side, Len(q))]
  BY <1>3
<1> QED
  BY <1>4 DEF Net

-----------------------------------------------------------------------------
(* Updates of the book                                                     *)

LEMMA NotQueuedAppend ==
  ASSUME NEW q \in Seq(Update), NEW u \in Update, NEW p
  PROVE  /\ Append(q, u) \in Seq(Update) /\ Len(Append(q, u)) = Len(q) + 1
         /\ u.pool # p /\ NotQueued(q, p) => NotQueued(Append(q, u), p)
<1>1. /\ Append(q, u) \in Seq(Update) /\ Len(Append(q, u)) = Len(q) + 1 /\ Len(q) \in Nat
      /\ \A i \in 1 .. Len(q) : Append(q, u)[i] = q[i]
      /\ Append(q, u)[Len(q) + 1] = u
      /\ DOMAIN q = 1 .. Len(q) /\ DOMAIN Append(q, u) = 1 .. Len(q) + 1
  BY AppendProperties, LenProperties
<1>2. \A i \in 1 .. Len(q) + 1 : i \in 1 .. Len(q) \/ i = Len(q) + 1
  BY <1>1
<1> QED
  BY <1>1, <1>2 DEF NotQueued

LEMMA NotQueuedTail ==
  ASSUME NEW q \in Seq(Update), q # <<>>, NEW p
  PROVE  /\ Tail(q) \in Seq(Update) /\ Head(q) \in Update /\ Len(Tail(q)) = Len(q) - 1
         /\ NotQueued(q, p) => NotQueued(Tail(q), p) /\ Head(q).pool # p
<1>1. /\ Tail(q) \in Seq(Update) /\ Head(q) \in Update /\ Head(q) = q[1]
      /\ Len(Tail(q)) = Len(q) - 1 /\ Len(q) \in Nat /\ Len(q) >= 1
      /\ \A i \in 1 .. Len(q) - 1 : Tail(q)[i] = q[i + 1]
      /\ DOMAIN q = 1 .. Len(q) /\ DOMAIN Tail(q) = 1 .. Len(q) - 1
  BY HeadTailProperties, LenProperties, EmptySeq, ElementOfSeq
<1>2. 1 \in 1 .. Len(q) /\ \A i \in 1 .. Len(q) - 1 : i + 1 \in 1 .. Len(q)
  BY <1>1
<1> QED
  BY <1>1, <1>2 DEF NotQueued

LEMMA CalledBack ==
  ASSUME RecoveryAssumption, Typed, NEW pool \in Pools, NEW pos \in Position,
         Callback(pool, pos)
  PROVE  /\ queue' = Append(queue, [pool |-> pool, pos |-> pos])
         /\ queue' \in Seq(Update) /\ Len(queue') <= Capacity
         /\ \A p : p # pool /\ NotQueued(queue, p) => NotQueued(queue', p)
<1> DEFINE u == [pool |-> pool, pos |-> pos]
<1>1. u \in Update /\ u.pool = pool
  BY DEF Update
<1>2. queue' = Append(queue, u) /\ Len(queue) < Capacity
  BY DEF Callback
<1>3. queue \in Seq(Update) /\ Len(queue) \in Nat /\ Capacity \in Nat
  BY LenProperties DEF Typed, RecoveryAssumption
<1> HIDE DEF u
<1>4. Append(queue, u) \in Seq(Update) /\ Len(Append(queue, u)) = Len(queue) + 1
  BY <1>1, <1>3, NotQueuedAppend
<1>5. \A p : p # pool /\ NotQueued(queue, p) => NotQueued(Append(queue, u), p)
  BY <1>1, <1>3, NotQueuedAppend
<1> QED
  BY <1>2, <1>3, <1>4, <1>5 DEF u

LEMMA Modified ==
  ASSUME RecoveryAssumption, Typed, NEW pool \in Pools, NEW side \in Sides, NEW changed \in Int,
         ModifyPosition(pool, side, changed), book[pool][side] + changed >= 0
  PROVE  /\ book' \in [Pools -> Position]
         /\ book'[pool][side] = book[pool][side] + changed
         /\ \A s \in Sides : s # side => book'[pool][s] = book[pool][s]
         /\ \A p \in Pools : p # pool => book'[p] = book[p]
         /\ queue' \in Seq(Update) /\ Len(queue') <= Capacity
         /\ changed = 0 => queue' = queue /\ book' = book
         /\ changed # 0 => queue' = Append(queue, [pool |-> pool, pos |-> book'[pool]])
         /\ \A p : p # pool /\ NotQueued(queue, p) => NotQueued(queue', p)
<1>1. book \in [Pools -> Position] /\ queue \in Seq(Update) /\ Len(queue) <= Capacity
  BY DEF Typed
<1>2. book' = [book EXCEPT ![pool][side] = @ + changed]
  BY DEF ModifyPosition
<1>3. /\ book' \in [Pools -> Position]
      /\ book'[pool][side] = book[pool][side] + changed
      /\ \A s \in Sides : s # side => book'[pool][s] = book[pool][s]
      /\ \A p \in Pools : p # pool => book'[p] = book[p]
  <2>1. book[pool] \in Position
    BY <1>1
  <2>2. book[pool][side] \in Nat
    BY <2>1 DEF Position
  <2> DEFINE x == [book[pool] EXCEPT ![side] = @ + changed]
  <2>3. book[pool][side] + changed \in Nat
    BY <2>2
  <2>4. x \in Position /\ x[side] = book[pool][side] + changed
        /\ \A s \in Sides : s # side => x[s] = book[pool][s]
    BY <2>1, <2>3 DEF Position
  <2>5. book' = [book EXCEPT ![pool] = x]
    BY <1>2
  <2> HIDE DEF x
  <2>6. book' \in [Pools -> Position] /\ book'[pool] = x
        /\ \A p \in Pools : p # pool => book'[p] = book[p]
    BY <1>1, <2>4, <2>5
  <2> QED
    BY <2>4, <2>6
<1>4. CASE changed = 0
  <2>1. queue' = queue
    BY <1>4 DEF ModifyPosition
  <2>2. book[pool] \in Position /\ book'[pool] \in Position
    BY <1>1, <1>3
  <2>3. \A s \in Sides : book'[pool][s] = book[pool][s]
    BY <1>3, <1>4, <2>2 DEF Position
  <2>4. book'[pool] = book[pool]
    BY <2>2, <2>3 DEF Position
  <2>5. book' = book
    BY <1>1, <1>3, <2>4
  <2> QED
    BY <1>1, <1>3, <1>4, <2>1, <2>5
<1>5. CASE changed # 0
  <2>1. Callback(pool, book'[pool])
    BY <1>5 DEF ModifyPosition
  <2>2. book'[pool] \in Position
    BY <1>3
  <2>3. /\ queue' = Append(queue, [pool |-> pool, pos |-> book'[pool]])
        /\ queue' \in Seq(Update) /\ Len(queue') <= Capacity
        /\ \A p : p # pool /\ NotQueued(queue, p) => NotQueued(queue', p)
    BY <2>1, <2>2, CalledBack
  <2> QED
    BY <1>3, <1>5, <2>3
<1> QED
  BY <1>4, <1>5

-----------------------------------------------------------------------------
(* The pools divide what the broker has: the initial states                *)

LEMMA InitPools == RecoveryAssumption /\ Init => PoolsInv
<1> SUFFICES ASSUME RecoveryAssumption, Init PROVE PoolsInv
  OBVIOUS
<1>1. /\ broker \in [Sides -> Sizes] /\ reports = <<>> /\ main = "down" /\ index = 1
      /\ loaded = Empty /\ moving = "no" /\ book = [p \in Pools |-> Empty] /\ queue = <<>>
      /\ writer = "idle" /\ context = [pool |-> "common", pos |-> Empty]
      /\ db = [p \in Pools |-> None] /\ before = [p \in Names |-> Empty] /\ clean = TRUE
  BY DEF Init
<1>2. Sizes \subseteq Nat /\ Capacity \in Nat /\ Capacity > 0
  BY DEF RecoveryAssumption
<1>3. Typed
  <2>1. broker \in Position /\ Empty \in Position /\ "common" \in Pools
    BY <1>1, <1>2, EmptyIs, NamesAre DEF Position
  <2>2. reports \in Seq(Report) /\ queue \in Seq(Update) /\ Len(queue) = 0
    BY <1>1, EmptySeq
  <2>3. context \in Update
    BY <1>1, <2>1 DEF Update
  <2>4. index \in 1 .. Count + 1
    BY <1>1, NamesAre
  <2>5. main \notin Sides
    BY <1>1 DEF Sides
  <2> QED
    BY <1>1, <1>2, <2>1, <2>2, <2>3, <2>4, <2>5 DEF Typed
<1>4. Phases
  <2>1. \A j \in 1 .. Count : Untouched(Strategies[j])
    BY <1>1, NamesAre DEF Untouched, NotQueued
  <2> QED
    BY <1>1, <2>1 DEF Phases
<1>5. Covered
  <2> SUFFICES ASSUME NEW p \in Names, NEW side \in Sides, NEW k \in 0 .. Len(reports)
               PROVE  book[p][side] + Part(reports, p, side, k) >= 0
    BY DEF Covered
  <2>1. k = 0
    BY <1>1
  <2>2. Part(reports, p, side, k) = 0
    BY <2>1, PartNone
  <2>3. book[p][side] = 0
    BY <1>1, NamesAre, EmptyIs
  <2> QED
    BY <2>2, <2>3
<1>6. Divided /\ NetDivided
  BY <1>1 DEF Divided, NetDivided
<1> QED
  BY <1>3, <1>4, <1>5, <1>6 DEF PoolsInv

-----------------------------------------------------------------------------
(* The pools divide what the broker has: the steps                         *)

(* Steps that change no holdings.                                          *)
LEMMA FramePools ==
  ASSUME RecoveryAssumption, PoolsInv, Typed', Phases',
         UNCHANGED <<broker, reports, book, moving>>,
         moving \in Sides => loaded' = loaded,
         main' \notin {"down", "cleared", "false"} => main \notin {"down", "cleared", "false"},
         main' = "runs" => main \in {"recovered", "runs"}
  PROVE  PoolsInv'
<1>1. Typed /\ Phases /\ Covered /\ Divided /\ NetDivided
  BY DEF PoolsInv
<1>2. Covered'
  BY <1>1 DEF Covered
<1>3. Divided'
  <2>1. \A side \in Sides : InHand(side)' = InHand(side)
    BY DEF InHand
  <2>2. \A side \in Sides : All(book, reports, side)' = All(book, reports, side)
    OBVIOUS
  <2> QED
    BY <1>1, <2>1, <2>2 DEF Divided
<1>4. NetDivided'
  <2> SUFFICES ASSUME main' = "runs", NEW side \in Sides
               PROVE  book["common"][side] + Net(book, reports, side) = broker[side]
    BY DEF NetDivided
  <2>1. CASE main = "runs"
    BY <1>1, <2>1 DEF NetDivided
  <2>2. CASE main = "recovered"
    <3>1. reports = <<>>
      BY <1>1, <2>2 DEF Phases
    <3>2. moving = "no"
      BY <1>1, <2>2, SidesAre DEF Typed, Sides
    <3>3. InHand(side) = 0
      BY <3>2, SidesAre DEF InHand
    <3>4. All(book, reports, side) + 0 = broker[side]
      BY <1>1, <2>2, <3>3 DEF Divided
    <3>5. book \in [Pools -> Position] /\ "common" \in Pools
      BY <1>1, NamesAre DEF Typed
    <3>6. Added(reports, side) = 0 /\ Held(book, side) \in Nat
      BY <3>1, <3>5, AddedNone, HeldType
    <3>7. book["common"][side] \in Nat
      BY <3>5 DEF Position
    <3>8. Net(book, reports, side) = Held(book, side)
      BY <3>1, <3>5, NetQuiet
    <3> QED
      BY <3>4, <3>6, <3>7, <3>8 DEF All
  <2> QED
    BY <2>1, <2>2
<1> QED
  BY <1>2, <1>3, <1>4 DEF PoolsInv

LEMMA OnPositionsPools ==
  ASSUME RecoveryAssumption, PoolsInv, OnPositions
  PROVE  PoolsInv'
<1>1. /\ main = "down" /\ main' = "cleared" /\ db' = [db EXCEPT !["common"] = None]
      /\ UNCHANGED <<broker, reports, index, loaded, moving, book, queue, writer, context>>
      /\ UNCHANGED <<before, clean>>
  BY DEF OnPositions, history
<1>2. Typed /\ Phases
  BY DEF PoolsInv
<1>3. Typed'
  <2>1. db' \in [Pools -> Position \cup {None}]
    BY <1>1, <1>2 DEF Typed
  <2>2. main' \notin Sides /\ moving = "no"
    BY <1>1, <1>2, SidesAre DEF Typed, Sides
  <2> QED
    BY <1>1, <1>2, <2>1, <2>2 DEF Typed
<1>4. Phases'
  <2>1. main \notin Sides /\ main' \notin Sides
    BY <1>1 DEF Sides
  <2>2. \A j \in 1 .. Count : Ahead(j)' => Ahead(j)
    BY <1>1, <2>1 DEF Ahead
  <2>3. \A j \in 1 .. Count : Untouched(Strategies[j]) => Untouched(Strategies[j])'
    BY <1>1 DEF Untouched
  <2> QED
    BY <1>1, <1>2, <2>2, <2>3 DEF Phases
<1> QED
  BY <1>1, <1>3, <1>4, FramePools

LEMMA SleptPools ==
  ASSUME RecoveryAssumption, PoolsInv, Slept \/ Initialized
  PROVE  PoolsInv'
<1>1. /\ \/ main = "sleeps" /\ main' = "reads"
         \/ main = "recovered" /\ main' = "runs"
      /\ UNCHANGED <<broker, reports, index, loaded, moving, book, queue, writer, context, db>>
      /\ UNCHANGED <<before, clean>>
  BY DEF Slept, Initialized, history, store
<1>2. Typed /\ Phases
  BY DEF PoolsInv
<1>3. main \notin Sides /\ main' \notin Sides
  BY <1>1 DEF Sides
<1>4. Typed'
  <2>1. moving = "no"
    BY <1>2, <1>3, SidesAre DEF Typed
  <2> QED
    BY <1>1, <1>2, <1>3, <2>1 DEF Typed
<1>5. Phases'
  <2>1. \A j \in 1 .. Count : Ahead(j)' => Ahead(j)
    BY <1>1, <1>3 DEF Ahead
  <2>2. \A j \in 1 .. Count : Untouched(Strategies[j]) => Untouched(Strategies[j])'
    BY <1>1 DEF Untouched
  <2> QED
    BY <1>1, <1>2, <2>1, <2>2 DEF Phases
<1> QED
  BY <1>1, <1>4, <1>5, FramePools

LEMMA GetAllPositionsPools ==
  ASSUME RecoveryAssumption, PoolsInv, GetAllPositions
  PROVE  PoolsInv'
<1>1. /\ main = "reads"
      /\ UNCHANGED <<broker, reports, moving, book, queue, writer, context, db>>
      /\ UNCHANGED <<before, clean>>
      /\ \/ index > Count /\ main' = "recovered" /\ UNCHANGED <<index, loaded>>
         \/ /\ ~ (index > Count) /\ index' = index + 1 /\ UNCHANGED <<main, loaded>>
         \/ /\ ~ (index > Count) /\ db[Strategies[index]] # None
            /\ loaded' = db[Strategies[index]] /\ main' = "long" /\ index' = index
  BY DEF GetAllPositions, history, store, Count
<1>2. Typed /\ Phases
  BY DEF PoolsInv
<1>3. main \notin Sides /\ moving = "no" /\ index \in 1 .. Count + 1 /\ Count \in Nat
  BY <1>1, <1>2, NamesAre DEF Typed, Sides
<1>4. Typed'
  <2>1. loaded' \in Position
    <3>1. CASE index > Count \/ loaded' = loaded
      BY <1>1, <1>2, <3>1 DEF Typed
    <3>2. CASE ~ (index > Count) /\ loaded' # loaded
      <4>1. loaded' = db[Strategies[index]] /\ db[Strategies[index]] # None
        BY <1>1, <3>2
      <4>2. Strategies[index] \in Pools
        BY <1>3, <3>2, NamesAre
      <4> QED
        BY <1>2, <4>1, <4>2 DEF Typed
    <3> QED
      BY <3>1, <3>2
  <2>2. index' \in 1 .. Count + 1 /\ (main' \in Sides => index' <= Count)
    BY <1>1, <1>3 DEF Sides
  <2>3. main' \in {"reads", "recovered", "long"}
    BY <1>1
  <2>4. moving' = "no"
    BY <1>1, <1>3
  <2> QED
    BY <1>1, <1>2, <2>1, <2>2, <2>3, <2>4 DEF Typed
<1>5. Phases'
  <2>1. \A j \in 1 .. Count : Ahead(j)' => Ahead(j)
    BY <1>1, <1>3 DEF Ahead
  <2>2. \A j \in 1 .. Count : Untouched(Strategies[j]) => Untouched(Strategies[j])'
    BY <1>1 DEF Untouched
  <2>3. main' = "recovered" => index' = Count + 1
    BY <1>1, <1>3
  <2>4. main' \in {"reads", "recovered", "long"}
    BY <1>1
  <2> QED
    BY <1>1, <1>2, <2>1, <2>2, <2>3, <2>4 DEF Phases
<1>6. moving \in Sides => loaded' = loaded
  BY <1>3, SidesAre
<1> QED
  BY <1>1, <1>4, <1>5, <1>6, FramePools

LEMMA WriterPools ==
  ASSUME RecoveryAssumption, PoolsInv, Get \/ Set
  PROVE  PoolsInv'
<1>1. UNCHANGED <<broker, reports, main, index, loaded, moving, book, before, clean>>
  BY DEF Get, Set, history
<1>2. Typed /\ Phases
  BY DEF PoolsInv
<1>3. CASE Get
  <2>1. /\ writer = "idle" /\ queue # <<>> /\ main # "down"
        /\ context' = Head(queue) /\ queue' = Tail(queue) /\ writer' = "sets" /\ db' = db
    BY <1>3 DEF Get
  <2>2. queue \in Seq(Update) /\ Len(queue) <= Capacity /\ Len(queue) \in Nat /\ Capacity \in Nat
    BY <1>2, LenProperties DEF Typed, RecoveryAssumption
  <2>3. Tail(queue) \in Seq(Update) /\ Head(queue) \in Update /\ Len(Tail(queue)) = Len(queue) - 1
    BY <2>1, <2>2, NotQueuedTail
  <2>4. \A p : NotQueued(queue, p) => NotQueued(Tail(queue), p) /\ Head(queue).pool # p
    BY <2>1, <2>2, NotQueuedTail
  <2>5. Len(queue') <= Capacity
    BY <2>1, <2>2, <2>3
  <2>6. Typed'
    BY <1>1, <1>2, <2>1, <2>3, <2>5 DEF Typed
  <2>7. \A j \in 1 .. Count : Ahead(j)' => Ahead(j)
    BY <1>1 DEF Ahead
  <2>8. \A j \in 1 .. Count : Untouched(Strategies[j]) => Untouched(Strategies[j])'
    BY <1>1, <2>1, <2>4 DEF Untouched
  <2>9. main \notin {"down", "cleared"}
    BY <1>2, <2>1 DEF Phases
  <2>10. Phases'
    BY <1>1, <1>2, <2>7, <2>8, <2>9 DEF Phases
  <2> QED
    BY <1>1, <2>6, <2>10, FramePools
<1>4. CASE Set
  <2>1. /\ writer = "sets" /\ writer' \in {"idle", "ended"}
        /\ db' = [db EXCEPT ![context.pool] = context.pos] \/ db' = db
        /\ UNCHANGED <<queue, context>>
    BY <1>4 DEF Set
  <2>2. context.pos \in Position /\ context.pool \in Pools
    BY <1>2 DEF Typed, Update
  <2>3. db' \in [Pools -> Position \cup {None}]
    BY <1>2, <2>1, <2>2 DEF Typed
  <2>4. Typed'
    BY <1>1, <1>2, <2>1, <2>3 DEF Typed
  <2>5. \A j \in 1 .. Count : Ahead(j)' => Ahead(j)
    BY <1>1 DEF Ahead
  <2>6. \A j \in 1 .. Count : Untouched(Strategies[j]) => Untouched(Strategies[j])'
    BY <1>1, <2>1 DEF Untouched
  <2>7. main \notin {"down", "cleared"}
    BY <1>2, <2>1 DEF Phases
  <2>8. Phases'
    BY <1>1, <1>2, <2>5, <2>6, <2>7 DEF Phases
  <2> QED
    BY <1>1, <2>4, <2>8, FramePools
<1> QED
  BY <1>3, <1>4

LEMMA SetPositionPools ==
  ASSUME RecoveryAssumption, PoolsInv, SetPosition
  PROVE  PoolsInv'
<1>1. /\ main = "cleared" /\ main' = "sleeps"
      /\ UNCHANGED <<broker, reports, index, loaded, moving, writer, context, db, before, clean>>
      /\ \/ broker = Empty /\ UNCHANGED <<book, queue>>
         \/ book' = [book EXCEPT !["common"] = broker] /\ Callback("common", broker)
  BY DEF SetPosition, store, history
<1>2. Typed /\ Phases
  BY DEF PoolsInv
<1>3. /\ book = [p \in Pools |-> Empty] /\ reports = <<>> /\ moving = "no" /\ index = 1
      /\ main \notin Sides /\ main' \notin Sides /\ broker \in Position
  BY <1>1, <1>2, SidesAre DEF Typed, Phases, Sides
<1>4. /\ book' \in [Pools -> Position] /\ book'["common"] = broker
      /\ \A p \in Pools : p # "common" => book'[p] = Empty
      /\ queue' \in Seq(Update) /\ Len(queue') <= Capacity
      /\ \A p : p # "common" /\ NotQueued(queue, p) => NotQueued(queue', p)
  <2>1. CASE broker = Empty /\ UNCHANGED <<book, queue>>
    BY <1>2, <1>3, <2>1, NamesAre, EmptyIs DEF Typed
  <2>2. CASE book' = [book EXCEPT !["common"] = broker] /\ Callback("common", broker)
    <3>1. "common" \in Pools
      BY NamesAre
    <3>2. /\ queue' \in Seq(Update) /\ Len(queue') <= Capacity
          /\ \A p : p # "common" /\ NotQueued(queue, p) => NotQueued(queue', p)
      BY <1>2, <1>3, <2>2, <3>1, CalledBack
    <3> QED
      BY <1>3, <2>2, <3>1, <3>2, EmptyIs
  <2> QED
    BY <1>1, <2>1, <2>2
<1>5. Typed'
  BY <1>1, <1>2, <1>3, <1>4 DEF Typed
<1>6. Phases'
  <2>1. ASSUME NEW j \in 1 .. Count, Ahead(j)'
        PROVE  Untouched(Strategies[j])'
    <3>1. Ahead(j)
      BY <1>1, <1>3, <2>1 DEF Ahead
    <3>2. Untouched(Strategies[j])
      BY <1>2, <3>1 DEF Phases
    <3>3. Strategies[j] \in Pools /\ Strategies[j] # "common"
      BY NamesAre
    <3> QED
      BY <1>1, <1>4, <3>2, <3>3 DEF Untouched
  <2> QED
    BY <1>1, <1>3, <2>1 DEF Phases
<1>7. Covered'
  <2> SUFFICES ASSUME NEW p \in Names, NEW side \in Sides, NEW k \in 0 .. Len(reports')
               PROVE  book'[p][side] + Part(reports', p, side, k) >= 0
    BY DEF Covered
  <2>1. k = 0
    BY <1>1, <1>3
  <2>2. Part(reports', p, side, k) = 0
    BY <2>1, PartNone
  <2>3. book'[p][side] = 0
    BY <1>4, NamesAre, EmptyIs
  <2> QED
    BY <2>2, <2>3
<1>8. Divided'
  <2> SUFFICES ASSUME NEW side \in Sides
               PROVE  All(book', reports', side) + InHand(side)' = broker'[side]
    BY DEF Divided
  <2>1. Held(book', side) = 0
    BY <1>4, HeldEmpty, NamesAre
  <2>2. Added(reports', side) = 0
    BY <1>1, <1>3, AddedNone
  <2>3. InHand(side)' = 0
    BY <1>1, <1>3, SidesAre DEF InHand
  <2>4. book'["common"][side] = broker[side] /\ broker[side] \in Nat
    BY <1>3, <1>4 DEF Position
  <2> QED
    BY <1>1, <2>1, <2>2, <2>3, <2>4 DEF All
<1>9. NetDivided'
  BY <1>1 DEF NetDivided
<1> QED
  BY <1>5, <1>6, <1>7, <1>8, <1>9 DEF PoolsInv

LEMMA MoveOutPools ==
  ASSUME RecoveryAssumption, PoolsInv, NEW side \in Sides, MoveOut(side)
  PROVE  PoolsInv'
<1>1. /\ main = side /\ moving = "no"
      /\ UNCHANGED <<broker, reports, index, loaded, writer, context, db, before, clean>>
      /\ \/ /\ Enough(side) /\ ModifyPosition("common", side, -loaded[side])
            /\ moving' = side /\ main' = main
         \/ main' = "false" /\ UNCHANGED <<book, queue, moving>>
  BY DEF MoveOut, store, history
<1>2. Typed /\ Phases /\ Covered /\ Divided
  BY DEF PoolsInv
<1>3. /\ loaded[side] \in Nat /\ "common" \in Pools /\ book["common"][side] \in Nat
      /\ book \in [Pools -> Position] /\ index \in 1 .. Count /\ Count \in Nat
      /\ main \notin {"down", "cleared", "sleeps", "recovered", "runs", "false"}
  <2>1. main = "long" \/ main = "short"
    BY <1>1, SidesAre
  <2>2. loaded \in Position /\ book \in [Pools -> Position]
    BY <1>2 DEF Typed
  <2>3. "common" \in Pools /\ Count \in Nat
    BY NamesAre
  <2>4. index \in 1 .. Count + 1 /\ index <= Count
    BY <1>1, <1>2 DEF Typed
  <2>5. loaded[side] \in Nat /\ book["common"][side] \in Nat
    BY <2>2, <2>3 DEF Position
  <2>6. index \in 1 .. Count
    BY <2>3, <2>4
  <2> QED
    BY <2>1, <2>2, <2>3, <2>5, <2>6
<1>4. reports = <<>>
  BY <1>2, <1>3 DEF Phases
<1>5. CASE main' = "false" /\ UNCHANGED <<book, queue, moving>>
  <2>1. Typed'
    BY <1>1, <1>2, <1>5, SidesAre DEF Typed, Sides
  <2>2. Phases'
    BY <1>1, <1>4, <1>5 DEF Phases, Ahead
  <2>3. moving \in Sides => loaded' = loaded
    BY <1>1
  <2> QED
    BY <1>1, <1>5, <2>1, <2>2, <2>3, FramePools
<1>6. CASE /\ Enough(side) /\ ModifyPosition("common", side, -loaded[side])
           /\ moving' = side /\ main' = main
  <2>1. -loaded[side] \in Int /\ book["common"][side] + (-loaded[side]) >= 0
    BY <1>3, <1>6 DEF Enough
  <2>2. /\ book' \in [Pools -> Position]
        /\ book'["common"][side] = book["common"][side] + (-loaded[side])
        /\ \A s \in Sides : s # side => book'["common"][s] = book["common"][s]
        /\ \A p \in Pools : p # "common" => book'[p] = book[p]
        /\ queue' \in Seq(Update) /\ Len(queue') <= Capacity
        /\ \A p : p # "common" /\ NotQueued(queue, p) => NotQueued(queue', p)
    BY <1>2, <1>3, <1>6, <2>1, Modified
  <2>3. Typed'
    BY <1>1, <1>2, <1>6, <2>2 DEF Typed
  <2>4. Phases'
    <3>1. ASSUME NEW j \in 1 .. Count, Ahead(j)'
          PROVE  Untouched(Strategies[j])'
      <4>1. Ahead(j)
        BY <1>1, <1>6, <3>1 DEF Ahead
      <4>2. Untouched(Strategies[j])
        BY <1>2, <4>1 DEF Phases
      <4>3. Strategies[j] \in Pools /\ Strategies[j] # "common"
        BY NamesAre
      <4> QED
        BY <1>1, <2>2, <4>2, <4>3 DEF Untouched
    <3> QED
      BY <1>1, <1>3, <1>4, <1>6, <3>1 DEF Phases
  <2>5. Covered'
    <3>1. \A p \in Names : book'[p] = book[p]
      BY <2>2, NamesAre
    <3> QED
      BY <1>1, <1>2, <3>1 DEF Covered
  <2>6. Divided'
    <3> SUFFICES ASSUME NEW s \in Sides
                 PROVE  All(book', reports', s) + InHand(s)' = broker'[s]
      BY DEF Divided
    <3>1. All(book, reports, s) + InHand(s) = broker[s]
      BY <1>2, <1>3 DEF Divided
    <3>2. Held(book', s) = Held(book, s)
      BY <2>2, NamesAre, HeldSame
    <3>3. Held(book, s) \in Nat
      BY <1>3, HeldType
    <3>4. Added(reports, s) = 0 /\ Added(reports', s) = 0
      BY <1>1, <1>4, AddedNone
    <3>5. InHand(s) = 0
      BY <1>1, SidesAre DEF InHand
    <3>6. InHand(s)' = IF s = side THEN loaded[side] ELSE 0
      BY <1>1, <1>6 DEF InHand
    <3>7. book["common"][s] \in Nat
      BY <1>3 DEF Position
    <3>8. book'["common"][s] = book["common"][s] - (IF s = side THEN loaded[side] ELSE 0)
      BY <1>3, <2>2, <3>7
    <3> QED
      BY <1>1, <1>3, <3>1, <3>2, <3>3, <3>4, <3>5, <3>6, <3>7, <3>8 DEF All
  <2>7. NetDivided'
    BY <1>3, <1>6 DEF NetDivided
  <2> QED
    BY <2>3, <2>4, <2>5, <2>6, <2>7 DEF PoolsInv
<1> QED
  BY <1>1, <1>5, <1>6

LEMMA MoveInPools ==
  ASSUME RecoveryAssumption, PoolsInv, NEW side \in Sides, MoveIn(side)
  PROVE  PoolsInv'
<1> DEFINE pool == Strategies[index]
<1>1. /\ main = side /\ moving = side
      /\ ModifyPosition(pool, side, loaded[side])
      /\ moving' = "no" /\ main' = IF side = "long" THEN "short" ELSE "reads"
      /\ index' = IF side = "long" THEN index ELSE index + 1
      /\ UNCHANGED <<broker, reports, loaded, writer, context, db, before, clean>>
  BY DEF MoveIn, After, store, history
<1>2. Typed /\ Phases /\ Covered /\ Divided
  BY DEF PoolsInv
<1>3. /\ index \in 1 .. Count /\ Count \in Nat /\ pool \in Names /\ pool \in Pools
      /\ pool # "common" /\ "common" \in Pools
      /\ main \notin {"down", "cleared", "sleeps", "recovered", "runs", "false"}
  BY <1>1, <1>2, NamesAre, SidesAre DEF Typed
<1>4. loaded[side] \in Nat /\ book \in [Pools -> Position] /\ book[pool][side] \in Nat
  BY <1>2, <1>3 DEF Typed, Position
<1>5. reports = <<>>
  BY <1>2, <1>3 DEF Phases
<1>6. loaded[side] \in Int /\ book[pool][side] + loaded[side] >= 0
  BY <1>4
<1> HIDE DEF pool
<1>7. /\ book' \in [Pools -> Position]
      /\ book'[pool][side] = book[pool][side] + loaded[side]
      /\ \A s \in Sides : s # side => book'[pool][s] = book[pool][s]
      /\ \A p \in Pools : p # pool => book'[p] = book[p]
      /\ queue' \in Seq(Update) /\ Len(queue') <= Capacity
      /\ \A p : p # pool /\ NotQueued(queue, p) => NotQueued(queue', p)
  BY <1>1, <1>2, <1>3, <1>6, Modified
<1>8. /\ main' \in {"short", "reads"}
      /\ index' \in 1 .. Count + 1 /\ (main' \in Sides => index' <= Count)
      /\ \A j \in 1 .. Count : Ahead(j)' => j > index
  <2>1. CASE side = "long"
    BY <1>1, <1>3, <2>1, SidesAre DEF Ahead
  <2>2. CASE side # "long"
    BY <1>1, <1>3, <2>2 DEF Ahead, Sides
  <2> QED
    BY <2>1, <2>2
<1>9. Typed'
  BY <1>1, <1>2, <1>7, <1>8 DEF Typed
<1>10. Phases'
  <2>1. ASSUME NEW j \in 1 .. Count, Ahead(j)'
        PROVE  Untouched(Strategies[j])'
    <3>1. j > index
      BY <1>8, <2>1
    <3>2. Ahead(j)
      BY <1>3, <3>1 DEF Ahead
    <3>3. Untouched(Strategies[j])
      BY <1>2, <3>2 DEF Phases
    <3>4. Strategies[j] \in Pools /\ Strategies[j] # pool
      BY <1>3, <3>1, NamesAre DEF pool
    <3> QED
      BY <1>1, <1>7, <3>3, <3>4 DEF Untouched
  <2> QED
    BY <1>1, <1>5, <1>8, <2>1 DEF Phases
<1>11. Covered'
  <2> SUFFICES ASSUME NEW p \in Names, NEW s \in Sides, NEW k \in 0 .. Len(reports')
               PROVE  book'[p][s] + Part(reports', p, s, k) >= 0
    BY DEF Covered
  <2>1. k = 0
    BY <1>1, <1>5
  <2>2. Part(reports', p, s, k) = 0
    BY <2>1, PartNone
  <2>3. book'[p][s] \in Nat
    BY <1>7, NamesAre DEF Position
  <2> QED
    BY <2>2, <2>3
<1>12. Divided'
  <2> SUFFICES ASSUME NEW s \in Sides
               PROVE  All(book', reports', s) + InHand(s)' = broker'[s]
    BY DEF Divided
  <2>1. All(book, reports, s) + InHand(s) = broker[s]
    BY <1>2, <1>3 DEF Divided
  <2>2. Held(book, s) \in Nat
    BY <1>4, HeldType
  <2> DEFINE d == IF s = side THEN loaded[side] ELSE 0
  <2>3. d \in Int /\ book'[pool][s] = book[pool][s] + d
    <3>1. book[pool][s] \in Nat
      BY <1>3, <1>4 DEF Position
    <3> QED
      BY <1>4, <1>7, <3>1
  <2>4. InHand(s) = d /\ InHand(s)' = 0
    BY <1>1, SidesAre DEF InHand
  <2> HIDE DEF d
  <2>5. Held(book', s) = Held(book, s) + d
    BY <1>3, <1>4, <1>7, <2>3, HeldChanged
  <2>6. book'["common"][s] = book["common"][s] /\ book["common"][s] \in Nat
    BY <1>3, <1>4, <1>7 DEF Position
  <2>7. Added(reports, s) = 0 /\ Added(reports', s) = 0
    BY <1>1, <1>5, AddedNone
  <2> QED
    BY <1>1, <2>1, <2>2, <2>3, <2>4, <2>5, <2>6, <2>7 DEF All
<1>13. NetDivided'
  BY <1>8 DEF NetDivided
<1> QED
  BY <1>9, <1>10, <1>11, <1>12, <1>13 DEF PoolsInv

LEMMA OnOrderTradedPools ==
  ASSUME RecoveryAssumption, PoolsInv, OnOrderTraded
  PROVE  PoolsInv'
<1> DEFINE r == Head(reports)
<1>1. /\ main = "runs" /\ reports # <<>>
      /\ ModifyPosition(r.pool, r.side, r.changed)
      /\ reports' = Tail(reports)
      /\ UNCHANGED <<broker, main, index, loaded, moving, writer, context, db, before, clean>>
  BY DEF OnOrderTraded, store, history
<1>2. Typed /\ Phases /\ Covered /\ Divided /\ NetDivided
  BY DEF PoolsInv
<1>3. reports \in Seq(Report) /\ book \in [Pools -> Position]
  BY <1>2 DEF Typed
<1>4. Len(Tail(reports)) \in 0 .. Len(Tail(reports)) /\ 0 \in 0 .. Len(Tail(reports))
  <2>1. Tail(reports) \in Seq(Report)
    BY <1>1, <1>3, HeadTailProperties
  <2> QED
    BY <2>1, LenProperties
<1>5. /\ Tail(reports) \in Seq(Report) /\ r \in Report /\ 1 \in 0 .. Len(reports)
      /\ \A p, s : Part(reports, p, s, 1) = Of(r, p, s)
      /\ \A p, s : \A k \in 0 .. Len(Tail(reports)) :
           /\ k + 1 \in 0 .. Len(reports)
           /\ Part(reports, p, s, k + 1) = Of(r, p, s) + Part(Tail(reports), p, s, k)
  <2>1. ASSUME NEW p, NEW s, NEW k \in 0 .. Len(Tail(reports))
        PROVE  /\ Tail(reports) \in Seq(Report) /\ Head(reports) \in Report
               /\ k + 1 \in 0 .. Len(reports) /\ 1 \in 0 .. Len(reports)
               /\ Part(reports, p, s, k + 1)
                    = Of(Head(reports), p, s) + Part(Tail(reports), p, s, k)
               /\ Part(reports, p, s, 1) = Of(Head(reports), p, s)
    BY <1>1, <1>3, PartTail
  <2>2. PICK z \in 0 .. Len(Tail(reports)) : z = 0
    BY <1>4
  <2>3. /\ Tail(reports) \in Seq(Report) /\ r \in Report /\ 1 \in 0 .. Len(reports)
        /\ \A p, s : Part(reports, p, s, 1) = Of(r, p, s)
    BY <2>1, <2>2
  <2>4. \A p, s : \A k \in 0 .. Len(Tail(reports)) :
          /\ k + 1 \in 0 .. Len(reports)
          /\ Part(reports, p, s, k + 1) = Of(r, p, s) + Part(Tail(reports), p, s, k)
    BY <2>1
  <2> HIDE DEF r
  <2> QED
    BY <2>3, <2>4
<1> HIDE DEF r
<1>6. r.pool \in Names /\ r.pool \in Pools /\ r.side \in Sides /\ r.changed \in Int
      /\ r.pool # "common" /\ "common" \in Pools
  BY <1>5, OfIs, NamesAre
<1>7. book[r.pool][r.side] + r.changed >= 0
  <2>1. Of(r, r.pool, r.side) = r.changed
    BY DEF Of
  <2>2. book[r.pool][r.side] + Part(reports, r.pool, r.side, 1) >= 0
    BY <1>2, <1>5, <1>6 DEF Covered
  <2> QED
    BY <1>5, <2>1, <2>2
<1>8. /\ book' \in [Pools -> Position]
      /\ book'[r.pool][r.side] = book[r.pool][r.side] + r.changed
      /\ \A s \in Sides : s # r.side => book'[r.pool][s] = book[r.pool][s]
      /\ \A p \in Pools : p # r.pool => book'[p] = book[p]
      /\ queue' \in Seq(Update) /\ Len(queue') <= Capacity
  <2>1. PICK p \in Pools, s \in Sides, d \in Int : p = r.pool /\ s = r.side /\ d = r.changed
    BY <1>6
  <2>2. ModifyPosition(p, s, d) /\ book[p][s] + d >= 0
    BY <1>1, <1>7, <2>1
  <2>3. /\ book' \in [Pools -> Position]
        /\ book'[p][s] = book[p][s] + d
        /\ \A x \in Sides : x # s => book'[p][x] = book[p][x]
        /\ \A x \in Pools : x # p => book'[x] = book[x]
        /\ queue' \in Seq(Update) /\ Len(queue') <= Capacity
    BY <1>2, <2>2, Modified
  <2> QED
    BY <2>1, <2>3
<1>9. \A p \in Names, s \in Sides : book'[p][s] = book[p][s] + Of(r, p, s)
  <2> SUFFICES ASSUME NEW p \in Names, NEW s \in Sides
               PROVE  book'[p][s] = book[p][s] + Of(r, p, s)
    OBVIOUS
  <2>1. p \in Pools /\ book[p][s] \in Nat
    BY <1>3, NamesAre DEF Position
  <2> QED
    BY <1>8, <2>1 DEF Of
<1>10. Typed'
  BY <1>1, <1>2, <1>5, <1>8 DEF Typed
<1>11. Phases'
  <2>1. index = Count + 1 /\ Count \in Nat
    BY <1>1, <1>2, NamesAre DEF Phases
  <2>2. \A j \in 1 .. Count : ~ Ahead(j)'
    BY <1>1, <2>1 DEF Ahead
  <2> QED
    BY <1>1, <2>1, <2>2 DEF Phases
<1>12. Covered'
  <2> SUFFICES ASSUME NEW p \in Names, NEW s \in Sides, NEW k \in 0 .. Len(reports')
               PROVE  book'[p][s] + Part(reports', p, s, k) >= 0
    BY DEF Covered
  <2>1. k \in 0 .. Len(Tail(reports))
    BY <1>1
  <2>2. book[p][s] + Part(reports, p, s, k + 1) >= 0
    BY <1>2, <1>5, <2>1 DEF Covered
  <2>3. Part(reports, p, s, k + 1) = Of(r, p, s) + Part(Tail(reports), p, s, k)
    BY <1>5, <2>1
  <2>4. book'[p][s] = book[p][s] + Of(r, p, s) /\ book[p][s] \in Nat
    BY <1>3, <1>9, NamesAre DEF Position
  <2>5. Of(r, p, s) \in Int /\ Part(Tail(reports), p, s, k) \in Int
    BY <1>5, <2>1, OfIs, PartTerms
  <2> QED
    BY <1>1, <2>2, <2>3, <2>4, <2>5
<1>13. \A s \in Sides : book'["common"][s] = book["common"][s] /\ book["common"][s] \in Nat
  BY <1>3, <1>6, <1>8 DEF Position
<1>14. Divided'
  <2> SUFFICES ASSUME NEW s \in Sides
               PROVE  All(book', reports', s) + InHand(s)' = broker'[s]
    BY DEF Divided
  <2>1. All(book, reports, s) + InHand(s) = broker[s]
    BY <1>1, <1>2 DEF Divided
  <2>2. InHand(s)' = InHand(s)
    BY <1>1 DEF InHand
  <2>3. Adds(r, s) \in Int /\ book'[r.pool][s] = book[r.pool][s] + Adds(r, s)
    <3>1. book[r.pool][s] \in Nat
      BY <1>3, <1>6 DEF Position
    <3> QED
      BY <1>6, <1>8, <3>1 DEF Adds
  <2>4. Held(book', s) = Held(book, s) + Adds(r, s)
    BY <1>3, <1>6, <1>8, <2>3, HeldChanged
  <2>5. Added(reports, s) = Adds(r, s) + Added(Tail(reports), s)
    BY <1>1, <1>3, AddedTail DEF r
  <2>6. Held(book, s) \in Nat /\ Added(Tail(reports), s) \in Int
    BY <1>3, <1>5, HeldType, AddedTerms
  <2>7. All(book', reports', s) = All(book, reports, s)
    BY <1>1, <1>13, <2>3, <2>4, <2>5, <2>6 DEF All
  <2> QED
    BY <1>1, <2>1, <2>2, <2>7
<1>15. NetDivided'
  <2> SUFFICES ASSUME NEW s \in Sides
               PROVE  book'["common"][s] + Net(book', reports', s) = broker'[s]
    BY DEF NetDivided
  <2>1. Net(book', Tail(reports), s) = Net(book, reports, s)
    BY <1>1, <1>3, <1>8, <1>9, NetTail DEF r
  <2>2. book["common"][s] + Net(book, reports, s) = broker[s]
    BY <1>1, <1>2 DEF NetDivided
  <2> QED
    BY <1>1, <1>13, <2>1, <2>2
<1> QED
  BY <1>10, <1>11, <1>12, <1>14, <1>15 DEF PoolsInv

LEMMA TradedPools ==
  ASSUME RecoveryAssumption, PoolsInv, NEW pool \in Names, NEW side \in Sides,
         NEW changed \in {-1, 1}, Traded(pool, side, changed)
  PROVE  PoolsInv'
<1> DEFINE r == [pool |-> pool, side |-> side, changed |-> changed]
<1>1. /\ main = "runs"
      /\ changed < 0 => book[pool][side] + Unreported(pool, side) > 0
      /\ broker' = [broker EXCEPT ![side] = @ + changed]
      /\ reports' = Append(reports, r)
      /\ UNCHANGED <<main, index, loaded, moving, book, queue, writer, context, db, before, clean>>
  BY DEF Traded, store
<1>2. Typed /\ Phases /\ Covered /\ Divided /\ NetDivided
  BY DEF PoolsInv
<1>3. /\ reports \in Seq(Report) /\ book \in [Pools -> Position] /\ broker \in Position
      /\ Len(reports) \in 0 .. Len(reports) /\ Len(reports) \in Nat
  BY <1>2, LenProperties DEF Typed
<1>4. r \in Report /\ r.pool = pool /\ r.side = side /\ r.changed = changed
  BY DEF Report
<1> HIDE DEF r
<1>5. Append(reports, r) \in Seq(Report) /\ Len(Append(reports, r)) = Len(reports) + 1
  BY <1>3, <1>4, AppendProperties
<1>6. Unreported(pool, side) = Part(reports, pool, side, Len(reports))
  BY <1>3, UnreportedIs
<1>7. \A p \in Names, s \in Sides : book[p][s] + Part(reports, p, s, Len(reports)) >= 0
  BY <1>2, <1>3 DEF Covered
<1>8. "common" \in Pools /\ \A s \in Sides : book["common"][s] \in Nat
  BY <1>3, NamesAre DEF Position
<1>9. broker[side] \in Nat /\ broker[side] + changed >= 0
  <2>1. broker[side] \in Nat
    BY <1>3 DEF Position
  <2>2. CASE changed = -1
    <3>1. book["common"][side] + Net(book, reports, side) = broker[side]
      BY <1>1, <1>2 DEF NetDivided
    <3>2. Net(book, reports, side) >= book[pool][side] + Part(reports, pool, side, Len(reports))
      BY <1>3, <1>7, NetCovers
    <3>3. book[pool][side] + Part(reports, pool, side, Len(reports)) > 0
      BY <1>1, <1>6, <2>2
    <3>4. Net(book, reports, side) \in Int
      BY <1>3, NetTerms
    <3>5. book[pool][side] + Part(reports, pool, side, Len(reports)) \in Int
      <4>1. book[pool][side] \in Nat
        BY <1>3, NamesAre DEF Position
      <4>2. Part(reports, pool, side, Len(reports)) \in Int
        BY <1>3, PartTerms
      <4> QED
        BY <4>1, <4>2
    <3>6. Net(book, reports, side) >= 1
      BY <3>2, <3>3, <3>4, <3>5
    <3> QED
      BY <1>8, <2>1, <2>2, <3>1, <3>4, <3>6
  <2> QED
    BY <2>1, <2>2
<1>10. broker' \in Position /\ \A s \in Sides : broker'[s] = broker[s] + Adds(r, s)
  <2>1. broker[side] + changed \in Nat
    BY <1>9
  <2>2. broker' \in Position
    BY <1>1, <1>3, <2>1 DEF Position
  <2>3. \A s \in Sides : broker[s] \in Nat
    BY <1>3 DEF Position
  <2> QED
    BY <1>1, <1>3, <1>4, <2>2, <2>3 DEF Adds, Position
<1>11. Typed'
  BY <1>1, <1>2, <1>5, <1>10 DEF Typed
<1>12. Phases'
  <2>1. \A j \in 1 .. Count : Ahead(j)' => Ahead(j)
    BY <1>1 DEF Ahead
  <2>2. \A j \in 1 .. Count : Untouched(Strategies[j]) => Untouched(Strategies[j])'
    BY <1>1 DEF Untouched
  <2> QED
    BY <1>1, <1>2, <2>1, <2>2 DEF Phases
<1>13. Covered'
  <2> SUFFICES ASSUME NEW p \in Names, NEW s \in Sides, NEW k \in 0 .. Len(reports')
               PROVE  book'[p][s] + Part(reports', p, s, k) >= 0
    BY DEF Covered
  <2>1. CASE k \in 0 .. Len(reports)
    <3>1. Part(Append(reports, r), p, s, k) = Part(reports, p, s, k)
      BY <1>3, <1>4, <2>1, PartBefore
    <3>2. Part(reports', p, s, k) = Part(reports, p, s, k)
      BY <1>1, <3>1
    <3>3. book[p][s] + Part(reports, p, s, k) >= 0
      BY <1>2, <2>1 DEF Covered
    <3> QED
      BY <1>1, <3>2, <3>3
  <2>2. CASE k = Len(reports) + 1
    <3>1. Part(reports', p, s, k) = Part(reports, p, s, Len(reports)) + Of(r, p, s)
      BY <1>1, <1>3, <1>4, <2>2, PartAppend
    <3>2. book[p][s] \in Nat /\ Part(reports, p, s, Len(reports)) \in Int
      BY <1>3, NamesAre, PartTerms DEF Position
    <3>3. Of(r, p, s) = IF p = pool /\ s = side THEN changed ELSE 0
      BY <1>4 DEF Of
    <3>4. book[p][s] + Part(reports, p, s, Len(reports)) >= 0
      BY <1>7
    <3>5. p = pool /\ s = side /\ changed < 0 =>
            book[p][s] + Part(reports, p, s, Len(reports)) > 0
      BY <1>1, <1>6
    <3>6. book[p][s] + (Part(reports, p, s, Len(reports)) + Of(r, p, s)) >= 0
      <4>1. PICK n \in Int : n = book[p][s] + Part(reports, p, s, Len(reports))
        BY <3>2
      <4>2. n + Of(r, p, s) >= 0
        BY <3>3, <3>4, <3>5, <4>1
      <4>3. Of(r, p, s) \in Int
        BY <3>3
      <4> QED
        BY <3>2, <4>1, <4>2, <4>3
    <3> QED
      BY <1>1, <3>1, <3>6
  <2> QED
    BY <1>1, <1>3, <1>5, <2>1, <2>2
<1>14. \A s \in Sides : Adds(r, s) \in Int /\ broker[s] \in Nat
  BY <1>3, <1>4 DEF Adds, Position
<1>15. Divided'
  <2> SUFFICES ASSUME NEW s \in Sides
               PROVE  All(book', reports', s) + InHand(s)' = broker'[s]
    BY DEF Divided
  <2>1. All(book, reports, s) + InHand(s) = broker[s]
    BY <1>1, <1>2 DEF Divided
  <2>2. InHand(s)' = 0 /\ InHand(s) = 0
    <3>1. moving = "no"
      BY <1>1, <1>2, SidesAre DEF Typed, Sides
    <3> QED
      BY <1>1, <3>1, SidesAre DEF InHand
  <2>3. Added(reports', s) = Added(reports, s) + Adds(r, s)
    BY <1>1, <1>3, <1>4, AddedAppend
  <2>4. Held(book, s) \in Nat /\ Added(reports, s) \in Int
    BY <1>3, HeldType, AddedTerms
  <2>5. All(book', reports', s) = All(book, reports, s) + Adds(r, s) /\ All(book, reports, s) \in Int
    BY <1>1, <1>8, <1>14, <2>3, <2>4 DEF All
  <2> QED
    BY <1>10, <1>14, <2>1, <2>2, <2>5
<1>16. NetDivided'
  <2> SUFFICES ASSUME NEW s \in Sides
               PROVE  book'["common"][s] + Net(book', reports', s) = broker'[s]
    BY DEF NetDivided
  <2>1. Net(book, reports', s) = Net(book, reports, s) + Adds(r, s)
    BY <1>1, <1>3, <1>4, NetAppend
  <2>2. book["common"][s] + Net(book, reports, s) = broker[s]
    BY <1>1, <1>2 DEF NetDivided
  <2>3. Net(book, reports, s) \in Int
    BY <1>3, NetTerms
  <2>4. book["common"][s] + Net(book, reports', s) = broker[s] + Adds(r, s)
    BY <1>8, <1>14, <2>1, <2>2, <2>3
  <2> QED
    BY <1>1, <1>10, <2>4
<1> QED
  BY <1>11, <1>12, <1>13, <1>15, <1>16 DEF PoolsInv

LEMMA CrashPools ==
  ASSUME RecoveryAssumption, PoolsInv, Crash
  PROVE  PoolsInv'
<1>1. /\ main' = "down" /\ index' = 1 /\ loaded' = Empty /\ moving' = "no"
      /\ book' = [p \in Pools |-> Empty] /\ queue' = <<>> /\ reports' = <<>>
      /\ writer' = "idle" /\ context' = [pool |-> "common", pos |-> Empty]
      /\ \/ before' = [p \in Names |-> book[p]] /\ clean' = Quiet
         \/ before' = before /\ clean' = FALSE
      /\ UNCHANGED <<broker, db>>
  BY DEF Crash
<1>2. Typed
  BY DEF PoolsInv
<1>3. Typed'
  <2>1. Empty \in Position /\ "common" \in Pools
    BY EmptyIs, NamesAre
  <2>2. reports' \in Seq(Report) /\ queue' \in Seq(Update) /\ Len(queue') = 0
    BY <1>1, EmptySeq
  <2>3. context' \in Update
    BY <1>1, <2>1 DEF Update
  <2>4. index' \in 1 .. Count + 1
    BY <1>1, NamesAre
  <2>5. main' \notin Sides
    BY <1>1 DEF Sides
  <2>6. before' \in [Names -> Position] /\ clean' \in BOOLEAN
    BY <1>1, <1>2, NamesAre DEF Typed, Quiet
  <2>7. Capacity \in Nat
    BY DEF RecoveryAssumption
  <2> QED
    BY <1>1, <1>2, <2>1, <2>2, <2>3, <2>4, <2>5, <2>6, <2>7 DEF Typed
<1>4. Phases'
  <2>1. \A j \in 1 .. Count : Untouched(Strategies[j])'
    BY <1>1, NamesAre DEF Untouched, NotQueued
  <2> QED
    BY <1>1, <2>1 DEF Phases
<1>5. Covered'
  <2> SUFFICES ASSUME NEW p \in Names, NEW side \in Sides, NEW k \in 0 .. Len(reports')
               PROVE  book'[p][side] + Part(reports', p, side, k) >= 0
    BY DEF Covered
  <2>1. k = 0
    BY <1>1
  <2>2. Part(reports', p, side, k) = 0
    BY <2>1, PartNone
  <2>3. book'[p][side] = 0
    BY <1>1, NamesAre, EmptyIs
  <2> QED
    BY <2>2, <2>3
<1>6. Divided' /\ NetDivided'
  BY <1>1 DEF Divided, NetDivided
<1> QED
  BY <1>3, <1>4, <1>5, <1>6 DEF PoolsInv

LEMMA NextPools == RecoveryAssumption /\ PoolsInv /\ [Next]_vars => PoolsInv'
<1> SUFFICES ASSUME RecoveryAssumption, PoolsInv, [Next]_vars
             PROVE  PoolsInv'
  OBVIOUS
<1>1. CASE Main
  BY <1>1, OnPositionsPools, SetPositionPools, SleptPools, GetAllPositionsPools,
     OnOrderTradedPools, MoveOutPools, MoveInPools DEF Main
<1>2. CASE Writer
  BY <1>2, WriterPools DEF Writer
<1>3. CASE Exchange
  BY <1>3, TradedPools DEF Exchange
<1>4. CASE Crash
  BY <1>4, CrashPools
<1>5. CASE UNCHANGED vars
  <2>1. UNCHANGED <<broker, reports, main, index, loaded, moving, book, queue,
                    writer, context, db, before, clean>>
    BY <1>5 DEF vars, store, history
  <2> QED
    BY <2>1 DEF PoolsInv, Typed, Phases, Ahead, Untouched, Covered, Divided, InHand, NetDivided
<1> QED
  BY <1>1, <1>2, <1>3, <1>4, <1>5 DEF Next

-----------------------------------------------------------------------------
(* Every action leaves the types and keeps no pool below zero, and once    *)
(* positions are recovered the pools, with the trades reported but not yet *)
(* in them, add up to the broker's holdings: no holding is in two pools    *)
(* and none in no pool, whatever was written to the store or lost with it  *)
(* (OMS::OnPositions, RecoveryStrategyPositions, MovePosition).            *)
THEOREM PoolsDivideBrokerCorrect ==
  ASSUME RecoveryAssumption
  PROVE  Spec => [](TypeOK /\ PoolsDivideBroker)
<1>1. PoolsInv => TypeOK /\ PoolsDivideBroker
  <2> SUFFICES ASSUME PoolsInv PROVE TypeOK /\ PoolsDivideBroker
    OBVIOUS
  <2>1. Typed /\ Divided
    BY DEF PoolsInv
  <2>2. \A p \in Pools, side \in Sides : book[p][side] >= 0
    BY <2>1 DEF Typed, Position
  <2>3. TypeOK
    BY <2>1, <2>2 DEF Typed, TypeOK
  <2>4. ASSUME main \in {"recovered", "runs"}, NEW side \in Sides
        PROVE  Total(side) = broker[side]
    <3>1. moving = "no"
      BY <2>1, <2>4, SidesAre DEF Typed, Sides
    <3>2. InHand(side) = 0
      BY <3>1, SidesAre DEF InHand
    <3>3. reports \in Seq(Report) /\ book \in [Pools -> Position] /\ "common" \in Pools
      BY <2>1, NamesAre DEF Typed
    <3>4. All(book, reports, side) \in Int
      <4>1. Held(book, side) \in Nat /\ Added(reports, side) \in Int
        BY <3>3, HeldType, AddedTerms
      <4>2. book["common"][side] \in Nat
        BY <3>3 DEF Position
      <4> QED
        BY <4>1, <4>2 DEF All
    <3>5. All(book, reports, side) + 0 = broker[side]
      BY <2>1, <2>4, <3>2 DEF Divided
    <3>6. Total(side) = All(book, reports, side)
      BY <3>3, TotalIs
    <3> QED
      BY <3>4, <3>5, <3>6
  <2> QED
    BY <2>3, <2>4 DEF PoolsDivideBroker
<1> QED
  BY <1>1, InitPools, NextPools, PTL DEF Spec

-----------------------------------------------------------------------------
(* The newest position of a pool on its way to the store                   *)

LEMMA MaxIs ==
  ASSUME NEW S \in SUBSET Int, NEW m \in S, \A y \in S : m >= y
  PROVE  Max(S) = m
<1>1. \A x \in S : (\A y \in S : x >= y) => x = m
  OBVIOUS
<1> QED
  BY <1>1 DEF Max

LEMMA MaxExists ==
  ASSUME NEW n \in Nat, NEW S \in SUBSET (1 .. n), S # {}
  PROVE  \E m \in S : \A y \in S : m >= y
<1> DEFINE T == {k \in Nat : \A R \in SUBSET (1 .. k) :
                               R # {} => \E m \in R : \A y \in R : m >= y}
<1>1. 0 \in T
  <2>1. 1 .. 0 = {}
    OBVIOUS
  <2> QED
    BY <2>1
<1>2. ASSUME NEW k \in Nat, k \in T PROVE k + 1 \in T
  <2> SUFFICES ASSUME NEW R \in SUBSET (1 .. k + 1), R # {}
               PROVE  \E m \in R : \A y \in R : m >= y
    OBVIOUS
  <2>1. CASE k + 1 \in R
    BY <2>1
  <2>2. CASE k + 1 \notin R
    <3>1. R \in SUBSET (1 .. k)
      BY <2>2
    <3> QED
      BY <1>2, <3>1
  <2> QED
    BY <2>1, <2>2
<1>3. T = Nat
  <2> HIDE DEF T
  <2>1. T \in SUBSET Nat
    BY DEF T
  <2> QED
    BY <1>1, <1>2, <2>1, NatSetInduction
<1> QED
  BY <1>3

LEMMA LatestIs ==
  ASSUME NEW q \in Seq(Update), NEW p, NEW m \in 1 .. Len(q), q[m].pool = p,
         \A i \in 1 .. Len(q) : q[i].pool = p => m >= i
  PROVE  ~ NotQueued(q, p) /\ LatestOf(q, p) = q[m].pos
<1> DEFINE S == {i \in DOMAIN q : q[i].pool = p}
<1>1. DOMAIN q = 1 .. Len(q) /\ Len(q) \in Nat
  BY LenProperties
<1>2. S \in SUBSET Int /\ m \in S /\ \A y \in S : m >= y
  BY <1>1
<1>3. ~ NotQueued(q, p)
  BY <1>2 DEF NotQueued
<1> HIDE DEF S
<1>4. Max(S) = m
  BY <1>2, MaxIs
<1> QED
  BY <1>3, <1>4 DEF LatestOf, S

LEMMA LatestExists ==
  ASSUME NEW q \in Seq(Update), NEW p, ~ NotQueued(q, p)
  PROVE  \E m \in 1 .. Len(q) :
           /\ q[m].pool = p /\ \A i \in 1 .. Len(q) : q[i].pool = p => m >= i
           /\ LatestOf(q, p) = q[m].pos
<1> DEFINE S == {i \in 1 .. Len(q) : q[i].pool = p}
<1>1. DOMAIN q = 1 .. Len(q) /\ Len(q) \in Nat
  BY LenProperties
<1>2. S # {} /\ S \in SUBSET (1 .. Len(q))
  BY <1>1 DEF NotQueued
<1>3. \E m \in S : \A y \in S : m >= y
  <2> HIDE DEF S
  <2> QED
    BY <1>1, <1>2, MaxExists
<1>4. PICK m \in S : \A y \in S : m >= y
  BY <1>3
<1>5. m \in 1 .. Len(q) /\ q[m].pool = p /\ \A i \in 1 .. Len(q) : q[i].pool = p => m >= i
  BY <1>4
<1>6. LatestOf(q, p) = q[m].pos
  BY <1>5, LatestIs
<1> QED
  BY <1>5, <1>6

LEMMA NewestAppend ==
  ASSUME NEW q \in Seq(Update), NEW u \in Update, NEW w, NEW c, NEW d, NEW p
  PROVE  NewestIn(Append(q, u), w, c, d, p)
           = IF p = u.pool THEN u.pos ELSE NewestIn(q, w, c, d, p)
<1> DEFINE s == Append(q, u)
<1>1. /\ s \in Seq(Update) /\ Len(s) = Len(q) + 1 /\ Len(q) \in Nat
      /\ \A i \in 1 .. Len(q) : s[i] = q[i]
      /\ s[Len(q) + 1] = u
  BY AppendProperties, LenProperties
<1>2. \A i \in 1 .. Len(s) : i \in 1 .. Len(q) \/ i = Len(q) + 1
  BY <1>1
<1>3. u.pool # p /\ NotQueued(q, p) => NotQueued(s, p)
  BY NotQueuedAppend
<1> HIDE DEF s
<1>4. CASE p = u.pool
  <2>1. Len(s) \in 1 .. Len(s) /\ s[Len(s)].pool = p /\ \A i \in 1 .. Len(s) : Len(s) >= i
    BY <1>1, <1>4
  <2>2. ~ NotQueued(s, p) /\ LatestOf(s, p) = s[Len(s)].pos
    BY <1>1, <2>1, LatestIs
  <2> QED
    BY <1>1, <1>4, <2>2 DEF NewestIn, s
<1>5. CASE p # u.pool /\ NotQueued(q, p)
  BY <1>3, <1>5 DEF NewestIn, s
<1>6. CASE p # u.pool /\ ~ NotQueued(q, p)
  <2>1. PICK m \in 1 .. Len(q) :
          /\ q[m].pool = p /\ \A i \in 1 .. Len(q) : q[i].pool = p => m >= i
          /\ LatestOf(q, p) = q[m].pos
    BY <1>6, LatestExists
  <2>2. m \in 1 .. Len(s) /\ s[m] = q[m]
    BY <1>1
  <2>3. \A i \in 1 .. Len(s) : s[i].pool = p => m >= i
    BY <1>1, <1>2, <1>6, <2>1
  <2>4. ~ NotQueued(s, p) /\ LatestOf(s, p) = s[m].pos
    BY <1>1, <2>1, <2>2, <2>3, LatestIs
  <2> QED
    BY <1>6, <2>1, <2>2, <2>4 DEF NewestIn, s
<1> QED
  BY <1>4, <1>5, <1>6

LEMMA NewestGet ==
  ASSUME NEW q \in Seq(Update), q # <<>>, NEW c, NEW d, NEW p
  PROVE  NewestIn(Tail(q), "sets", Head(q), d, p) = NewestIn(q, "idle", c, d, p)
<1> DEFINE t == Tail(q)
<1>1. /\ t \in Seq(Update) /\ Head(q) = q[1]
      /\ Len(t) = Len(q) - 1 /\ Len(q) \in Nat /\ Len(q) >= 1 /\ Len(t) \in Nat
      /\ \A i \in 1 .. Len(q) - 1 : t[i] = q[i + 1]
      /\ DOMAIN q = 1 .. Len(q) /\ DOMAIN t = 1 .. Len(t)
  BY HeadTailProperties, LenProperties, EmptySeq
<1> HIDE DEF t
<1>2. \A i \in 1 .. Len(q) : i = 1 \/ (i - 1 \in 1 .. Len(t) /\ q[i] = t[i - 1])
  BY <1>1
<1>3. CASE NotQueued(t, p) /\ q[1].pool # p
  <2>1. NotQueued(q, p)
    BY <1>1, <1>2, <1>3 DEF NotQueued
  <2> QED
    BY <1>1, <1>3, <2>1 DEF NewestIn, t
<1>4. CASE NotQueued(t, p) /\ q[1].pool = p
  <2>1. 1 \in 1 .. Len(q)
    BY <1>1
  <2>2. \A i \in 1 .. Len(q) : q[i].pool = p => 1 >= i
    BY <1>1, <1>2, <1>4 DEF NotQueued
  <2>3. ~ NotQueued(q, p) /\ LatestOf(q, p) = q[1].pos
    BY <1>4, <2>1, <2>2, LatestIs
  <2> QED
    BY <1>1, <1>4, <2>3 DEF NewestIn, t
<1>5. CASE ~ NotQueued(t, p)
  <2>1. PICK m \in 1 .. Len(t) :
          /\ t[m].pool = p /\ \A i \in 1 .. Len(t) : t[i].pool = p => m >= i
          /\ LatestOf(t, p) = t[m].pos
    <3>1. t \in Seq(Update)
      BY <1>1
    <3> QED
      BY <1>5, <3>1, LatestExists
  <2>2. m + 1 \in 1 .. Len(q) /\ q[m + 1] = t[m]
    BY <1>1
  <2>3. ASSUME NEW i \in 1 .. Len(q), q[i].pool = p
        PROVE  m + 1 >= i
    <3>1. CASE i = 1
      BY <3>1
    <3>2. CASE i # 1
      <4>1. i - 1 \in 1 .. Len(t) /\ t[i - 1].pool = p
        BY <1>2, <2>3, <3>2
      <4>2. m >= i - 1
        BY <2>1, <4>1
      <4> QED
        BY <4>2
    <3> QED
      BY <3>1, <3>2
  <2>4. ~ NotQueued(q, p) /\ LatestOf(q, p) = q[m + 1].pos
    BY <2>1, <2>2, <2>3, LatestIs
  <2> QED
    BY <1>5, <2>1, <2>2, <2>4 DEF NewestIn, t
<1> QED
  BY <1>3, <1>4, <1>5

LEMMA NewestSet ==
  ASSUME NEW q, NEW c \in Update, NEW d \in [Pools -> Position \cup {None}], NEW p \in Pools
  PROVE  NewestIn(q, "idle", c, [d EXCEPT ![c.pool] = c.pos], p) = NewestIn(q, "sets", c, d, p)
<1>1. c.pool \in Pools
  BY DEF Update
<1>2. [d EXCEPT ![c.pool] = c.pos][p] = IF c.pool = p THEN c.pos ELSE d[p]
  BY <1>1
<1> QED
  BY <1>2 DEF NewestIn

LEMMA NewestIs ==
  ASSUME NEW p
  PROVE  Newest(p) = NewestIn(queue, writer, context, db, p)
<1>1. {i \in DOMAIN queue : queue[i].pool = p} # {} <=> ~ NotQueued(queue, p)
  BY DEF NotQueued
<1> QED
  BY <1>1 DEF Newest, NewestIn, LatestOf

(* What an update of the book does to the newest positions.                *)
LEMMA NowModified ==
  ASSUME RecoveryAssumption, Typed, NEW pool \in Pools, NEW side \in Sides, NEW changed \in Int,
         ModifyPosition(pool, side, changed), book[pool][side] + changed >= 0,
         UNCHANGED <<writer, context, db>>
  PROVE  /\ \A p \in Pools : p # pool => Now(p)' = Now(p) /\ book'[p] = book[p]
         /\ changed # 0 => Now(pool)' = book'[pool]
         /\ changed = 0 => Now(pool)' = Now(pool) /\ book' = book
         /\ Follows(pool) => Follows(pool)'
<1>1. /\ book' \in [Pools -> Position]
      /\ \A p \in Pools : p # pool => book'[p] = book[p]
      /\ changed = 0 => queue' = queue /\ book' = book
      /\ changed # 0 => queue' = Append(queue, [pool |-> pool, pos |-> book'[pool]])
  BY Modified
<1>2. queue \in Seq(Update)
  BY DEF Typed
<1>3. CASE changed = 0
  <2>1. \A p : Now(p)' = Now(p)
    BY <1>1, <1>3 DEF Now
  <2>2. Follows(pool) => Follows(pool)'
    BY <1>1, <1>3, <2>1 DEF Follows
  <2> QED
    BY <1>1, <1>3, <2>1, <2>2
<1>4. CASE changed # 0
  <2> DEFINE u == [pool |-> pool, pos |-> book'[pool]]
  <2>1. u \in Update /\ u.pool = pool /\ u.pos = book'[pool]
    BY <1>1 DEF Update
  <2>2. queue' = Append(queue, u)
    BY <1>1, <1>4
  <2> HIDE DEF u
  <2>3. \A p : NewestIn(Append(queue, u), writer, context, db, p)
                 = IF p = pool THEN book'[pool] ELSE NewestIn(queue, writer, context, db, p)
    BY <1>2, <2>1, NewestAppend
  <2>4. \A p : Now(p)' = IF p = pool THEN book'[pool] ELSE Now(p)
    BY <2>2, <2>3 DEF Now
  <2>5. Now(pool)' = book'[pool]
    BY <2>4
  <2>6. Follows(pool)'
    BY <2>5 DEF Follows
  <2> QED
    BY <1>1, <1>4, <2>4, <2>5, <2>6
<1> QED
  BY <1>3, <1>4

-----------------------------------------------------------------------------
(* The store follows the book and gives it back: the initial states        *)

LEMMA InitStore == RecoveryAssumption /\ Init => StoreInv
<1> SUFFICES ASSUME RecoveryAssumption, Init PROVE StoreInv
  OBVIOUS
<1>1. /\ broker \in [Sides -> Sizes] /\ main = "down" /\ index = 1
      /\ db = [p \in Pools |-> None] /\ before = [p \in Names |-> Empty]
  BY DEF Init
<1>2. main \notin Sides /\ Sizes \subseteq Nat
  BY <1>1 DEF Sides, RecoveryAssumption
<1>3. Following
  BY <1>1, <1>2 DEF Following
<1>4. Restoring
  <2>1. \A p \in Names : Kept(p)
    BY <1>1, NamesAre DEF Kept
  <2>2. \A side \in Sides : Held(before, side) = 0
    BY <1>1, NamesAre, HeldEmpty
  <2>3. \A side \in Sides : broker[side] \in Nat
    BY <1>1, <1>2
  <2> QED
    BY <1>1, <1>2, <2>1, <2>2, <2>3, NamesAre DEF Restoring
<1> QED
  BY <1>3, <1>4 DEF StoreInv

-----------------------------------------------------------------------------
(* ... and the steps                                                       *)

LEMMA OnPositionsStore ==
  ASSUME RecoveryAssumption, PoolsInv, StoreInv, OnPositions
  PROVE  StoreInv'
<1>1. /\ main = "down" /\ main' = "cleared" /\ db' = [db EXCEPT !["common"] = None]
      /\ UNCHANGED <<broker, index, loaded, book, queue, writer, context, before, clean>>
  BY DEF OnPositions, history
<1>2. Typed /\ Phases
  BY DEF PoolsInv
<1>3. /\ queue = <<>> /\ writer = "idle" /\ book = [p \in Pools |-> Empty] /\ index = 1
      /\ main \notin Sides /\ main' \notin Sides /\ "common" \in Pools
  BY <1>1, <1>2, NamesAre DEF Phases, Sides
<1>4. db'["common"] = None /\ \A p \in Names : db'[p] = db[p]
  BY <1>1, <1>2, <1>3, NamesAre DEF Typed
<1>5. Following'
  <2>1. Now("common")' = None
    BY <1>1, <1>3, <1>4 DEF Now, NewestIn, NotQueued
  <2>2. Follows("common")'
    BY <1>1, <1>3, <2>1 DEF Follows
  <2> QED
    BY <1>1, <1>3, <1>4, <2>2 DEF Following
<1>6. Restoring'
  <2>1. \A p \in Names : Kept(p) => Kept(p)'
    BY <1>1, <1>4 DEF Kept
  <2>2. \A j \in 1 .. Count : Ahead(j)' => Ahead(j)
    BY <1>1, <1>3 DEF Ahead
  <2> QED
    BY <1>1, <1>3, <2>1, <2>2, NamesAre DEF StoreInv, Restoring
<1> QED
  BY <1>5, <1>6 DEF StoreInv

LEMMA SetPositionStore ==
  ASSUME RecoveryAssumption, PoolsInv, StoreInv, SetPosition
  PROVE  StoreInv'
<1>1. /\ main = "cleared" /\ main' = "sleeps"
      /\ UNCHANGED <<broker, index, loaded, writer, context, db, before, clean>>
      /\ \/ broker = Empty /\ UNCHANGED <<book, queue>>
         \/ book' = [book EXCEPT !["common"] = broker] /\ Callback("common", broker)
  BY DEF SetPosition, store, history
<1>2. Typed /\ Phases
  BY DEF PoolsInv
<1>3. /\ index = 1 /\ main \notin Sides /\ main' \notin Sides /\ "common" \in Pools
      /\ "common" \notin Names /\ broker \in Position /\ queue \in Seq(Update)
  BY <1>1, <1>2, NamesAre DEF Typed, Phases, Sides
<1>4. Following'
  <2>1. CASE broker = Empty /\ UNCHANGED <<book, queue>>
    <3>1. Follows("common")
      BY <1>1 DEF StoreInv, Following
    <3>2. Follows("common")'
      BY <1>1, <2>1, <3>1 DEF Follows, Now
    <3> QED
      BY <1>1, <1>3, <3>2 DEF Following
  <2>2. CASE book' = [book EXCEPT !["common"] = broker] /\ Callback("common", broker)
    <3> DEFINE u == [pool |-> "common", pos |-> broker]
    <3>1. u \in Update /\ u.pool = "common" /\ u.pos = broker
      BY <1>3 DEF Update
    <3>2. queue' = Append(queue, u)
      BY <2>2 DEF Callback
    <3> HIDE DEF u
    <3>3. NewestIn(Append(queue, u), writer, context, db, "common") = broker
      BY <1>3, <3>1, NewestAppend
    <3>4. Now("common")' = broker
      BY <1>1, <3>2, <3>3 DEF Now
    <3>5. book'["common"] = broker
      BY <1>2, <1>3, <2>2 DEF Typed
    <3> QED
      BY <1>1, <1>3, <3>4, <3>5 DEF Following, Follows
  <2> QED
    BY <1>1, <2>1, <2>2
<1>5. Restoring'
  <2>1. \A p \in Names : Kept(p) => Kept(p)'
    BY <1>1 DEF Kept
  <2>2. \A j \in 1 .. Count : Ahead(j)' => Ahead(j)
    BY <1>1, <1>3 DEF Ahead
  <2> QED
    BY <1>1, <1>3, <2>1, <2>2, NamesAre DEF StoreInv, Restoring
<1> QED
  BY <1>4, <1>5 DEF StoreInv

LEMMA SleptStore ==
  ASSUME RecoveryAssumption, PoolsInv, StoreInv, Slept \/ Initialized
  PROVE  StoreInv'
<1>1. /\ \/ main = "sleeps" /\ main' = "reads"
         \/ main = "recovered" /\ main' = "runs"
      /\ UNCHANGED <<broker, index, loaded, book, queue, writer, context, db, before, clean>>
  BY DEF Slept, Initialized, history, store
<1>2. main \notin Sides /\ main' \notin Sides
  BY <1>1 DEF Sides
<1>3. \A p : (Follows(p)' <=> Follows(p)) /\ (Kept(p)' <=> Kept(p))
  BY <1>1 DEF Follows, Now, Kept
<1>4. Following'
  BY <1>1, <1>2, <1>3 DEF StoreInv, Following
<1>5. \A j \in 1 .. Count : Ahead(j)' => Ahead(j)
  BY <1>1, <1>2 DEF Ahead
<1>6. Restoring'
  BY <1>1, <1>2, <1>3, <1>5 DEF StoreInv, Restoring
<1> QED
  BY <1>4, <1>6 DEF StoreInv

LEMMA GetAllPositionsStore ==
  ASSUME RecoveryAssumption, PoolsInv, StoreInv, GetAllPositions
  PROVE  StoreInv'
<1> DEFINE p == Strategies[index]
<1>1. /\ main = "reads"
      /\ UNCHANGED <<broker, book, queue, writer, context, db, before, clean>>
      /\ \/ index > Count /\ main' = "recovered" /\ UNCHANGED <<index, loaded>>
         \/ /\ ~ (index > Count) /\ db[p] = None
            /\ index' = index + 1 /\ UNCHANGED <<main, loaded>>
         \/ /\ ~ (index > Count) /\ db[p] # None
            /\ loaded' = db[p] /\ main' = "long" /\ index' = index
  BY DEF GetAllPositions, history, store, Count
<1>2. Typed /\ Phases /\ Following /\ Restoring
  BY DEF PoolsInv, StoreInv
<1>3. main \notin Sides /\ index \in 1 .. Count + 1 /\ Count \in Nat
  BY <1>1, <1>2, NamesAre DEF Typed, Sides
<1>4. \A x : (Follows(x)' <=> Follows(x)) /\ (Kept(x)' <=> Kept(x))
  BY <1>1 DEF Follows, Now, Kept
<1>5. index <= Count =>
        /\ index \in 1 .. Count /\ p \in Names /\ Now(p) = db[p] /\ book[p] = Empty
        /\ clean => Kept(p)
  <2> SUFFICES ASSUME index <= Count
               PROVE  /\ index \in 1 .. Count /\ p \in Names /\ Now(p) = db[p] /\ book[p] = Empty
                      /\ clean => Kept(p)
    OBVIOUS
  <2>1. index \in 1 .. Count /\ Ahead(index)
    BY <1>1, <1>3 DEF Ahead
  <2>2. Untouched(p)
    BY <1>2, <2>1 DEF Phases
  <2>3. clean => Kept(p)
    BY <1>1, <1>2, <2>1 DEF Restoring
  <2> QED
    BY <2>1, <2>2, <2>3, NamesAre DEF Untouched, Now, NewestIn
<1>6. Follows("common") /\ \A j \in 1 .. index - 1 : Follows(Strategies[j])
  BY <1>1, <1>2 DEF Following
<1>7. CASE index > Count /\ main' = "recovered" /\ UNCHANGED <<index, loaded>>
  <2>1. main' \notin Sides
    BY <1>7 DEF Sides
  <2>2. Following'
    BY <1>4, <1>6, <1>7, <2>1 DEF Following
  <2>3. \A j \in 1 .. Count : Ahead(j)' => Ahead(j)
    BY <1>1, <1>3, <1>7 DEF Ahead
  <2>4. Restoring'
    BY <1>1, <1>2, <1>4, <1>7, <2>1, <2>3 DEF Restoring
  <2> QED
    BY <2>2, <2>4 DEF StoreInv
<1>8. CASE ~ (index > Count) /\ db[p] = None /\ index' = index + 1 /\ UNCHANGED <<main, loaded>>
  <2>1. \A j \in 1 .. index' - 1 : j \in 1 .. index - 1 \/ j = index
    BY <1>3, <1>8
  <2>2. index <= Count
    BY <1>3, <1>8
  <2>3. Follows(p)
    BY <1>5, <1>8, <2>2 DEF Follows
  <2>4. Following'
    BY <1>1, <1>3, <1>4, <1>6, <1>8, <2>1, <2>3 DEF Following
  <2>5. \A j \in 1 .. Count : Ahead(j)' => Ahead(j)
    BY <1>1, <1>3, <1>8 DEF Ahead
  <2>6. clean => book[p] = before[p]
    <3>1. p \in Pools /\ p \in Names
      BY <1>5, <2>2, NamesAre
    <3>2. before[p] # None
      BY <1>2, <3>1, EmptyIs DEF Typed
    <3> QED
      BY <1>5, <1>8, <2>2, <3>2 DEF Kept
  <2>7. Restoring'
    BY <1>1, <1>2, <1>3, <1>4, <1>8, <2>1, <2>5, <2>6 DEF Restoring
  <2> QED
    BY <2>4, <2>7 DEF StoreInv
<1>9. CASE ~ (index > Count) /\ db[p] # None /\ loaded' = db[p] /\ main' = "long" /\ index' = index
  <2>1. index <= Count
    BY <1>3, <1>9
  <2>2. Half' = Empty
    BY <1>9 DEF Half, Empty
  <2>3. Now(p)' = Now(p)
    BY <1>1, <1>9 DEF Now
  <2>4. Moving(p)'
    BY <1>1, <1>5, <1>9, <2>1, <2>2, <2>3 DEF Moving
  <2>5. Following'
    BY <1>4, <1>6, <1>9, <2>4 DEF Following
  <2>6. \A j \in 1 .. Count : Ahead(j)' => Ahead(j)
    BY <1>1, <1>3, <1>9 DEF Ahead
  <2>7. clean => loaded' = before[p]
    BY <1>5, <1>9, <2>1 DEF Kept
  <2>8. Restoring'
    BY <1>1, <1>2, <1>4, <1>9, <2>6, <2>7 DEF Restoring
  <2> QED
    BY <2>5, <2>8 DEF StoreInv
<1> QED
  BY <1>1, <1>7, <1>8, <1>9

LEMMA WriterStore ==
  ASSUME RecoveryAssumption, ~ SetFails, PoolsInv, StoreInv, Get \/ Set
  PROVE  StoreInv'
<1>1. UNCHANGED <<broker, main, index, loaded, book, before, clean>>
  BY DEF Get, Set, history
<1>2. Typed /\ Phases /\ Following /\ Restoring
  BY DEF PoolsInv, StoreInv
<1>3. \A p \in Pools : Now(p)' = Now(p)
  <2>1. CASE Get
    <3>1. /\ writer = "idle" /\ queue # <<>>
          /\ context' = Head(queue) /\ queue' = Tail(queue) /\ writer' = "sets" /\ db' = db
      BY <2>1 DEF Get
    <3>2. queue \in Seq(Update)
      BY <1>2 DEF Typed
    <3>3. \A p : NewestIn(Tail(queue), "sets", Head(queue), db, p)
                   = NewestIn(queue, "idle", context, db, p)
      BY <3>1, <3>2, NewestGet
    <3> QED
      BY <3>1, <3>3 DEF Now
  <2>2. CASE Set
    <3>1. /\ writer = "sets" /\ writer' = "idle"
          /\ db' = [db EXCEPT ![context.pool] = context.pos]
          /\ UNCHANGED <<queue, context>>
      BY <2>2 DEF Set
    <3>2. context \in Update /\ db \in [Pools -> Position \cup {None}]
      BY <1>2 DEF Typed
    <3>3. \A p \in Pools :
            NewestIn(queue, "idle", context, [db EXCEPT ![context.pool] = context.pos], p)
              = NewestIn(queue, "sets", context, db, p)
      BY <3>2, NewestSet
    <3> QED
      BY <3>1, <3>3 DEF Now
  <2> QED
    BY <2>1, <2>2
<1>4. \A p \in Pools : Follows(p)' <=> Follows(p)
  BY <1>1, <1>3 DEF Follows
<1>5. main # "cleared"
  <2>1. main = "cleared" => queue = <<>> /\ writer = "idle"
    BY <1>2 DEF Phases
  <2> QED
    BY <2>1 DEF Get, Set
<1>6. Following'
  <2>1. "common" \in Pools /\ \A j \in 1 .. index - 1 : Strategies[j] \in Pools
    <3>1. index \in 1 .. Count + 1 /\ Count \in Nat
      BY <1>2, NamesAre DEF Typed
    <3> QED
      BY <3>1, NamesAre
  <2>2. main \in Sides => Moving(Strategies[index])'
    <3> SUFFICES ASSUME main \in Sides PROVE Moving(Strategies[index])'
      OBVIOUS
    <3>1. index \in 1 .. Count
      BY <1>2, NamesAre DEF Typed
    <3>2. Strategies[index] \in Pools /\ Moving(Strategies[index])
      BY <1>2, <3>1, NamesAre DEF Following
    <3>3. Half' = Half
      BY <1>1 DEF Half
    <3> QED
      BY <1>1, <1>3, <3>2, <3>3 DEF Moving
  <2> QED
    BY <1>1, <1>2, <1>4, <1>5, <2>1, <2>2 DEF Following
<1>7. Restoring'
  <2>1. \A j \in 1 .. Count : Ahead(j)' <=> Ahead(j)
    BY <1>1 DEF Ahead
  <2>2. ASSUME NEW j \in 1 .. Count, Ahead(j), Kept(Strategies[j])
        PROVE  Kept(Strategies[j])'
    <3>1. Untouched(Strategies[j]) /\ Strategies[j] \in Pools
      BY <1>2, <2>2, NamesAre DEF Phases
    <3>2. db'[Strategies[j]] = db[Strategies[j]]
      <4>1. CASE Get
        BY <4>1 DEF Get
      <4>2. CASE Set
        <5>1. db' = [db EXCEPT ![context.pool] = context.pos] /\ writer = "sets"
          BY <4>2 DEF Set
        <5>2. context.pool # Strategies[j]
          BY <3>1, <5>1 DEF Untouched
        <5>3. db \in [Pools -> Position \cup {None}]
          BY <1>2 DEF Typed
        <5> QED
          BY <3>1, <5>1, <5>2, <5>3
      <4> QED
        BY <4>1, <4>2
    <3> QED
      BY <1>1, <2>2, <3>2 DEF Kept
  <2> QED
    BY <1>1, <1>2, <2>1, <2>2 DEF Restoring
<1> QED
  BY <1>6, <1>7 DEF StoreInv

(* What the strategies before and at index have of a side and what is to   *)
(* be moved to the latter is within what they had at the crash.            *)
LEMMA HeldBefore ==
  ASSUME RecoveryAssumption, PoolsInv, StoreInv, clean, NEW side \in Sides,
         main = side, moving = "no"
  PROVE  Held(book, side) + loaded[side] <= broker[side]
<1> DEFINE f == [i \in 1 .. Count |-> before[Strategies[i]][side]]
           g == [i \in 1 .. Count |-> book[Strategies[i]][side]]
           h == [g EXCEPT ![index] = loaded[side]]
<1>1. Typed /\ Phases /\ Following /\ Restoring
  BY DEF PoolsInv, StoreInv
<1>2. /\ index \in 1 .. Count /\ Count \in Nat /\ main \in Sides /\ main # "runs"
      /\ main # "false"
  <2>1. index \in 1 .. Count + 1 /\ index <= Count /\ Count \in Nat
    BY <1>1, NamesAre DEF Typed
  <2>2. main = "long" \/ main = "short"
    BY SidesAre
  <2> QED
    BY <2>1, <2>2
<1>3. /\ Held(before, side) <= broker[side] /\ broker[side] \in Nat
      /\ \A j \in 1 .. index - 1 : book[Strategies[j]] = before[Strategies[j]]
      /\ loaded = before[Strategies[index]]
  BY <1>1, <1>2 DEF Restoring, Typed, Position
<1>4. \A j \in 1 .. Count : /\ before[Strategies[j]][side] \in Nat
                            /\ book[Strategies[j]][side] \in Nat
  BY <1>1, NamesAre DEF Typed, Position
<1>5. \A j \in 1 .. Count : j > index => book[Strategies[j]][side] = 0
  <2>1. \A j \in 1 .. Count : j > index => Ahead(j)
    BY <1>2 DEF Ahead
  <2>2. \A j \in 1 .. Count : j > index => book[Strategies[j]] = Empty
    BY <1>1, <2>1 DEF Phases, Untouched
  <2> QED
    BY <2>2, EmptyIs
<1>6. book[Strategies[index]][side] = 0
  <2>1. Half[side] = 0
    BY SidesAre DEF Half
  <2>2. Moving(Strategies[index])
    BY <1>1, <1>2 DEF Following
  <2> QED
    BY <2>1, <2>2 DEF Moving
<1>7. f \in [1 .. Count -> Int] /\ g \in [1 .. Count -> Int]
  BY <1>4
<1>8. loaded[side] \in Int /\ loaded[side] = f[index] /\ g[index] = 0
  BY <1>2, <1>3, <1>4, <1>6
<1>9. \A j \in 1 .. Count : j # index => g[j] <= f[j]
  <2> SUFFICES ASSUME NEW j \in 1 .. Count, j # index PROVE g[j] <= f[j]
    OBVIOUS
  <2>1. CASE j < index
    <3>1. j \in 1 .. index - 1
      BY <1>2, <2>1
    <3> QED
      BY <1>3, <1>4, <3>1
  <2>2. CASE j > index
    BY <1>4, <1>5, <2>2
  <2> QED
    BY <1>2, <2>1, <2>2
<1>10. Held(before, side) = SumTo(f, Count) /\ Held(book, side) = SumTo(g, Count)
  BY DEF Held
<1> HIDE DEF f, g
<1>11. /\ h \in [1 .. Count -> Int] /\ h[index] = loaded[side]
       /\ \A j \in 1 .. Count : j # index => h[j] = g[j]
  BY <1>2, <1>7, <1>8
<1> HIDE DEF h
<1>12. SumTo(h, Count) = SumTo(g, Count) + (h[index] - g[index])
  BY <1>2, <1>7, <1>11, SumToUpdate
<1>13. \A j \in 1 .. Count : h[j] <= f[j]
  BY <1>7, <1>8, <1>9, <1>11
<1>14. SumTo(h, Count) <= SumTo(f, Count)
  BY <1>2, <1>7, <1>11, <1>13, SumToMono
<1>15. SumTo(h, Count) \in Int /\ SumTo(g, Count) \in Int /\ SumTo(f, Count) \in Int
  BY <1>2, <1>7, <1>11, SumToInt
<1> QED
  BY <1>3, <1>8, <1>10, <1>11, <1>12, <1>14, <1>15

LEMMA MoveOutStore ==
  ASSUME RecoveryAssumption, PoolsInv, StoreInv, NEW side \in Sides, MoveOut(side)
  PROVE  StoreInv'
<1>1. /\ main = side /\ moving = "no"
      /\ UNCHANGED <<broker, index, loaded, writer, context, db, before, clean>>
      /\ \/ Enough(side) /\ ModifyPosition("common", side, -loaded[side]) /\ main' = main
         \/ ~ Enough(side) /\ main' = "false" /\ UNCHANGED <<book, queue>>
  BY DEF MoveOut, store, history
<1>2. Typed /\ Phases /\ Divided /\ Following /\ Restoring
  BY DEF PoolsInv, StoreInv
<1>3. main = "long" \/ main = "short"
  BY <1>1, SidesAre
<1>4. /\ loaded[side] \in Nat /\ "common" \in Pools /\ book["common"][side] \in Nat
      /\ book \in [Pools -> Position] /\ index \in 1 .. Count /\ Count \in Nat
  <2>1. loaded \in Position /\ book \in [Pools -> Position]
    BY <1>2 DEF Typed
  <2>2. "common" \in Pools /\ Count \in Nat
    BY NamesAre
  <2>3. index \in 1 .. Count + 1 /\ index <= Count
    BY <1>1, <1>2 DEF Typed
  <2>4. loaded[side] \in Nat /\ book["common"][side] \in Nat
    BY <2>1, <2>2 DEF Position
  <2>5. index \in 1 .. Count
    BY <2>2, <2>3
  <2> QED
    BY <2>1, <2>2, <2>4, <2>5
(* At a restart that nothing was under way at the common pool has enough.  *)
<1>5. clean => Enough(side)
  <2> SUFFICES ASSUME clean PROVE Enough(side)
    OBVIOUS
  <2>1. Held(book, side) + loaded[side] <= broker[side]
    BY <1>1, HeldBefore
  <2>2. All(book, reports, side) + InHand(side) = broker[side]
    BY <1>2, <1>3 DEF Divided
  <2>3. InHand(side) = 0
    BY <1>1, SidesAre DEF InHand
  <2>4. Added(reports, side) = 0
    <3>1. reports = <<>>
      BY <1>2, <1>3 DEF Phases
    <3> QED
      BY <3>1, AddedNone
  <2>5. Held(book, side) \in Nat
    BY <1>4, HeldType
  <2> QED
    BY <1>4, <2>1, <2>2, <2>3, <2>4, <2>5 DEF All, Enough
<1>6. CASE ~ Enough(side) /\ main' = "false" /\ UNCHANGED <<book, queue>>
  <2>1. Following'
    BY <1>6, SidesAre DEF Following, Sides
  <2>2. Restoring'
    BY <1>1, <1>5, <1>6 DEF Restoring
  <2> QED
    BY <2>1, <2>2 DEF StoreInv
<1>7. CASE Enough(side) /\ ModifyPosition("common", side, -loaded[side]) /\ main' = main
  <2>1. -loaded[side] \in Int /\ book["common"][side] + (-loaded[side]) >= 0
    BY <1>4, <1>7 DEF Enough
  <2>2. /\ \A p \in Pools : p # "common" => Now(p)' = Now(p) /\ book'[p] = book[p]
        /\ Follows("common") => Follows("common")'
    <3>1. PICK d \in Int : d = -loaded[side]
      BY <2>1
    <3>2. ModifyPosition("common", side, d) /\ book["common"][side] + d >= 0
      BY <1>7, <2>1, <3>1
    <3> QED
      BY <1>1, <1>2, <1>4, <3>2, NowModified
  <2>3. \A j \in 1 .. Count : Strategies[j] \in Pools /\ Strategies[j] # "common"
    BY NamesAre
  <2>4. \A j \in 1 .. Count : /\ Now(Strategies[j])' = Now(Strategies[j])
                              /\ book'[Strategies[j]] = book[Strategies[j]]
    BY <2>2, <2>3
  <2>5. \A j \in 1 .. Count : Follows(Strategies[j])' <=> Follows(Strategies[j])
    BY <2>4 DEF Follows
  <2>6. Following'
    <3>1. Half' = Half
      BY <1>1, <1>7 DEF Half
    <3>2. Moving(Strategies[index])
      BY <1>1, <1>2 DEF Following
    <3>3. Now(Strategies[index])' = Now(Strategies[index])
      BY <1>1, <1>4, <2>4
    <3>4. Moving(Strategies[index])'
      BY <1>1, <1>4, <1>7, <2>4, <3>1, <3>2, <3>3 DEF Moving
    <3>5. \A j \in 1 .. index - 1 : j \in 1 .. Count
      BY <1>4
    <3> QED
      BY <1>1, <1>2, <1>3, <1>7, <2>2, <2>5, <3>4, <3>5 DEF Following
  <2>7. Restoring'
    <3>1. \A j \in 1 .. Count : Ahead(j)' <=> Ahead(j)
      BY <1>1, <1>7 DEF Ahead
    <3>2. \A p : Kept(p)' <=> Kept(p)
      BY <1>1 DEF Kept
    <3>3. \A j \in 1 .. index - 1 : j \in 1 .. Count
      BY <1>4
    <3> QED
      BY <1>1, <1>2, <1>3, <1>7, <2>4, <3>1, <3>2, <3>3 DEF Restoring
  <2> QED
    BY <2>6, <2>7 DEF StoreInv
<1> QED
  BY <1>1, <1>6, <1>7

LEMMA MoveInStore ==
  ASSUME RecoveryAssumption, PoolsInv, StoreInv, NEW side \in Sides, MoveIn(side)
  PROVE  StoreInv'
<1>0. PICK pool : pool = Strategies[index]
  OBVIOUS
<1>1. /\ main = side /\ moving = side
      /\ ModifyPosition(pool, side, loaded[side])
      /\ main' = IF side = "long" THEN "short" ELSE "reads"
      /\ index' = IF side = "long" THEN index ELSE index + 1
      /\ UNCHANGED <<broker, loaded, writer, context, db, before, clean>>
  BY <1>0 DEF MoveIn, After, store, history
<1>2. Typed /\ Phases /\ Following /\ Restoring
  BY DEF PoolsInv, StoreInv
<1>3. /\ index \in 1 .. Count /\ Count \in Nat /\ pool \in Names /\ pool \in Pools
      /\ pool # "common" /\ "common" \in Pools
  <2>1. index \in 1 .. Count + 1 /\ index <= Count /\ Count \in Nat
    BY <1>1, <1>2, NamesAre DEF Typed
  <2>2. index \in 1 .. Count
    BY <2>1
  <2> QED
    BY <1>0, <2>1, <2>2, NamesAre
<1>4. /\ loaded \in Position /\ loaded[side] \in Nat /\ loaded["long"] \in Nat
      /\ book \in [Pools -> Position] /\ book[pool][side] \in Nat
  <2>1. loaded \in Position /\ book \in [Pools -> Position]
    BY <1>2 DEF Typed
  <2>2. book[pool] \in Position
    BY <1>3, <2>1
  <2> QED
    BY <2>1, <2>2, SidesAre DEF Position
<1>5. loaded[side] \in Int /\ book[pool][side] + loaded[side] >= 0
  BY <1>4
<1>6. main = "long" \/ main = "short"
  BY <1>1, SidesAre
<1>7. /\ \A p \in Pools : p # pool => Now(p)' = Now(p) /\ book'[p] = book[p]
      /\ loaded[side] # 0 => Now(pool)' = book'[pool]
      /\ loaded[side] = 0 => Now(pool)' = Now(pool) /\ book' = book
      /\ Follows(pool) => Follows(pool)'
  BY <1>1, <1>2, <1>3, <1>5, NowModified
<1>8. /\ book' \in [Pools -> Position]
      /\ book'[pool][side] = book[pool][side] + loaded[side]
      /\ \A s \in Sides : s # side => book'[pool][s] = book[pool][s]
  BY <1>1, <1>2, <1>3, <1>5, Modified
<1>9. Follows("common") /\ \A j \in 1 .. index - 1 : Follows(Strategies[j])
  BY <1>2, <1>6 DEF Following
<1>10. ASSUME NEW j \in 1 .. Count, j # index
       PROVE  /\ Strategies[j] \in Pools /\ Strategies[j] # pool
              /\ Now(Strategies[j])' = Now(Strategies[j])
              /\ book'[Strategies[j]] = book[Strategies[j]]
              /\ Follows(Strategies[j])' <=> Follows(Strategies[j])
  <2>1. Strategies[j] \in Pools /\ Strategies[j] # pool
    BY <1>0, <1>3, <1>10, NamesAre
  <2> QED
    BY <1>7, <2>1 DEF Follows
<1>11. Follows("common")' /\ \A j \in 1 .. index - 1 : Follows(Strategies[j])'
  <2>1. Follows("common")'
    BY <1>3, <1>7, <1>9 DEF Follows
  <2>2. \A j \in 1 .. index - 1 : j \in 1 .. Count /\ j # index
    BY <1>3
  <2> QED
    BY <1>9, <1>10, <2>1, <2>2
<1>12. Moving(pool)
  BY <1>0, <1>2, <1>6, SidesAre DEF Following
<1>13. \A j \in 1 .. Count : Ahead(j)' => j > index /\ Ahead(j)
  BY <1>1, <1>3, <1>6 DEF Ahead, Sides
<1>14. \A p : Kept(p)' <=> Kept(p)
  BY <1>1 DEF Kept
<1>15. \A j \in 1 .. index - 1 : j \in 1 .. Count /\ j # index
  BY <1>3
<1>16. CASE side = "long"
  <2>1. main = "long" /\ main' = "short" /\ index' = index /\ "long" # "short"
    BY <1>1, <1>16
  <2>2. book[pool] = Empty /\ Now(pool) = loaded
    <3>1. Half = Empty
      BY <2>1 DEF Half, Empty
    <3> QED
      BY <1>12, <2>1, <3>1 DEF Moving
  <2>3. book'[pool]["long"] = loaded["long"] /\ book'[pool]["short"] = 0
    BY <1>4, <1>8, <1>16, <2>2, EmptyIs, SidesAre
  <2>4. book'[pool] = Half'
    <3>1. Half' = [s \in Sides |-> IF s = "long" THEN loaded["long"] ELSE 0]
      BY <1>1, <2>1 DEF Half
    <3>2. book'[pool] \in [Sides -> Nat]
      BY <1>3, <1>8 DEF Position
    <3>3. \A s \in Sides : book'[pool][s] = IF s = "long" THEN loaded["long"] ELSE 0
      BY <2>3, SidesAre
    <3> QED
      BY <3>1, <3>2, <3>3
  <2>5. Now(pool)' = IF loaded["long"] # 0 THEN book'[pool] ELSE loaded
    BY <1>7, <1>16, <2>2
  <2>6. Strategies[index'] = pool
    BY <1>0, <2>1
  <2>7. Moving(pool)'
    BY <1>1, <2>1, <2>4, <2>5 DEF Moving
  <2>8. Moving(Strategies[index])'
    <3>1. Now(Strategies[index])' = Now(pool)'
      BY <2>6 DEF Now
    <3> QED
      BY <1>1, <2>1, <2>4, <2>5, <2>6, <3>1 DEF Moving
  <2>9. Following'
    BY <1>11, <2>1, <2>8 DEF Following
  <2>10. Restoring'
    <3>1. main \in Sides /\ main # "runs" /\ main # "false"
      BY <1>1, <2>1
    <3> QED
      BY <1>1, <1>2, <1>10, <1>13, <1>14, <1>15, <2>1, <3>1 DEF Restoring
  <2> QED
    BY <2>9, <2>10 DEF StoreInv
<1>17. CASE side = "short"
  <2>1. main = "short" /\ main' = "reads" /\ index' = index + 1 /\ "long" # "short" /\ "reads" \notin Sides
    BY <1>1, <1>17 DEF Sides
  <2>2. /\ book[pool]["long"] = loaded["long"] /\ book[pool]["short"] = 0
        /\ Now(pool) = IF loaded["long"] # 0 THEN book[pool] ELSE loaded
    BY <1>12, <2>1, SidesAre DEF Moving, Half
  <2>3. book'[pool] = loaded
    <3>1. book'[pool] \in [Sides -> Nat] /\ loaded \in [Sides -> Nat]
      BY <1>3, <1>4, <1>8 DEF Position
    <3>2. book'[pool]["long"] = loaded["long"] /\ book'[pool]["short"] = loaded["short"]
      BY <1>4, <1>8, <1>17, <2>2, SidesAre
    <3>3. \A s \in Sides : book'[pool][s] = loaded[s]
      BY <3>2, SidesAre
    <3> QED
      BY <3>1, <3>3
  <2>4. Follows(pool)'
    <3>1. CASE loaded["short"] # 0
      BY <1>7, <1>17, <3>1 DEF Follows
    <3>2. CASE loaded["short"] = 0
      BY <1>7, <1>17, <2>2, <2>3, <3>2 DEF Follows
    <3> QED
      BY <3>1, <3>2
  <2>5. \A j \in 1 .. index' - 1 : j \in 1 .. index - 1 \/ j = index
    BY <1>3, <2>1
  <2>6. Following'
    <3>1. \A j \in 1 .. index' - 1 : Follows(Strategies[j])'
      BY <1>0, <1>11, <2>4, <2>5
    <3> QED
      BY <1>11, <2>1, <3>1 DEF Following
  <2>7. Restoring'
    <3>1. main \in Sides /\ main # "runs" /\ main # "false"
      BY <1>1, <2>1
    <3>2. clean => \A j \in 1 .. index' - 1 : book'[Strategies[j]] = before[Strategies[j]]
      BY <1>0, <1>2, <1>10, <1>15, <2>3, <2>5, <3>1 DEF Restoring
    <3> QED
      BY <1>1, <1>2, <1>13, <1>14, <2>1, <3>1, <3>2 DEF Restoring
  <2> QED
    BY <2>6, <2>7 DEF StoreInv
<1> QED
  BY <1>16, <1>17, SidesAre

LEMMA TradesStore ==
  ASSUME RecoveryAssumption, PoolsInv, StoreInv, OnOrderTraded \/ Exchange
  PROVE  StoreInv'
<1>1. /\ main = "runs" /\ UNCHANGED <<main, index, loaded, writer, context, db, before, clean>>
  BY DEF OnOrderTraded, Exchange, Traded, store, history
<1>2. Typed /\ Covered /\ Following
  BY DEF PoolsInv, StoreInv
<1>3. main \notin Sides /\ Restoring'
  BY <1>1 DEF Sides, Restoring
<1>4. \A p \in Pools : Follows(p) => Follows(p)'
  <2>1. CASE OnOrderTraded
    <3>1. reports \in Seq(Report) /\ reports # <<>>
      BY <1>2, <2>1 DEF Typed, OnOrderTraded
    <3>2. 0 \in 0 .. Len(Tail(reports))
      <4>1. Tail(reports) \in Seq(Report)
        BY <3>1, HeadTailProperties
      <4> QED
        BY <4>1, LenProperties
    <3>3. Head(reports) \in Report
      BY <3>1, HeadTailProperties
    <3>4. PICK pool \in Names, side \in Sides, d \in Int :
            pool = Head(reports).pool /\ side = Head(reports).side /\ d = Head(reports).changed
      BY <3>3, OfIs
    <3>5. ModifyPosition(pool, side, d) /\ pool \in Pools
      BY <2>1, <3>4, NamesAre DEF OnOrderTraded
    <3>6. book[pool][side] + d >= 0
      <4>1. /\ 1 \in 0 .. Len(reports)
            /\ Part(reports, pool, side, 1) = Of(Head(reports), pool, side)
        <5>1. PICK k \in 0 .. Len(Tail(reports)) : k = 0
          BY <3>2
        <5>2. /\ 1 \in 0 .. Len(reports)
              /\ Part(reports, pool, side, k + 1)
                   = Of(Head(reports), pool, side) + Part(Tail(reports), pool, side, k)
              /\ Part(reports, pool, side, 1) = Of(Head(reports), pool, side)
          BY <3>1, PartTail
        <5> QED
          BY <5>2
      <4>2. Of(Head(reports), pool, side) = d
        BY <3>4 DEF Of
      <4> QED
        BY <1>2, <4>1, <4>2 DEF Covered
    <3>7. /\ \A p \in Pools : p # pool => Now(p)' = Now(p) /\ book'[p] = book[p]
          /\ Follows(pool) => Follows(pool)'
      BY <1>1, <1>2, <3>5, <3>6, NowModified
    <3> QED
      BY <3>7 DEF Follows
  <2>2. CASE Exchange
    <3>1. UNCHANGED <<book, queue>>
      BY <2>2 DEF Exchange, Traded
    <3> QED
      BY <1>1, <3>1 DEF Follows, Now
  <2> QED
    BY <2>1, <2>2
<1>5. Following'
  <2>1. index \in 1 .. Count + 1 /\ Count \in Nat
    BY <1>2, NamesAre DEF Typed
  <2>2. "common" \in Pools /\ \A j \in 1 .. index - 1 : Strategies[j] \in Pools
    BY <2>1, NamesAre
  <2> QED
    BY <1>1, <1>2, <1>3, <1>4, <2>2 DEF Following
<1> QED
  BY <1>3, <1>5 DEF StoreInv

LEMMA CrashStore ==
  ASSUME RecoveryAssumption, PoolsInv, StoreInv, Crash
  PROVE  StoreInv'
<1>1. /\ main' = "down" /\ index' = 1 /\ book' = [p \in Pools |-> Empty]
      /\ \/ main = "runs" /\ before' = [p \in Names |-> book[p]] /\ clean' = Quiet
         \/ clean' = FALSE
      /\ UNCHANGED <<broker, db>>
  BY DEF Crash
<1>2. Typed /\ Phases /\ Divided /\ Following
  BY DEF PoolsInv, StoreInv
<1>3. main' \notin Sides
  BY <1>1 DEF Sides
<1>4. Following'
  BY <1>1, <1>3 DEF Following
<1>5. ASSUME main = "runs", before' = [p \in Names |-> book[p]], Quiet
      PROVE  /\ \A side \in Sides : Held(before', side) <= broker[side]
             /\ \A j \in 1 .. Count : Kept(Strategies[j])'
  <2>1. reports = <<>> /\ queue = <<>> /\ writer = "idle"
    BY <1>5 DEF Quiet
  <2>2. ASSUME NEW side \in Sides
        PROVE  Held(before', side) <= broker[side]
    <3>1. Held(before', side) = Held(book, side)
      BY <1>5, NamesAre, HeldSame
    <3>2. All(book, reports, side) + InHand(side) = broker[side]
      BY <1>2, <1>5 DEF Divided
    <3>3. moving = "no"
      BY <1>2, <1>5, SidesAre DEF Typed, Sides
    <3>4. InHand(side) = 0 /\ Added(reports, side) = 0
      BY <2>1, <3>3, AddedNone, SidesAre DEF InHand
    <3>5. book \in [Pools -> Position] /\ "common" \in Pools
      BY <1>2, NamesAre DEF Typed
    <3>6. book["common"][side] \in Nat /\ Held(book, side) \in Nat
      BY <3>5, HeldType DEF Position
    <3> QED
      BY <3>1, <3>2, <3>4, <3>6 DEF All
  <2>3. ASSUME NEW j \in 1 .. Count
        PROVE  Kept(Strategies[j])'
    <3>1. j \in 1 .. index - 1
      BY <1>2, <1>5, NamesAre DEF Phases
    <3>2. Follows(Strategies[j])
      BY <1>2, <1>5, <3>1 DEF Following
    <3>3. Now(Strategies[j]) = db[Strategies[j]]
      BY <2>1 DEF Now, NewestIn, NotQueued
    <3>4. before'[Strategies[j]] = book[Strategies[j]]
      BY <1>5, NamesAre
    <3> QED
      BY <1>1, <3>2, <3>3, <3>4 DEF Follows, Kept
  <2> QED
    BY <2>2, <2>3
<1>6. Restoring'
  <2>1. SUFFICES ASSUME clean'
                 PROVE  /\ main' # "false"
                        /\ \A side \in Sides : Held(before', side) <= broker'[side]
                        /\ \A j \in 1 .. index' - 1 : book'[Strategies[j]] = before'[Strategies[j]]
                        /\ \A j \in 1 .. Count : Kept(Strategies[j])'
                        /\ main' \notin Sides
    BY DEF Restoring
  <2>2. main = "runs" /\ before' = [p \in Names |-> book[p]] /\ Quiet
    BY <1>1, <2>1
  <2>3. /\ \A side \in Sides : Held(before', side) <= broker[side]
        /\ \A j \in 1 .. Count : Kept(Strategies[j])'
    BY <1>5, <2>2
  <2>4. \A j \in 1 .. index' - 1 : FALSE
    BY <1>1
  <2> QED
    BY <1>1, <1>3, <2>3, <2>4
<1> QED
  BY <1>4, <1>6 DEF StoreInv

LEMMA NextStore ==
  RecoveryAssumption /\ ~ SetFails /\ PoolsInv /\ StoreInv /\ [Next]_vars => StoreInv'
<1> SUFFICES ASSUME RecoveryAssumption, ~ SetFails, PoolsInv, StoreInv, [Next]_vars
             PROVE  StoreInv'
  OBVIOUS
<1>1. CASE Main
  BY <1>1, OnPositionsStore, SetPositionStore, SleptStore, GetAllPositionsStore,
     TradesStore, MoveOutStore, MoveInStore DEF Main
<1>2. CASE Writer
  BY <1>2, WriterStore DEF Writer
<1>3. CASE Exchange
  BY <1>3, TradesStore
<1>4. CASE Crash
  BY <1>4, CrashStore
<1>5. CASE UNCHANGED vars
  <2>1. UNCHANGED <<broker, main, index, loaded, book, queue,
                    writer, context, db, before, clean>>
    BY <1>5 DEF vars, store, history
  <2> QED
    BY <2>1 DEF StoreInv, Following, Follows, Moving, Half, Now, Restoring, Ahead, Kept
<1> QED
  BY <1>1, <1>2, <1>3, <1>4, <1>5 DEF Next

(* With a store that answers, it is never behind the book: the newest of a *)
(* pool on its way to it is the book's; and after a crash with nothing     *)
(* under way the OMS does start and gives each strategy the holdings it    *)
(* had, however the writer's thread is behind meanwhile (TraderDBUpdater,  *)
(* OMS::InitPositions, RecoveryStrategyPositions).                         *)
THEOREM RecoveredCorrect ==
  ASSUME RecoveryAssumption, ~ SetFails
  PROVE  Spec => [](Recovered /\ StoreFollowsBook)
<1>1. PoolsInv /\ StoreInv => Recovered /\ StoreFollowsBook
  <2> SUFFICES ASSUME PoolsInv, StoreInv PROVE Recovered /\ StoreFollowsBook
    OBVIOUS
  <2>1. Typed /\ Phases /\ Following /\ Restoring
    BY DEF PoolsInv, StoreInv
  <2>2. Recovered
    <3> SUFFICES ASSUME clean
                 PROVE  /\ main # "false"
                        /\ main = "recovered" => before = [p \in Names |-> book[p]]
      BY DEF Recovered
    <3>1. main # "false"
      BY <2>1 DEF Restoring
    <3>2. ASSUME main = "recovered"
          PROVE  before = [p \in Names |-> book[p]]
      <4>1. index = Count + 1 /\ Count \in Nat
        BY <2>1, <3>2, NamesAre DEF Phases
      <4>2. \A j \in 1 .. Count : book[Strategies[j]] = before[Strategies[j]]
        BY <2>1, <3>2, <4>1 DEF Restoring
      <4>3. \A p \in Names : book[p] = before[p]
        BY <4>2, NamesAre
      <4>4. before \in [Names -> Position]
        BY <2>1 DEF Typed
      <4> QED
        BY <4>3, <4>4
    <3> QED
      BY <3>1, <3>2
  <2>3. StoreFollowsBook
    <3> SUFFICES ASSUME main = "runs", NEW p \in Pools
                 PROVE  Newest(p) = book[p] \/ (Newest(p) = None /\ book[p] = Empty)
      BY DEF StoreFollowsBook
    <3>1. index = Count + 1 /\ Count \in Nat
      BY <2>1, NamesAre DEF Phases
    <3>2. \A j \in 1 .. Count : Follows(Strategies[j])
      BY <2>1, <3>1 DEF Following
    <3>3. Follows("common")
      BY <2>1 DEF Following
    <3>4. Follows(p)
      BY <3>2, <3>3, NamesAre
    <3>5. Newest(p) = Now(p)
      BY NewestIs DEF Now
    <3> QED
      BY <3>4, <3>5 DEF Follows
  <2> QED
    BY <2>2, <2>3
<1> QED
  BY <1>1, InitPools, NextPools, InitStore, NextStore, PTL DEF Spec

=============================================================================
