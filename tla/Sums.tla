-------------------------------- MODULE Sums --------------------------------
(***************************************************************************)
(* Sums of a function over 1 .. n, of which the counters the properties    *)
(* compare are made, and facts about them.                                 *)
(***************************************************************************)
EXTENDS Integers, WellFoundedInduction, TLAPS

(* f[1] + ... + f[n].                                                      *)
SumTo(f, n) ==
  LET S[i \in 0 .. n] == IF i = 0 THEN 0 ELSE S[i - 1] + f[i]
  IN  S[n]

-----------------------------------------------------------------------------
(* Facts about SumTo.  Induction is done on sets of naturals, from the     *)
(* well-foundedness of < on them: a set that contains 0 and the successor  *)
(* of each of its members is Nat.                                          *)

LessThan == {ss \in Nat \X Nat : ss[1] < ss[2]}

(* < is well founded on Nat; the library states it with an operator as the *)
(* relation.                                                               *)
LEMMA LessThanWellFounded == IsWellFoundedOn(LessThan, Nat)
BY NatLessThanWellFounded DEF LessThan, OpToRel

(* Induction over the naturals, for a set.                                 *)
LEMMA NatSetInduction ==
  ASSUME NEW T \in SUBSET Nat, 0 \in T, \A n \in Nat : n \in T => n + 1 \in T
  PROVE  T = Nat
<1>1. SUFFICES ASSUME Nat \ T # {} PROVE FALSE
  OBVIOUS
<1>2. PICK x \in Nat \ T : \A y \in Nat \ T : ~ (<<y, x>> \in LessThan)
  BY <1>1, LessThanWellFounded, WFMin
<1>3. x # 0 /\ x - 1 \in Nat
  BY <1>2
<1>4. <<x - 1, x>> \in LessThan
  BY <1>3 DEF LessThan
<1>5. x - 1 \in T
  BY <1>2, <1>3, <1>4
<1> QED
  BY <1>3, <1>5

-----------------------------------------------------------------------------
(* The functions of partial sums of f up to n (there is one).              *)
PartialSums(f, n) ==
  {h \in [0 .. n -> Int] : h[0] = 0 /\ \A i \in 1 .. n : h[i] = h[i - 1] + f[i]}

(* Partial sums exist up to any length.                                    *)
LEMMA PartialSumsExist ==
  ASSUME NEW N \in Nat, NEW f \in [1 .. N -> Int]
  PROVE  \E h \in PartialSums(f, N) : TRUE
<1> DEFINE T == {n \in Nat : n <= N => \E h \in PartialSums(f, n) : TRUE}
<1>1. 0 \in T
  <2>1. [i \in 0 .. 0 |-> 0] \in PartialSums(f, 0)
    BY DEF PartialSums
  <2> QED
    BY <2>1
<1>2. ASSUME NEW n \in Nat, n \in T
      PROVE  n + 1 \in T
  <2>1. SUFFICES ASSUME n + 1 <= N
                 PROVE  \E h \in PartialSums(f, n + 1) : TRUE
    OBVIOUS
  <2>2. PICK h \in PartialSums(f, n) : TRUE
    BY <1>2, <2>1
  <2> DEFINE g == [i \in 0 .. n + 1 |-> IF i = n + 1 THEN h[n] + f[n + 1] ELSE h[i]]
  <2>3. h \in [0 .. n -> Int] /\ h[0] = 0 /\ \A i \in 1 .. n : h[i] = h[i - 1] + f[i]
    BY <2>2 DEF PartialSums
  <2>4. f[n + 1] \in Int /\ h[n] \in Int
    BY <2>1, <2>3
  <2>5. g \in [0 .. n + 1 -> Int] /\ g[0] = 0
    BY <2>3, <2>4
  <2>6. ASSUME NEW i \in 1 .. n + 1 PROVE g[i] = g[i - 1] + f[i]
    BY <2>3
  <2>7. g \in PartialSums(f, n + 1)
    BY <2>5, <2>6 DEF PartialSums
  <2> QED
    BY <2>7
<1>3. T = Nat
  <2> HIDE DEF T
  <2>1. T \in SUBSET Nat
    BY DEF T
  <2> QED
    BY <1>1, <1>2, <2>1, NatSetInduction
<1> QED
  BY <1>3

(* SumTo is the last of the partial sums.                                  *)
LEMMA SumToIsPartialSum ==
  ASSUME NEW N \in Nat, NEW f \in [1 .. N -> Int]
  PROVE  \E h \in PartialSums(f, N) : SumTo(f, N) = h[N]
<1> DEFINE Eqn(S) == S = [i \in 0 .. N |-> IF i = 0 THEN 0 ELSE S[i - 1] + f[i]]
<1>1. PICK h \in PartialSums(f, N) : TRUE
  BY PartialSumsExist
<1>2. h \in [0 .. N -> Int] /\ h[0] = 0 /\ \A i \in 1 .. N : h[i] = h[i - 1] + f[i]
  BY <1>1 DEF PartialSums
<1>3. Eqn(h)
  BY <1>2
<1>4. Eqn(CHOOSE S : Eqn(S))
  <2> HIDE DEF Eqn
  <2> QED
    BY <1>3
<1> DEFINE c == CHOOSE S : Eqn(S)
<1>5. SumTo(f, N) = c[N]
  BY DEF SumTo
<1>6. c = [i \in 0 .. N |-> IF i = 0 THEN 0 ELSE c[i - 1] + f[i]]
  BY <1>4
<1> HIDE DEF c
<1> DEFINE T == {n \in Nat : n <= N => c[n] = h[n]}
<1>7. 0 \in T
  BY <1>2, <1>6
<1>8. ASSUME NEW n \in Nat, n \in T
      PROVE  n + 1 \in T
  <2>1. SUFFICES ASSUME n + 1 <= N PROVE c[n + 1] = h[n + 1]
    OBVIOUS
  <2>2. c[n] = h[n]
    BY <1>8, <2>1
  <2>3. c[n + 1] = c[n] + f[n + 1]
    BY <1>6, <2>1
  <2> QED
    BY <1>2, <2>1, <2>2, <2>3
<1>9. T = Nat
  <2> HIDE DEF T
  <2>1. T \in SUBSET Nat
    BY DEF T
  <2> QED
    BY <1>7, <1>8, <2>1, NatSetInduction
<1> QED
  BY <1>1, <1>5, <1>9

(* A sum of integers is an integer.                                        *)
LEMMA SumToInt ==
  ASSUME NEW N \in Nat, NEW f \in [1 .. N -> Int]
  PROVE  SumTo(f, N) \in Int
BY SumToIsPartialSum DEF PartialSums

(* Changing one term changes the sum by as much.                           *)
LEMMA SumToUpdate ==
  ASSUME NEW N \in Nat, NEW f \in [1 .. N -> Int], NEW g \in [1 .. N -> Int],
         NEW k \in 1 .. N, \A i \in 1 .. N : i # k => g[i] = f[i]
  PROVE  SumTo(g, N) = SumTo(f, N) + (g[k] - f[k])
<1>1. PICK a \in PartialSums(f, N) : SumTo(f, N) = a[N]
  BY SumToIsPartialSum
<1>2. PICK b \in PartialSums(g, N) : SumTo(g, N) = b[N]
  BY SumToIsPartialSum
<1>3. a \in [0 .. N -> Int] /\ a[0] = 0 /\ \A i \in 1 .. N : a[i] = a[i - 1] + f[i]
  BY <1>1 DEF PartialSums
<1>4. b \in [0 .. N -> Int] /\ b[0] = 0 /\ \A i \in 1 .. N : b[i] = b[i - 1] + g[i]
  BY <1>2 DEF PartialSums
<1> DEFINE T == {n \in Nat : n <= N => b[n] = a[n] + (IF n >= k THEN g[k] - f[k] ELSE 0)}
<1>5. 0 \in T
  BY <1>3, <1>4
<1>6. ASSUME NEW n \in Nat, n \in T
      PROVE  n + 1 \in T
  <2>1. SUFFICES ASSUME n + 1 <= N
        PROVE  b[n + 1] = a[n + 1] + (IF n + 1 >= k THEN g[k] - f[k] ELSE 0)
    OBVIOUS
  <2>2. b[n] = a[n] + (IF n >= k THEN g[k] - f[k] ELSE 0)
    BY <1>6, <2>1
  <2>3. b[n + 1] = b[n] + g[n + 1] /\ a[n + 1] = a[n] + f[n + 1]
    BY <1>3, <1>4, <2>1
  <2>4. a[n] \in Int /\ b[n] \in Int
    <3>1. n \in 0 .. N
      BY <2>1
    <3> QED
      BY <1>3, <1>4, <3>1
  <2>7. f[n + 1] \in Int /\ g[n + 1] \in Int
    <3>1. n + 1 \in 1 .. N
      BY <2>1
    <3> QED
      BY <3>1
  <2>5. CASE n + 1 = k
    <3>1. ~ (n >= k) /\ n + 1 >= k
      BY <2>5
    <3>2. b[n + 1] = a[n] + g[n + 1] /\ a[n + 1] = a[n] + f[n + 1]
      BY <2>2, <2>3, <2>4, <3>1
    <3>3. b[n + 1] = a[n + 1] + (g[n + 1] - f[n + 1])
      BY <2>4, <2>7, <3>2
    <3> QED
      BY <2>5, <3>1, <3>3
  <2>6. CASE n + 1 # k
    <3>1. g[n + 1] = f[n + 1]
      BY <2>1, <2>6
    <3> QED
      BY SMTT(30), <2>2, <2>3, <2>4, <2>7, <2>6, <3>1
  <2> QED
    BY <2>5, <2>6
<1>7. T = Nat
  <2> HIDE DEF T
  <2>1. T \in SUBSET Nat
    BY DEF T
  <2> QED
    BY <1>5, <1>6, <2>1, NatSetInduction
<1>8. b[N] = a[N] + (g[k] - f[k])
  BY <1>7
<1> QED
  BY <1>1, <1>2, <1>8

(* A sum of zeros is zero.                                                 *)
LEMMA SumToZero ==
  ASSUME NEW N \in Nat, NEW f \in [1 .. N -> Int], \A i \in 1 .. N : f[i] = 0
  PROVE  SumTo(f, N) = 0
<1>1. PICK a \in PartialSums(f, N) : SumTo(f, N) = a[N]
  BY SumToIsPartialSum
<1>2. a \in [0 .. N -> Int] /\ a[0] = 0 /\ \A i \in 1 .. N : a[i] = a[i - 1] + f[i]
  BY <1>1 DEF PartialSums
<1> DEFINE T == {n \in Nat : n <= N => a[n] = 0}
<1>3. 0 \in T
  BY <1>2
<1>4. ASSUME NEW n \in Nat, n \in T PROVE n + 1 \in T
  <2>1. SUFFICES ASSUME n + 1 <= N PROVE a[n + 1] = 0
    OBVIOUS
  <2>2. a[n] = 0 /\ a[n + 1] = a[n] + f[n + 1]
    BY <1>2, <1>4, <2>1
  <2> QED
    BY <2>1, <2>2
<1>5. T = Nat
  <2> HIDE DEF T
  <2>1. T \in SUBSET Nat
    BY DEF T
  <2> QED
    BY <1>3, <1>4, <2>1, NatSetInduction
<1> QED
  BY <1>1, <1>5

(* A sum of naturals is a natural.                                         *)
LEMMA SumToNat ==
  ASSUME NEW N \in Nat, NEW f \in [1 .. N -> Int], \A i \in 1 .. N : f[i] >= 0
  PROVE  SumTo(f, N) \in Nat
<1>1. PICK a \in PartialSums(f, N) : SumTo(f, N) = a[N]
  BY SumToIsPartialSum
<1>2. a \in [0 .. N -> Int] /\ a[0] = 0 /\ \A i \in 1 .. N : a[i] = a[i - 1] + f[i]
  BY <1>1 DEF PartialSums
<1> DEFINE T == {n \in Nat : n <= N => a[n] \in Nat}
<1>3. 0 \in T
  BY <1>2
<1>4. ASSUME NEW n \in Nat, n \in T PROVE n + 1 \in T
  <2>1. SUFFICES ASSUME n + 1 <= N PROVE a[n + 1] \in Nat
    OBVIOUS
  <2>2. a[n] \in Nat /\ a[n + 1] = a[n] + f[n + 1] /\ f[n + 1] \in Nat
    BY <1>2, <1>4, <2>1
  <2> QED
    BY <2>2
<1>5. T = Nat
  <2> HIDE DEF T
  <2>1. T \in SUBSET Nat
    BY DEF T
  <2> QED
    BY <1>3, <1>4, <2>1, NatSetInduction
<1> QED
  BY <1>1, <1>5

(* One more term at the end adds to the sum.                               *)
LEMMA SumToExtend ==
  ASSUME NEW N \in Nat, NEW f \in [1 .. N -> Int], NEW g \in [1 .. N + 1 -> Int],
         \A i \in 1 .. N : g[i] = f[i]
  PROVE  SumTo(g, N + 1) = SumTo(f, N) + g[N + 1]
<1>1. PICK a \in PartialSums(f, N) : SumTo(f, N) = a[N]
  BY SumToIsPartialSum
<1>2. PICK b \in PartialSums(g, N + 1) : SumTo(g, N + 1) = b[N + 1]
  <2>1. N + 1 \in Nat
    OBVIOUS
  <2> QED
    BY <2>1, SumToIsPartialSum, SMTT(30)
<1>3. a \in [0 .. N -> Int] /\ a[0] = 0 /\ \A i \in 1 .. N : a[i] = a[i - 1] + f[i]
  BY <1>1 DEF PartialSums
<1>4. b \in [0 .. N + 1 -> Int] /\ b[0] = 0 /\ \A i \in 1 .. N + 1 : b[i] = b[i - 1] + g[i]
  BY <1>2 DEF PartialSums
<1> DEFINE T == {n \in Nat : n <= N => b[n] = a[n]}
<1>5. 0 \in T
  BY <1>3, <1>4
<1>6. ASSUME NEW n \in Nat, n \in T PROVE n + 1 \in T
  <2>1. SUFFICES ASSUME n + 1 <= N PROVE b[n + 1] = a[n + 1]
    OBVIOUS
  <2>2. n + 1 \in 1 .. N /\ n + 1 \in 1 .. N + 1 /\ (n + 1) - 1 = n
    BY <2>1
  <2>3. b[n] = a[n]
    BY <1>6, <2>1
  <2>4. b[n + 1] = b[n] + g[n + 1] /\ a[n + 1] = a[n] + f[n + 1] /\ g[n + 1] = f[n + 1]
    BY <1>3, <1>4, <2>2
  <2> QED
    BY <2>3, <2>4
<1>7. T = Nat
  <2> HIDE DEF T
  <2>1. T \in SUBSET Nat
    BY DEF T
  <2> QED
    BY <1>5, <1>6, <2>1, NatSetInduction
<1>8. b[N] = a[N]
  BY <1>7
<1>9. b[N + 1] = b[N] + g[N + 1]
  <2>1. N + 1 \in 1 .. N + 1 /\ (N + 1) - 1 = N
    OBVIOUS
  <2> QED
    BY <1>4, <2>1
<1> QED
  BY <1>1, <1>2, <1>8, <1>9

(* A sum is its first term and the sum of the others.                      *)
LEMMA SumToShift ==
  ASSUME NEW N \in Nat, NEW f \in [1 .. N -> Int], NEW g \in [1 .. N + 1 -> Int],
         \A i \in 1 .. N : f[i] = g[i + 1]
  PROVE  SumTo(g, N + 1) = g[1] + SumTo(f, N)
<1>1. PICK a \in PartialSums(f, N) : SumTo(f, N) = a[N]
  BY SumToIsPartialSum
<1>2. PICK b \in PartialSums(g, N + 1) : SumTo(g, N + 1) = b[N + 1]
  <2>1. N + 1 \in Nat
    OBVIOUS
  <2> QED
    BY <2>1, SumToIsPartialSum, SMTT(30)
<1>3. a \in [0 .. N -> Int] /\ a[0] = 0 /\ \A i \in 1 .. N : a[i] = a[i - 1] + f[i]
  BY <1>1 DEF PartialSums
<1>4. b \in [0 .. N + 1 -> Int] /\ b[0] = 0 /\ \A i \in 1 .. N + 1 : b[i] = b[i - 1] + g[i]
  BY <1>2 DEF PartialSums
<1>5. g[1] \in Int /\ b[1] = g[1]
  <2>1. 1 \in 1 .. N + 1
    OBVIOUS
  <2> QED
    BY <1>4, <2>1
<1> DEFINE T == {n \in Nat : n <= N => b[n + 1] = g[1] + a[n]}
<1>6. 0 \in T
  BY <1>3, <1>5
<1>7. ASSUME NEW n \in Nat, n \in T PROVE n + 1 \in T
  <2>1. SUFFICES ASSUME n + 1 <= N PROVE b[(n + 1) + 1] = g[1] + a[n + 1]
    OBVIOUS
  <2>2. /\ n + 1 \in 1 .. N /\ (n + 1) + 1 \in 1 .. N + 1 /\ n \in 0 .. N
        /\ ((n + 1) + 1) - 1 = n + 1 /\ (n + 1) - 1 = n
    BY <2>1
  <2>3. b[n + 1] = g[1] + a[n]
    BY <1>7, <2>1
  <2>4. b[(n + 1) + 1] = b[n + 1] + g[(n + 1) + 1] /\ a[n + 1] = a[n] + f[n + 1]
    BY <1>3, <1>4, <2>2
  <2>5. f[n + 1] = g[(n + 1) + 1] /\ f[n + 1] \in Int /\ a[n] \in Int
    BY <1>3, <2>2
  <2> QED
    BY <1>5, <2>3, <2>4, <2>5
<1>8. T = Nat
  <2> HIDE DEF T
  <2>1. T \in SUBSET Nat
    BY DEF T
  <2> QED
    BY <1>6, <1>7, <2>1, NatSetInduction
<1>9. b[N + 1] = g[1] + a[N]
  BY <1>8
<1> QED
  BY <1>1, <1>2, <1>9

=============================================================================
