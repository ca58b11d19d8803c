--------------------------- MODULE GatewayProofs ----------------------------
(***************************************************************************)
(* Theorems about the gateways for every value of their constants: what    *)
(* CtpTradeApi and XtpTradeApi report to the OMS adds up to the lives of   *)
(* the broker's orders, and a report with the id of an order is about it.  *)
(* This is what Oms takes for granted of its exchange.  Of StubGateway:    *)
(* what a strategy hears of an order, and how long the OMS keeps it.       *)
(***************************************************************************)
EXTENDS Broker, SequenceTheorems

CONSTANTS
  CancelOutstanding, Leftovers, MaxWire,  \* of both modules
  MaxDrops,                               \* of XtpTradeApi
  MaxDisconnects, RefModulus,             \* of CtpTradeApi
  MaxCancels, Tickers                     \* of StubGateway

VARIABLES
  loginCall, status, session, nextId, asked, wire, orders, told,
  library,                                \* of XtpTradeApi
  base, front,                            \* of CtpTradeApi
  sent, order_map, cancels, rsp_rb, heard, running, tick, logout  \* of StubGateway

Xtp == INSTANCE XtpTradeApi
Ctp == INSTANCE CtpTradeApi
Stub == INSTANCE StubGateway

-----------------------------------------------------------------------------
(* Reports and the lives of orders, whatever the gateway: t are the        *)
(* reports told, w what the messages under way will be told as, o the      *)
(* broker's orders.                                                        *)

Counts(r) == r.kind \in {"traded", "canceled", "rejected"}

ReportSound(r, o) ==
  Counts(r) =>
    /\ r.about \in DOMAIN o
    /\ r.kind = "traded" => r.volume \in Nat
    /\ r.kind = "canceled" =>
         o[r.about].state = "canceled" /\ r.volume = Volume - o[r.about].traded
    /\ r.kind = "rejected" => o[r.about].state = "rejected" /\ o[r.about].traded = 0

(* No report of q about order k is its end.                                *)
NoEnd(q, k) == \A i \in DOMAIN q : Ends(q[i]) => q[i].about # k

OneEnd(q) ==
  \A i, j \in DOMAIN q : Ends(q[i]) /\ Ends(q[j]) /\ q[i].about = q[j].about => i = j

OrdersSound(o) ==
  \A k \in DOMAIN o : o[k].traded \in Nat /\ (o[k].state = "sent" => o[k].traded = 0)

Sound(t, w, o) ==
  /\ OrdersSound(o)
  /\ \A i \in DOMAIN t : ReportSound(t[i], o)
  /\ \A i \in DOMAIN w : ReportSound(w[i], o)
  /\ OneEnd(t) /\ OneEnd(w)
  /\ \A i \in DOMAIN t : Ends(t[i]) => NoEnd(w, t[i].about)
  /\ \A k \in DOMAIN o : VolumeOf(t, k) + VolumeOf(w, k) <= o[k].traded

VolumesNat(q) == \A i \in DOMAIN q : q[i].kind = "traded" => q[i].volume \in Nat

(* The terms of a volume are naturals.                                     *)
LEMMA VolumeTerms ==
  ASSUME NEW S, NEW q \in Seq(S), VolumesNat(q), NEW k
  PROVE  /\ Len(q) \in Nat /\ DOMAIN q = 1 .. Len(q)
         /\ [i \in 1 .. Len(q) |-> TradeOf(q[i], k)] \in [1 .. Len(q) -> Int]
         /\ \A i \in 1 .. Len(q) : TradeOf(q[i], k) \in Nat
<1>1. Len(q) \in Nat /\ DOMAIN q = 1 .. Len(q)
  OBVIOUS
<1>2. ASSUME NEW i \in 1 .. Len(q) PROVE TradeOf(q[i], k) \in Nat
  BY <1>1 DEF VolumesNat, TradeOf
<1> QED
  BY <1>1, <1>2

(* A volume is a natural.                                                  *)
LEMMA VolumeType ==
  ASSUME NEW S, NEW q \in Seq(S), VolumesNat(q), NEW k
  PROVE  VolumeOf(q, k) \in Nat
<1> DEFINE f == [i \in 1 .. Len(q) |-> TradeOf(q[i], k)]
<1>1. Len(q) \in Nat /\ f \in [1 .. Len(q) -> Int]
  BY VolumeTerms
<1>2. \A i \in 1 .. Len(q) : f[i] >= 0
  <2>1. \A i \in 1 .. Len(q) : TradeOf(q[i], k) \in Nat
    BY VolumeTerms
  <2> QED
    BY <2>1
<1>3. VolumeOf(q, k) = SumTo(f, Len(q))
  BY DEF VolumeOf
<1> HIDE DEF f
<1> QED
  BY <1>1, <1>2, <1>3, SumToNat

(* Reports about other orders have no volume of this one.                  *)
LEMMA VolumeNone ==
  ASSUME NEW S, NEW q \in Seq(S), VolumesNat(q), NEW k,
         \A i \in DOMAIN q : q[i].kind = "traded" => q[i].about # k
  PROVE  VolumeOf(q, k) = 0
<1> DEFINE f == [i \in 1 .. Len(q) |-> TradeOf(q[i], k)]
<1>1. Len(q) \in Nat /\ f \in [1 .. Len(q) -> Int] /\ DOMAIN q = 1 .. Len(q)
  BY VolumeTerms
<1>2. \A i \in 1 .. Len(q) : f[i] = 0
  BY <1>1 DEF TradeOf
<1>3. VolumeOf(q, k) = SumTo(f, Len(q))
  BY DEF VolumeOf
<1> HIDE DEF f
<1> QED
  BY <1>1, <1>2, <1>3, SumToZero

(* No reports, no volume.                                                  *)
LEMMA VolumeEmpty ==
  ASSUME NEW k
  PROVE  VolumeOf(<<>>, k) = 0
<1>1. <<>> \in Seq({0}) /\ DOMAIN <<>> = {}
  OBVIOUS
<1>2. VolumesNat(<<>>)
  BY <1>1 DEF VolumesNat
<1>3. \A i \in DOMAIN <<>> : <<>>[i].kind = "traded" => <<>>[i].about # k
  BY <1>1
<1> QED
  BY <1>1, <1>2, <1>3, VolumeNone

(* One more report adds what it says was traded.                           *)
LEMMA VolumeAppend ==
  ASSUME NEW S, NEW q \in Seq(S), NEW r \in S, VolumesNat(q),
         r.kind = "traded" => r.volume \in Nat, NEW k
  PROVE  /\ VolumesNat(Append(q, r))
         /\ VolumeOf(Append(q, r), k) = VolumeOf(q, k) + TradeOf(r, k)
<1>1. PICK p : p = Append(q, r)
  OBVIOUS
<1>2. /\ p \in Seq(S) /\ Len(p) = Len(q) + 1 /\ p[Len(q) + 1] = r
      /\ DOMAIN p = 1 .. Len(q) + 1 /\ Len(q) \in Nat
      /\ \A i \in 1 .. Len(q) : p[i] = q[i]
  BY <1>1, AppendProperties
<1>3. VolumesNat(p)
  BY <1>2 DEF VolumesNat
<1> DEFINE f == [i \in 1 .. Len(q) |-> TradeOf(q[i], k)]
           g == [i \in 1 .. Len(p) |-> TradeOf(p[i], k)]
<1>4. f \in [1 .. Len(q) -> Int] /\ g \in [1 .. Len(p) -> Int]
  BY <1>2, <1>3, VolumeTerms
<1>5. VolumeOf(q, k) = SumTo(f, Len(q)) /\ VolumeOf(p, k) = SumTo(g, Len(p))
  BY DEF VolumeOf
<1>6. (\A i \in 1 .. Len(q) : g[i] = f[i]) /\ g[Len(q) + 1] = TradeOf(r, k)
  BY <1>2
<1> HIDE DEF f, g
<1>7. SumTo(g, Len(q) + 1) = SumTo(f, Len(q)) + g[Len(q) + 1]
  BY <1>2, <1>4, <1>6, SumToExtend
<1> QED
  BY <1>1, <1>2, <1>3, <1>5, <1>6, <1>7

(* The first report's volume and that of the rest.                         *)
LEMMA VolumeTail ==
  ASSUME NEW S, NEW q \in Seq(S), q # <<>>, VolumesNat(q), NEW k
  PROVE  /\ VolumesNat(Tail(q)) /\ TradeOf(Head(q), k) \in Nat
         /\ VolumeOf(q, k) = TradeOf(Head(q), k) + VolumeOf(Tail(q), k)
<1>1. PICK p : p = Tail(q)
  OBVIOUS
<1>2. /\ p \in Seq(S) /\ Len(p) = Len(q) - 1 /\ Len(p) \in Nat /\ Head(q) = q[1]
      /\ DOMAIN p = 1 .. Len(p) /\ Len(q) = Len(p) + 1
      /\ \A i \in 1 .. Len(p) : p[i] = q[i + 1]
  BY <1>1, HeadTailProperties
<1>3. VolumesNat(p)
  <2>1. \A i \in 1 .. Len(p) : i + 1 \in DOMAIN q
    BY <1>2
  <2> QED
    BY <1>2, <2>1 DEF VolumesNat
<1> DEFINE f == [i \in 1 .. Len(p) |-> TradeOf(p[i], k)]
           g == [i \in 1 .. Len(q) |-> TradeOf(q[i], k)]
<1>4. f \in [1 .. Len(p) -> Int] /\ g \in [1 .. Len(q) -> Int]
  BY <1>2, <1>3, VolumeTerms
<1>5. VolumeOf(p, k) = SumTo(f, Len(p)) /\ VolumeOf(q, k) = SumTo(g, Len(q))
  BY DEF VolumeOf
<1>6. (\A i \in 1 .. Len(p) : f[i] = g[i + 1]) /\ g[1] = TradeOf(Head(q), k)
  BY <1>2
<1>7. TradeOf(Head(q), k) \in Nat
  <2>1. 1 \in 1 .. Len(q) /\ Head(q) = q[1]
    BY <1>2
  <2>2. TradeOf(q[1], k) \in Nat
    BY <2>1, VolumeTerms
  <2> QED
    BY <2>1, <2>2
<1> HIDE DEF f, g
<1>8. SumTo(g, Len(p) + 1) = g[1] + SumTo(f, Len(p))
  BY <1>2, <1>4, <1>6, SumToShift
<1> QED
  BY <1>1, <1>2, <1>3, <1>5, <1>6, <1>7, <1>8

-----------------------------------------------------------------------------
(* What each kind of step does to Sound.                                   *)

(* The volumes of sound reports are naturals.                              *)
LEMMA SoundVolumes ==
  ASSUME NEW t, NEW w, NEW o, Sound(t, w, o)
  PROVE  VolumesNat(t) /\ VolumesNat(w)
BY DEF Sound, ReportSound, Counts, VolumesNat

(* A message is told as what it says.                                      *)
LEMMA SoundTake ==
  ASSUME NEW S, NEW t \in Seq(S), NEW R, NEW w \in Seq(R), NEW o, NEW r \in S,
         Sound(t, w, o), w # <<>>, Counts(r), r.kind = Head(w).kind,
         r.volume = Head(w).volume, r.about = Head(w).about
  PROVE  Sound(Append(t, r), Tail(w), o)
<1>1. PICK u : u = Append(t, r)
  OBVIOUS
<1>2. PICK p : p = Tail(w)
  OBVIOUS
<1>3. PICK n : n = Len(t) + 1
  OBVIOUS
<1>4. /\ DOMAIN u = 1 .. n /\ DOMAIN t = 1 .. n - 1 /\ n \in Nat
      /\ u[n] = r /\ \A i \in DOMAIN t : u[i] = t[i]
  BY <1>1, <1>3, AppendProperties
<1>5. /\ DOMAIN p = 1 .. Len(w) - 1 /\ DOMAIN w = 1 .. Len(w) /\ Len(w) \in Nat \ {0}
      /\ Head(w) = w[1] /\ \A i \in DOMAIN p : p[i] = w[i + 1] /\ i + 1 \in DOMAIN w
  BY <1>2, HeadTailProperties
<1>6. 1 \in DOMAIN w /\ ReportSound(w[1], o)
  BY <1>5 DEF Sound
<1>7. ReportSound(r, o)
  BY <1>5, <1>6 DEF ReportSound, Counts
<1>8. \A i \in DOMAIN u : ReportSound(u[i], o)
  BY <1>4, <1>7 DEF Sound
<1>9. \A i \in DOMAIN p : ReportSound(p[i], o)
  BY <1>5 DEF Sound
<1>10. Ends(r) <=> Ends(w[1])
  BY <1>5 DEF Ends
<1>11. \A i \in DOMAIN t : Ends(t[i]) /\ Ends(r) => t[i].about # r.about
  BY <1>5, <1>6, <1>10 DEF Sound, NoEnd
<1>12. OneEnd(u)
  BY <1>4, <1>11 DEF Sound, OneEnd
<1>13. OneEnd(p)
  <2>1. SUFFICES ASSUME NEW i \in DOMAIN p, NEW j \in DOMAIN p, Ends(p[i]), Ends(p[j]),
                        p[i].about = p[j].about
                 PROVE  i = j
    BY DEF OneEnd
  <2>2. i + 1 = j + 1
    BY <1>5, <2>1 DEF Sound, OneEnd
  <2> QED
    BY <1>5, <2>2
<1>14. \A i \in DOMAIN u : Ends(u[i]) => NoEnd(p, u[i].about)
  <2>1. SUFFICES ASSUME NEW i \in DOMAIN u, Ends(u[i]), NEW j \in DOMAIN p, Ends(p[j])
                 PROVE  p[j].about # u[i].about
    BY DEF NoEnd
  <2>2. p[j] = w[j + 1] /\ j + 1 \in DOMAIN w /\ j + 1 # 1
    BY <1>5
  <2>3. CASE i = n
    <3>1. Ends(w[1]) /\ Ends(w[j + 1]) /\ u[i].about = w[1].about
      BY <1>4, <1>5, <1>10, <2>1, <2>2, <2>3
    <3> QED
      BY <1>6, <2>2, <3>1 DEF Sound, OneEnd
  <2>4. CASE i # n
    <3>1. i \in DOMAIN t /\ u[i] = t[i]
      BY <1>4, <2>4
    <3> QED
      BY <2>1, <2>2, <3>1 DEF Sound, NoEnd
  <2> QED
    BY <2>3, <2>4
<1>15. VolumesNat(t) /\ VolumesNat(w) /\ (r.kind = "traded" => r.volume \in Nat)
  BY <1>7, SoundVolumes DEF ReportSound, Counts
<1>16. ASSUME NEW k \in DOMAIN o PROVE VolumeOf(u, k) + VolumeOf(p, k) <= o[k].traded
  <2>1. VolumeOf(u, k) = VolumeOf(t, k) + TradeOf(r, k)
    BY <1>1, <1>15, VolumeAppend
  <2>2. VolumeOf(w, k) = TradeOf(Head(w), k) + VolumeOf(p, k) /\ VolumesNat(p)
    BY <1>2, <1>15, VolumeTail
  <2>3. TradeOf(r, k) = TradeOf(Head(w), k)
    BY DEF TradeOf
  <2>4. TradeOf(Head(w), k) \in Nat
    BY <1>15, VolumeTail
  <2>5. VolumeOf(t, k) \in Nat /\ VolumeOf(p, k) \in Nat
    <3>1. p \in Seq(R)
      BY <1>2, HeadTailProperties
    <3> QED
      BY <1>15, <2>2, <3>1, VolumeType
  <2>6. VolumeOf(t, k) + VolumeOf(w, k) <= o[k].traded
    BY DEF Sound
  <2> QED
    BY <2>1, <2>2, <2>3, <2>4, <2>5, <2>6
<1> QED
  BY <1>1, <1>2, <1>8, <1>9, <1>12, <1>13, <1>14, <1>16 DEF Sound

(* A message is dropped.                                                   *)
LEMMA SoundSkip ==
  ASSUME NEW S, NEW t \in Seq(S), NEW R, NEW w \in Seq(R), NEW o,
         Sound(t, w, o), w # <<>>
  PROVE  Sound(t, Tail(w), o)
<1>1. PICK p : p = Tail(w)
  OBVIOUS
<1>2. /\ DOMAIN p = 1 .. Len(w) - 1 /\ DOMAIN w = 1 .. Len(w) /\ Len(w) \in Nat \ {0}
      /\ \A i \in DOMAIN p : p[i] = w[i + 1] /\ i + 1 \in DOMAIN w
  BY <1>1, HeadTailProperties
<1>3. \A i \in DOMAIN p : ReportSound(p[i], o)
  BY <1>2 DEF Sound
<1>4. OneEnd(p)
  <2>1. SUFFICES ASSUME NEW i \in DOMAIN p, NEW j \in DOMAIN p, Ends(p[i]), Ends(p[j]),
                        p[i].about = p[j].about
                 PROVE  i = j
    BY DEF OneEnd
  <2>2. i + 1 = j + 1
    BY <1>2, <2>1 DEF Sound, OneEnd
  <2> QED
    BY <1>2, <2>2
<1>5. \A i \in DOMAIN t : Ends(t[i]) => NoEnd(p, t[i].about)
  BY <1>2 DEF Sound, NoEnd
<1>6. ASSUME NEW k \in DOMAIN o PROVE VolumeOf(t, k) + VolumeOf(p, k) <= o[k].traded
  <2>1. VolumesNat(t) /\ VolumesNat(w)
    BY SoundVolumes
  <2>2. /\ VolumeOf(w, k) = TradeOf(Head(w), k) + VolumeOf(p, k) /\ VolumesNat(p)
        /\ TradeOf(Head(w), k) \in Nat
    BY <1>1, <2>1, VolumeTail
  <2>3. VolumeOf(t, k) \in Nat /\ VolumeOf(p, k) \in Nat
    <3>1. p \in Seq(R)
      BY <1>1, HeadTailProperties
    <3> QED
      BY <2>1, <2>2, <3>1, VolumeType
  <2>4. o[k].traded \in Nat /\ VolumeOf(t, k) + VolumeOf(w, k) <= o[k].traded
    BY DEF Sound, OrdersSound
  <2> QED
    BY <2>2, <2>3, <2>4
<1> QED
  BY <1>1, <1>3, <1>4, <1>5, <1>6 DEF Sound

(* A report of which nothing is counted.                                   *)
LEMMA SoundMention ==
  ASSUME NEW S, NEW t \in Seq(S), NEW w, NEW o, NEW r \in S, Sound(t, w, o), ~ Counts(r)
  PROVE  Sound(Append(t, r), w, o)
<1>1. PICK u : u = Append(t, r)
  OBVIOUS
<1>2. PICK n : n = Len(t) + 1
  OBVIOUS
<1>3. /\ DOMAIN u = 1 .. n /\ DOMAIN t = 1 .. n - 1 /\ n \in Nat
      /\ u[n] = r /\ \A i \in DOMAIN t : u[i] = t[i]
  BY <1>1, <1>2, AppendProperties
<1>4. ~ Ends(r) /\ r.kind # "traded" /\ ReportSound(r, o)
  BY DEF Ends, Counts, ReportSound
<1>5. \A i \in DOMAIN u : ReportSound(u[i], o)
  BY <1>3, <1>4 DEF Sound
<1>6. \A i \in DOMAIN u : Ends(u[i]) => i \in DOMAIN t /\ u[i] = t[i]
  BY <1>3, <1>4
<1>7. OneEnd(u) /\ \A i \in DOMAIN u : Ends(u[i]) => NoEnd(w, u[i].about)
  BY <1>6 DEF Sound, OneEnd
<1>8. ASSUME NEW k \in DOMAIN o PROVE VolumeOf(u, k) = VolumeOf(t, k)
  <2>1. VolumesNat(t)
    BY SoundVolumes
  <2>2. VolumeOf(u, k) = VolumeOf(t, k) + TradeOf(r, k) /\ TradeOf(r, k) = 0
    BY <1>1, <1>4, <2>1, VolumeAppend DEF TradeOf
  <2>3. VolumeOf(t, k) \in Nat
    BY <2>1, VolumeType
  <2> QED
    BY <2>2, <2>3
<1> QED
  BY <1>1, <1>5, <1>7, <1>8 DEF Sound

(* The messages under way are lost.                                        *)
LEMMA SoundLose ==
  ASSUME NEW S, NEW t \in Seq(S), NEW R, NEW w \in Seq(R), NEW o, Sound(t, w, o)
  PROVE  Sound(t, <<>>, o)
<1>1. DOMAIN <<>> = {}
  OBVIOUS
<1>2. OneEnd(<<>>) /\ \A k : NoEnd(<<>>, k)
  BY <1>1 DEF OneEnd, NoEnd
<1>3. ASSUME NEW k \in DOMAIN o PROVE VolumeOf(t, k) + VolumeOf(<<>>, k) <= o[k].traded
  <2>1. VolumeOf(t, k) \in Nat /\ VolumeOf(w, k) \in Nat
    BY SoundVolumes, VolumeType
  <2>2. o[k].traded \in Nat /\ VolumeOf(t, k) + VolumeOf(w, k) <= o[k].traded
    BY DEF Sound, OrdersSound
  <2> QED
    BY <2>1, <2>2, VolumeEmpty
<1> QED
  BY <1>1, <1>2, <1>3 DEF Sound

(* An order that is alive has no end, told or under way.                   *)
LEMMA AliveHasNoEnd ==
  ASSUME NEW t, NEW w, NEW o, Sound(t, w, o), NEW k \in DOMAIN o, Alive(o[k])
  PROVE  NoEnd(t, k) /\ NoEnd(w, k)
<1>1. o[k].state # "canceled" /\ o[k].state # "rejected"
  BY DEF Alive
<1>2. \A r : ReportSound(r, o) /\ Ends(r) => r.about # k
  BY <1>1 DEF ReportSound, Counts, Ends
<1> QED
  BY <1>2 DEF Sound, NoEnd

(* What the broker does to an order while it is alive, and orders that     *)
(* arrive, leave the reports right.                                        *)
OrdersMove(o, p) ==
  /\ DOMAIN o \subseteq DOMAIN p
  /\ \A k \in DOMAIN o :
       \/ p[k].state = o[k].state /\ p[k].traded = o[k].traded
       \/ Alive(o[k]) /\ p[k].traded >= o[k].traded

LEMMA SoundOrders ==
  ASSUME NEW S, NEW t \in Seq(S), NEW R, NEW w \in Seq(R), NEW o, NEW p,
         Sound(t, w, o), OrdersSound(p), OrdersMove(o, p)
  PROVE  Sound(t, w, p)
<1>1. ASSUME NEW r, ReportSound(r, o) PROVE ReportSound(r, p)
  <2>1. SUFFICES ASSUME Counts(r) PROVE ReportSound(r, p)
    BY DEF ReportSound
  <2>2. r.about \in DOMAIN o /\ r.about \in DOMAIN p
    BY <1>1, <2>1 DEF ReportSound, OrdersMove
  <2>3. CASE r.kind = "traded"
    BY <1>1, <2>1, <2>2, <2>3 DEF ReportSound
  <2>4. CASE r.kind \in {"canceled", "rejected"}
    <3>1. o[r.about].state \in {"canceled", "rejected"}
      BY <1>1, <2>1, <2>4 DEF ReportSound
    <3>2. p[r.about].state = o[r.about].state /\ p[r.about].traded = o[r.about].traded
      BY <2>2, <3>1 DEF OrdersMove, Alive
    <3> QED
      BY <1>1, <2>1, <2>2, <2>4, <3>2 DEF ReportSound
  <2> QED
    BY <2>1, <2>3, <2>4 DEF Counts
<1>2. (\A i \in DOMAIN t : ReportSound(t[i], p)) /\ \A i \in DOMAIN w : ReportSound(w[i], p)
  BY <1>1 DEF Sound
<1>3. ASSUME NEW k \in DOMAIN p PROVE VolumeOf(t, k) + VolumeOf(w, k) <= p[k].traded
  <2>1. VolumesNat(t) /\ VolumesNat(w)
    BY SoundVolumes
  <2>2. VolumeOf(t, k) \in Nat /\ VolumeOf(w, k) \in Nat /\ p[k].traded \in Nat
    BY <2>1, VolumeType DEF OrdersSound
  <2>3. CASE k \in DOMAIN o
    <3>1. /\ VolumeOf(t, k) + VolumeOf(w, k) <= o[k].traded
          /\ o[k].traded \in Nat /\ p[k].traded >= o[k].traded
      BY <2>3 DEF Sound, OrdersSound, OrdersMove
    <3> QED
      BY <2>2, <3>1
  <2>4. CASE k \notin DOMAIN o
    <3>1. \A r : ReportSound(r, o) /\ r.kind = "traded" => r.about # k
      BY <2>4 DEF ReportSound, Counts
    <3>2. VolumeOf(t, k) = 0
      <4>1. \A i \in DOMAIN t : t[i].kind = "traded" => t[i].about # k
        BY <3>1 DEF Sound
      <4> QED
        BY <2>1, <4>1, VolumeNone
    <3>3. VolumeOf(w, k) = 0
      <4>1. \A i \in DOMAIN w : w[i].kind = "traded" => w[i].about # k
        BY <3>1 DEF Sound
      <4> QED
        BY <2>1, <4>1, VolumeNone
    <3> QED
      BY <2>2, <3>2, <3>3
  <2> QED
    BY <2>3, <2>4
<1> QED
  BY <1>2, <1>3 DEF Sound

(* The broker says something that is true of the order and new.            *)
LEMMA SoundSay ==
  ASSUME NEW S, NEW t \in Seq(S), NEW R, NEW w \in Seq(R), NEW o, NEW s \in R,
         Sound(t, w, o), ReportSound(s, o),
         Ends(s) => NoEnd(t, s.about) /\ NoEnd(w, s.about),
         s.kind = "traded" =>
           VolumeOf(t, s.about) + VolumeOf(w, s.about) + s.volume <= o[s.about].traded
  PROVE  Sound(t, Append(w, s), o)
<1>1. PICK u : u = Append(w, s)
  OBVIOUS
<1>2. PICK n : n = Len(w) + 1
  OBVIOUS
<1>3. /\ DOMAIN u = 1 .. n /\ DOMAIN w = 1 .. n - 1 /\ n \in Nat
      /\ u[n] = s /\ \A i \in DOMAIN w : u[i] = w[i]
  BY <1>1, <1>2, AppendProperties
<1>4. \A i \in DOMAIN u : i = n \/ (i \in DOMAIN w /\ u[i] = w[i])
  BY <1>3
<1>5. \A i \in DOMAIN u : ReportSound(u[i], o)
  BY <1>3, <1>4 DEF Sound
<1>6. OneEnd(u)
  BY <1>3, <1>4 DEF Sound, OneEnd, NoEnd
<1>7. ASSUME NEW i \in DOMAIN t, Ends(t[i]) PROVE NoEnd(u, t[i].about)
  <2>1. Ends(s) => s.about # t[i].about
    BY <1>7 DEF NoEnd
  <2> QED
    BY <1>3, <1>4, <1>7, <2>1 DEF Sound, NoEnd
<1>8. ASSUME NEW k \in DOMAIN o PROVE VolumeOf(t, k) + VolumeOf(u, k) <= o[k].traded
  <2>1. VolumesNat(t) /\ VolumesNat(w) /\ (s.kind = "traded" => s.volume \in Nat)
    BY SoundVolumes DEF ReportSound, Counts
  <2>2. VolumeOf(u, k) = VolumeOf(w, k) + TradeOf(s, k)
    BY <1>1, <2>1, VolumeAppend
  <2>3. VolumeOf(t, k) \in Nat /\ VolumeOf(w, k) \in Nat /\ o[k].traded \in Nat
    BY <2>1, VolumeType DEF Sound, OrdersSound
  <2>4. VolumeOf(t, k) + VolumeOf(w, k) <= o[k].traded
    BY DEF Sound
  <2>5. CASE s.kind = "traded" /\ s.about = k
    BY <2>1, <2>2, <2>3, <2>5 DEF TradeOf
  <2>6. CASE ~ (s.kind = "traded" /\ s.about = k)
    BY <2>2, <2>3, <2>4, <2>6 DEF TradeOf
  <2> QED
    BY <2>5, <2>6
<1> QED
  BY <1>1, <1>5, <1>6, <1>7, <1>8 DEF Sound

(* Before anything is reported.                                            *)
LEMMA SoundStart ==
  ASSUME NEW o, OrdersSound(o)
  PROVE  Sound(<<>>, <<>>, o)
<1>1. DOMAIN <<>> = {}
  OBVIOUS
<1>2. OneEnd(<<>>)
  BY <1>1 DEF OneEnd
<1>3. \A k \in DOMAIN o : VolumeOf(<<>>, k) + VolumeOf(<<>>, k) <= o[k].traded
  BY VolumeEmpty DEF OrdersSound
<1> QED
  BY <1>1, <1>2, <1>3 DEF Sound

(* Of an order of this run Sound says what LifeOf asks.                    *)
LEMMA SoundLives ==
  ASSUME NEW S, NEW t \in Seq(S), NEW R, NEW w \in Seq(R), NEW o, Sound(t, w, o)
  PROVE  LivesAreSound(t, o)
<1>1. SUFFICES ASSUME NEW k \in DOMAIN o PROVE LifeOf(t, k, o[k])
  BY DEF LivesAreSound
<1>2. VolumeOf(t, k) <= o[k].traded
  <2>1. VolumeOf(t, k) \in Nat /\ VolumeOf(w, k) \in Nat
    BY SoundVolumes, VolumeType
  <2>2. o[k].traded \in Nat /\ VolumeOf(t, k) + VolumeOf(w, k) <= o[k].traded
    BY DEF Sound, OrdersSound
  <2> QED
    BY <2>1, <2>2
<1>3. ASSUME NEW i \in DOMAIN t, NEW j \in DOMAIN t, t[i].about = k, t[j].about = k,
             Ends(t[i]), Ends(t[j])
      PROVE  i = j
  BY <1>3 DEF Sound, OneEnd
<1>4. ASSUME NEW i \in DOMAIN t, t[i].about = k
      PROVE  /\ t[i].kind = "canceled" => t[i].volume = Volume - o[k].traded
             /\ t[i].kind = "rejected" => o[k].traded = 0
  BY <1>4 DEF Sound, ReportSound, Counts
<1> QED
  BY <1>2, <1>3, <1>4 DEF LifeOf

(* A message of which nothing is counted.                                  *)
LEMMA SayNothing ==
  ASSUME NEW S, NEW t \in Seq(S), NEW R, NEW w \in Seq(R), NEW o, NEW s \in R,
         Sound(t, w, o), ~ Counts(s)
  PROVE  Sound(t, Append(w, s), o)
<1>1. ReportSound(s, o) /\ ~ Ends(s) /\ s.kind # "traded"
  BY DEF ReportSound, Counts, Ends
<1> QED
  BY <1>1, SoundSay

(* An order ends and the broker says so.                                   *)
LEMMA SayEnd ==
  ASSUME NEW S, NEW t \in Seq(S), NEW R, NEW w \in Seq(R), NEW o, NEW p, NEW s \in R,
         Sound(t, w, o), OrdersSound(p), OrdersMove(o, p),
         s.about \in DOMAIN o, Alive(o[s.about]), Ends(s), ReportSound(s, p)
  PROVE  Sound(t, Append(w, s), p)
<1>1. Sound(t, w, p)
  BY SoundOrders
<1>2. NoEnd(t, s.about) /\ NoEnd(w, s.about)
  BY AliveHasNoEnd
<1>3. s.kind # "traded"
  BY DEF Ends
<1> QED
  BY <1>1, <1>2, <1>3, SoundSay

(* An order trades and the broker says so.                                 *)
LEMMA SayTrade ==
  ASSUME NEW S, NEW t \in Seq(S), NEW R, NEW w \in Seq(R), NEW o, NEW p, NEW s \in R,
         Sound(t, w, o), OrdersSound(p), OrdersMove(o, p),
         s.about \in DOMAIN o, s.kind = "traded", s.volume \in Nat,
         p[s.about].traded = o[s.about].traded + s.volume
  PROVE  Sound(t, Append(w, s), p)
<1>1. Sound(t, w, p)
  BY SoundOrders
<1>2. ReportSound(s, p) /\ ~ Ends(s)
  BY DEF ReportSound, Ends, OrdersMove
<1>3. VolumeOf(t, s.about) + VolumeOf(w, s.about) + s.volume <= p[s.about].traded
  <2>1. VolumeOf(t, s.about) \in Nat /\ VolumeOf(w, s.about) \in Nat
    BY SoundVolumes, VolumeType
  <2>2. /\ VolumeOf(t, s.about) + VolumeOf(w, s.about) <= o[s.about].traded
        /\ o[s.about].traded \in Nat
    BY DEF Sound, OrdersSound
  <2> QED
    BY <2>1, <2>2
<1> QED
  BY <1>1, <1>2, <1>3, SoundSay

-----------------------------------------------------------------------------
(* The messages under way as what they will be told as: F says it of one.  *)

Saying == [kind : {"traded", "canceled", "rejected", "nothing"}, volume : Int, about : Nat]

Nothing == [kind |-> "nothing", volume |-> 0, about |-> 0]

Says(F, q) == [i \in 1 .. Len(q) |-> F[q[i]]]

LEMMA SaysType ==
  ASSUME NEW M, NEW F \in [M -> Saying], NEW q \in Seq(M)
  PROVE  Says(F, q) \in Seq(Saying) /\ Len(Says(F, q)) = Len(q)
<1>1. Len(q) \in Nat /\ \A i \in 1 .. Len(q) : q[i] \in M
  BY ElementOfSeq
<1>2. Says(F, q) \in [1 .. Len(q) -> Saying]
  BY <1>1 DEF Says
<1>3. Says(F, q) \in Seq(Saying)
  BY <1>1, <1>2
<1> QED
  BY <1>1, <1>2, <1>3

LEMMA SaysEmpty ==
  ASSUME NEW F
  PROVE  Says(F, <<>>) = <<>>
BY DEF Says

LEMMA SaysAppend ==
  ASSUME NEW M, NEW F \in [M -> Saying], NEW q \in Seq(M), NEW m \in M
  PROVE  Says(F, Append(q, m)) = Append(Says(F, q), F[m]) /\ F[m] \in Saying
<1>1. PICK u : u = Says(F, Append(q, m))
  OBVIOUS
<1>2. PICK v : v = Append(Says(F, q), F[m])
  OBVIOUS
<1>3. Append(q, m) \in Seq(M) /\ Says(F, q) \in Seq(Saying) /\ F[m] \in Saying
  BY SaysType
<1>4. u \in Seq(Saying) /\ Len(u) = Len(q) + 1 /\ Len(q) \in Nat
  <2>1. Len(Append(q, m)) = Len(q) + 1 /\ Len(q) \in Nat
    BY AppendProperties
  <2>2. u \in Seq(Saying) /\ Len(u) = Len(Append(q, m))
    BY <1>1, <1>3, SaysType
  <2> QED
    BY <2>1, <2>2
<1>5. v \in Seq(Saying) /\ Len(v) = Len(q) + 1
  BY <1>2, <1>3, SaysType, AppendProperties
<1>6. ASSUME NEW i \in 1 .. Len(q) + 1 PROVE u[i] = v[i]
  <2>1. u[i] = F[Append(q, m)[i]]
    BY <1>1, AppendProperties DEF Says
  <2>2. CASE i = Len(q) + 1
    <3>1. Append(q, m)[i] = m
      BY <2>2, AppendProperties
    <3>2. v[i] = F[m]
      BY <1>2, <1>3, <2>2, SaysType, AppendProperties
    <3> QED
      BY <2>1, <3>1, <3>2
  <2>3. CASE i # Len(q) + 1
    <3>1. i \in 1 .. Len(q)
      BY <1>4, <2>3
    <3>2. Append(q, m)[i] = q[i]
      BY <3>1, AppendProperties
    <3>3. v[i] = Says(F, q)[i]
      BY <1>2, <1>3, <3>1, SaysType, AppendProperties
    <3> QED
      BY <2>1, <3>1, <3>2, <3>3 DEF Says
  <2> QED
    BY <2>2, <2>3
<1>7. u = v
  BY <1>4, <1>5, <1>6, SeqEqual
<1> QED
  BY <1>1, <1>2, <1>3, <1>7

LEMMA SaysTail ==
  ASSUME NEW M, NEW F \in [M -> Saying], NEW q \in Seq(M), q # <<>>
  PROVE  /\ Says(F, q) # <<>> /\ Says(F, Tail(q)) = Tail(Says(F, q))
         /\ Head(Says(F, q)) = F[Head(q)]
<1>1. PICK u : u = Says(F, Tail(q))
  OBVIOUS
<1>2. PICK v : v = Tail(Says(F, q))
  OBVIOUS
<1>3. Len(q) \in Nat /\ Len(q) # 0 /\ Tail(q) \in Seq(M) /\ Len(Tail(q)) = Len(q) - 1
  BY HeadTailProperties
<1>4. Says(F, q) \in Seq(Saying) /\ Len(Says(F, q)) = Len(q) /\ Says(F, q) # <<>>
  BY <1>3, SaysType
<1>5. u \in Seq(Saying) /\ Len(u) = Len(q) - 1
  BY <1>1, <1>3, SaysType
<1>6. v \in Seq(Saying) /\ Len(v) = Len(q) - 1
  BY <1>2, <1>4, HeadTailProperties
<1>7. ASSUME NEW i \in 1 .. Len(q) - 1 PROVE u[i] = v[i]
  <2>1. i \in 1 .. Len(Tail(q)) /\ i \in 1 .. Len(Tail(Says(F, q))) /\ i + 1 \in 1 .. Len(q)
    BY <1>2, <1>3, <1>6
  <2>2. u[i] = F[Tail(q)[i]] /\ Tail(q)[i] = q[i + 1]
    BY <1>1, <2>1, HeadTailProperties DEF Says
  <2>3. v[i] = Says(F, q)[i + 1]
    BY <1>2, <1>4, <2>1, HeadTailProperties
  <2> QED
    BY <2>1, <2>2, <2>3 DEF Says
<1>8. u = v
  BY <1>5, <1>6, <1>7, SeqEqual
<1>9. Head(Says(F, q)) = F[Head(q)]
  <2>1. 1 \in 1 .. Len(q) /\ Head(Says(F, q)) = Says(F, q)[1] /\ Head(q) = q[1]
    BY <1>3, <1>4
  <2> QED
    BY <2>1 DEF Says
<1> QED
  BY <1>1, <1>2, <1>4, <1>8, <1>9

(* One message more, or two.                                               *)
LEMMA ConcatOne ==
  ASSUME NEW M, NEW q \in Seq(M), NEW a \in M
  PROVE  q \o <<a>> = Append(q, a) /\ Append(q, a) \in Seq(M)
<1>1. <<a>> \in Seq(M) /\ Len(<<a>>) = 1 /\ <<a>>[1] = a
  OBVIOUS
<1>2. PICK u : u = q \o <<a>>
  OBVIOUS
<1>3. PICK v : v = Append(q, a)
  OBVIOUS
<1>4. v \in Seq(M) /\ Len(v) = Len(q) + 1 /\ Len(q) \in Nat
  BY <1>3, AppendProperties
<1>5. u \in Seq(M) /\ Len(u) = Len(q) + 1
  BY <1>1, <1>2, ConcatProperties
<1>6. ASSUME NEW i \in 1 .. Len(q) + 1 PROVE u[i] = v[i]
  <2>1. u[i] = IF i <= Len(q) THEN q[i] ELSE <<a>>[i - Len(q)]
    BY <1>1, <1>2, ConcatProperties
  <2>2. CASE i <= Len(q)
    BY <1>3, <1>4, <2>1, <2>2, AppendProperties
  <2>3. CASE ~ (i <= Len(q))
    <3>1. i = Len(q) + 1 /\ i - Len(q) = 1
      BY <1>4, <2>3
    <3> QED
      BY <1>1, <1>3, <2>1, <2>3, <3>1, AppendProperties
  <2> QED
    BY <2>2, <2>3
<1> QED
  BY <1>2, <1>3, <1>4, <1>5, <1>6, SeqEqual

LEMMA ConcatTwo ==
  ASSUME NEW M, NEW q \in Seq(M), NEW a \in M, NEW b \in M
  PROVE  q \o <<a, b>> = Append(Append(q, a), b)
<1>1. <<a>> \in Seq(M) /\ <<b>> \in Seq(M) /\ <<a, b>> = <<a>> \o <<b>>
  <2>1. <<a>> \in Seq(M) /\ Append(<<a>>, b) = <<a, b>>
    <3>1. <<a>> \in Seq(M) /\ Len(<<a>>) = 1 /\ <<a>>[1] = a
      OBVIOUS
    <3>2. <<a, b>> \in Seq(M) /\ Len(<<a, b>>) = 2 /\ <<a, b>>[1] = a /\ <<a, b>>[2] = b
      OBVIOUS
    <3>3. PICK u : u = Append(<<a>>, b)
      OBVIOUS
    <3>4. u \in Seq(M) /\ Len(u) = 2 /\ u[1] = a /\ u[2] = b
      BY <3>1, <3>3, AppendProperties
    <3>5. \A i \in 1 .. 2 : i = 1 \/ i = 2
      OBVIOUS
    <3>6. u = <<a, b>>
      BY <3>2, <3>4, <3>5, SeqEqual
    <3> QED
      BY <3>1, <3>3, <3>6
  <2>2. <<b>> \in Seq(M)
    OBVIOUS
  <2>3. <<a>> \o <<b>> = Append(<<a>>, b)
    BY <2>1, ConcatOne
  <2> QED
    BY <2>1, <2>2, <2>3
<1>2. q \o <<a, b>> = (q \o <<a>>) \o <<b>>
  BY <1>1, ConcatAssociative
<1>3. q \o <<a>> = Append(q, a) /\ Append(q, a) \in Seq(M)
  BY ConcatOne
<1> QED
  BY <1>2, <1>3, ConcatOne

(* One order of the book changes.                                          *)
LEMMA OrderChanges ==
  ASSUME NEW o \in Seq(BrokerOrder), NEW k \in DOMAIN o, NEW e \in BrokerOrder
  PROVE  /\ [o EXCEPT ![k] = e] \in Seq(BrokerOrder)
         /\ DOMAIN [o EXCEPT ![k] = e] = DOMAIN o
         /\ [o EXCEPT ![k] = e][k] = e
         /\ \A i \in DOMAIN o : i # k => [o EXCEPT ![k] = e][i] = o[i]
<1>1. k \in 1 .. Len(o) /\ DOMAIN o = 1 .. Len(o)
  OBVIOUS
<1>2. [o EXCEPT ![k] = e] \in Seq(BrokerOrder)
  BY <1>1, ExceptSeq
<1> QED
  BY <1>1, <1>2

-----------------------------------------------------------------------------
(* XtpTradeApi.  Messages under way, reports told and orders have these    *)
(* types; the session is ours while Login lasts and after it.              *)

XtpStatuses ==
  {"unknown", "noTradeQueueing", "canceled", "partTradedNotQueueing",
   "partTradedQueueing", "allTraded", "rejected"}

XtpMessage ==
  [kind : {"order"}, session : Nat, about : Nat, error : BOOLEAN, status : XtpStatuses,
   left : Int]
    \union [kind : {"trade"}, session : Nat, about : Nat, volume : Nat]
    \union [kind : {"cancelError"}, session : Nat]
    \union [kind : {"orders"}, session : Nat, error : BOOLEAN, list : SUBSET Nat]

GatewayReport ==
  [id : Nat, kind : {"accepted", "rejected", "cancelRejected", "traded", "canceled"},
   volume : Int, about : Nat]

XtpTypes ==
  /\ BrokerAssumption /\ Xtp!XtpAssumption
  /\ Xtp!TypeOK
  /\ nextId \in 1 .. MaxOrders + 1
  /\ library \in [session : {0, Xtp!Ours}, up : BOOLEAN, drops : Nat]
  /\ loginCall = "assigns" => library.session = Xtp!Ours
  /\ wire \in Seq(XtpMessage)
  /\ told \in Seq(GatewayReport)

(* What OnOrderEvent and OnTradeEvent will tell the OMS of a message.      *)
XtpSaid ==
  [m \in XtpMessage |->
     IF m.kind = "trade" THEN [kind |-> "traded", volume |-> m.volume, about |-> m.about]
     ELSE IF m.kind # "order" THEN Nothing
     ELSE IF m.error \/ m.status = "rejected"
          THEN [kind |-> "rejected", volume |-> 0, about |-> m.about]
     ELSE IF m.status \in {"canceled", "partTradedNotQueueing"}
          THEN [kind |-> "canceled", volume |-> m.left, about |-> m.about]
     ELSE Nothing]

(* The orders of this run are those of our session, named by their id; a   *)
(* message has the session of its order, a report its order's id.          *)
IsOwn(o) == o.session = Xtp!Ours /\ o.id > 0 /\ o.tag = o.id

IsOther(o) == o.session = Xtp!Another /\ o.id = 0

XtpOwns(t, q, o) ==
  /\ \A k \in DOMAIN o : IsOwn(o[k]) \/ IsOther(o[k])
  /\ \A i \in DOMAIN q :
       q[i].kind \in {"order", "trade"} =>
         q[i].about \in DOMAIN o /\ q[i].session = o[q[i].about].session
  /\ \A i \in DOMAIN t : t[i].about \in DOMAIN o /\ t[i].id = o[t[i].about].id

XtpInv ==
  XtpTypes /\ XtpOwns(told, wire, orders) /\ Sound(told, Says(XtpSaid, wire), orders)

(* The broker's operators are those of this module.                        *)
LEMMA XtpBroker ==
  /\ Xtp!BrokerOrder = BrokerOrder
  /\ Xtp!BrokerAssumption <=> BrokerAssumption
  /\ \A o, v : Xtp!BrokerFilled(o, v) = BrokerFilled(o, v)
  /\ \A i, t, s : Xtp!BrokerSent(i, t, s) = BrokerSent(i, t, s)
  /\ \A i, n, v, k : Xtp!Told(i, n, v, k) = Told(i, n, v, k)
BY DEF Xtp!BrokerOrder, BrokerOrder, Xtp!OrderStates, OrderStates, Xtp!BrokerAssumption,
   BrokerAssumption, Xtp!BrokerFilled, BrokerFilled, Xtp!BrokerSent, BrokerSent, Xtp!Told, Told

(* The types, with the definitions of XtpTradeApi expanded.                *)
LEMMA XtpTypesFacts ==
  ASSUME XtpTypes
  PROVE  /\ MaxOrders \in Nat /\ Volume \in Nat \ {0} /\ Leftovers \in Nat
         /\ orders \in Seq(BrokerOrder) /\ wire \in Seq(XtpMessage) /\ told \in Seq(GatewayReport)
         /\ nextId \in 1 .. MaxOrders + 1
         /\ library \in [session : {0, 2}, up : BOOLEAN, drops : Nat]
BY XtpBroker DEF XtpTypes, Xtp!TypeOK, BrokerAssumption, Xtp!XtpAssumption, Xtp!Ours

LEMMA XtpSaidType == XtpSaid \in [XtpMessage -> Saying]
<1>1. ASSUME NEW m \in XtpMessage PROVE XtpSaid[m] \in Saying
  <2>1. CASE m.kind = "trade"
    <3>1. m \in [kind : {"trade"}, session : Nat, about : Nat, volume : Nat]
      BY <2>1 DEF XtpMessage
    <3> QED
      BY <2>1, <3>1 DEF XtpSaid, Saying
  <2>2. CASE m.kind = "order"
    <3>1. m \in [kind : {"order"}, session : Nat, about : Nat, error : BOOLEAN,
                 status : XtpStatuses, left : Int]
      BY <2>2 DEF XtpMessage
    <3> QED
      BY <2>2, <3>1 DEF XtpSaid, Saying, Nothing
  <2>3. CASE m.kind \notin {"order", "trade"}
    BY <2>3 DEF XtpSaid, Saying, Nothing
  <2> QED
    BY <2>1, <2>2, <2>3
<1> QED
  BY <1>1 DEF XtpSaid

(* Orders that arrive, and changes that leave an order its names.          *)
LEMMA XtpOwnsMove ==
  ASSUME NEW t, NEW q, NEW o, NEW p, XtpOwns(t, q, o), DOMAIN o \subseteq DOMAIN p,
         \A k \in DOMAIN p : IF k \in DOMAIN o
                             THEN /\ p[k].session = o[k].session /\ p[k].id = o[k].id
                                  /\ p[k].tag = o[k].tag
                             ELSE IsOwn(p[k])
  PROVE  XtpOwns(t, q, p)
BY DEF XtpOwns, IsOwn, IsOther

LEMMA XtpOwnsTail ==
  ASSUME NEW M, NEW t, NEW q \in Seq(M), NEW o, XtpOwns(t, q, o), q # <<>>
  PROVE  XtpOwns(t, Tail(q), o)
<1>1. PICK u : u = Tail(q)
  OBVIOUS
<1>2. \A i \in DOMAIN u : i + 1 \in DOMAIN q /\ u[i] = q[i + 1]
  BY <1>1, HeadTailProperties
<1> QED
  BY <1>1, <1>2 DEF XtpOwns

LEMMA XtpOwnsSay ==
  ASSUME NEW M, NEW t, NEW q \in Seq(M), NEW o, NEW m \in M, XtpOwns(t, q, o),
         m.kind \in {"order", "trade"} => m.about \in DOMAIN o /\ m.session = o[m.about].session
  PROVE  XtpOwns(t, Append(q, m), o)
<1>1. PICK u : u = Append(q, m)
  OBVIOUS
<1>2. PICK n : n = Len(q) + 1
  OBVIOUS
<1>3. /\ DOMAIN u = 1 .. n /\ DOMAIN q = 1 .. n - 1 /\ n \in Nat /\ u[n] = m
      /\ \A i \in DOMAIN q : u[i] = q[i]
  BY <1>1, <1>2, AppendProperties
<1>4. \A i \in DOMAIN u : u[i] = m \/ (i \in DOMAIN q /\ u[i] = q[i])
  BY <1>3
<1> QED
  BY <1>1, <1>4 DEF XtpOwns

LEMMA XtpOwnsTell ==
  ASSUME NEW M, NEW t \in Seq(M), NEW q, NEW o, NEW r \in M, XtpOwns(t, q, o),
         r.about \in DOMAIN o, r.id = o[r.about].id
  PROVE  XtpOwns(Append(t, r), q, o)
<1>1. PICK u : u = Append(t, r)
  OBVIOUS
<1>2. PICK n : n = Len(t) + 1
  OBVIOUS
<1>3. /\ DOMAIN u = 1 .. n /\ DOMAIN t = 1 .. n - 1 /\ n \in Nat /\ u[n] = r
      /\ \A i \in DOMAIN t : u[i] = t[i]
  BY <1>1, <1>2, AppendProperties
<1>4. \A i \in DOMAIN u : u[i] = r \/ (i \in DOMAIN t /\ u[i] = t[i])
  BY <1>3
<1> QED
  BY <1>1, <1>4 DEF XtpOwns

(* The first message is taken from the wire: of one that is there for this *)
(* session, the order is one of this run.                                  *)
LEMMA XtpSeen ==
  ASSUME XtpInv, wire # <<>>
  PROVE  /\ Head(wire) \in XtpMessage /\ Tail(wire) \in Seq(XtpMessage)
         /\ XtpOwns(told, Tail(wire), orders)
         /\ Says(XtpSaid, wire) # <<>> /\ Says(XtpSaid, wire) \in Seq(Saying)
         /\ Says(XtpSaid, Tail(wire)) = Tail(Says(XtpSaid, wire))
         /\ Head(Says(XtpSaid, wire)) = XtpSaid[Head(wire)]
         /\ Sound(told, Says(XtpSaid, Tail(wire)), orders)
<1>1. wire \in Seq(XtpMessage) /\ told \in Seq(GatewayReport)
  BY XtpTypesFacts DEF XtpInv
<1>2. Head(wire) \in XtpMessage /\ Tail(wire) \in Seq(XtpMessage)
  BY <1>1, HeadTailProperties
<1>3. XtpOwns(told, Tail(wire), orders)
  BY <1>1, XtpOwnsTail DEF XtpInv
<1>4. Says(XtpSaid, wire) \in Seq(Saying)
  BY <1>1, XtpSaidType, SaysType
<1>5. /\ Says(XtpSaid, wire) # <<>> /\ Says(XtpSaid, Tail(wire)) = Tail(Says(XtpSaid, wire))
      /\ Head(Says(XtpSaid, wire)) = XtpSaid[Head(wire)]
  BY <1>1, XtpSaidType, SaysTail
<1>6. Sound(told, Tail(Says(XtpSaid, wire)), orders)
  BY <1>1, <1>4, <1>5, SoundSkip DEF XtpInv
<1> QED
  BY <1>2, <1>3, <1>4, <1>5, <1>6

LEMMA XtpOwnEvent ==
  ASSUME XtpInv, wire # <<>>, Head(wire).kind \in {"order", "trade"},
         Head(wire).session = session
  PROVE  /\ Head(wire).about \in DOMAIN orders
         /\ orders[Head(wire).about].tag = orders[Head(wire).about].id
         /\ orders[Head(wire).about] \in BrokerOrder /\ Head(wire).about \in Nat
<1>1. wire \in Seq(XtpMessage) /\ orders \in Seq(BrokerOrder)
  BY XtpTypesFacts DEF XtpInv
<1>2. 1 \in DOMAIN wire /\ Head(wire) = wire[1]
  BY <1>1
<1>3. /\ Head(wire).about \in DOMAIN orders
      /\ session = orders[Head(wire).about].session
  BY <1>2 DEF XtpInv, XtpOwns
<1>4. session \in {0, 2}
  BY DEF XtpInv, XtpTypes, Xtp!TypeOK, Xtp!Ours
<1>5. IsOwn(orders[Head(wire).about])
  BY <1>3, <1>4 DEF XtpInv, XtpOwns, IsOther, Xtp!Another
<1> QED
  BY <1>1, <1>3, <1>5, ElementOfSeq DEF IsOwn

(* A step that leaves the wire, the reports and the orders alone.          *)
LEMMA XtpQuiet ==
  ASSUME XtpInv, UNCHANGED <<wire, told, orders>>, XtpTypes'
  PROVE  XtpInv'
BY DEF XtpInv

(* In the first state nothing is told and other sessions' orders rest.     *)
LEMMA XtpInitially ==
  ASSUME BrokerAssumption, Xtp!XtpAssumption, Xtp!Init
  PROVE  XtpInv
<1>1. MaxOrders \in Nat /\ Volume \in Nat \ {0} /\ Leftovers \in Nat
  BY DEF BrokerAssumption, Xtp!XtpAssumption
<1>2. /\ DOMAIN orders = 1 .. Leftovers
      /\ \A k \in 1 .. Leftovers :
           orders[k] = [BrokerSent(0, k, 1) EXCEPT !.state = "queueing"]
  BY XtpBroker DEF Xtp!Init, Xtp!Another
<1>3. \A k \in 1 .. Leftovers :
        /\ orders[k] \in BrokerOrder /\ orders[k].traded = 0 /\ orders[k].state = "queueing"
        /\ orders[k].session = 1 /\ orders[k].id = 0
  <2>1. SUFFICES ASSUME NEW k \in 1 .. Leftovers
                 PROVE  /\ orders[k] \in BrokerOrder /\ orders[k].traded = 0
                        /\ orders[k].state = "queueing"
                        /\ orders[k].session = 1 /\ orders[k].id = 0
    OBVIOUS
  <2>2. orders[k] = [BrokerSent(0, k, 1) EXCEPT !.state = "queueing"]
    BY <1>2
  <2>3. orders[k] = [id |-> 0, tag |-> k, session |-> 1, traded |-> 0, state |-> "queueing",
                     cancel |-> "no"]
    BY SMTT(30), <2>2 DEF BrokerSent
  <2>4. 0 \in 0 .. MaxOrders /\ k \in Nat /\ 1 \in Nat /\ 0 \in 0 .. Volume
    BY <1>1
  <2> QED
    BY <2>3, <2>4 DEF BrokerOrder, OrderStates
<1>4. orders \in Seq(BrokerOrder)
  <2>1. orders \in [1 .. Leftovers -> BrokerOrder]
    BY <1>1, <1>2, <1>3, XtpBroker DEF Xtp!Init
  <2> QED
    BY <1>1, <2>1
<1>5. wire = <<>> /\ told = <<>> /\ DOMAIN <<>> = {}
  BY DEF Xtp!Init
<1>6. XtpTypes
  BY <1>1, <1>4, <1>5, XtpBroker DEF XtpTypes, Xtp!TypeOK, Xtp!Init, Xtp!Ours
<1>7. XtpOwns(told, wire, orders)
  BY <1>2, <1>3, <1>5 DEF XtpOwns, IsOther, Xtp!Another
<1>8. OrdersSound(orders)
  BY <1>2, <1>3 DEF OrdersSound
<1> QED
  BY <1>5, <1>6, <1>7, <1>8, SoundStart, SaysEmpty DEF XtpInv

(* Login and Logout move the trader's thread and the session.              *)
LEMMA XtpLogin ==
  ASSUME XtpInv, Xtp!Login \/ Xtp!Logout
  PROVE  XtpInv'
<1>1. UNCHANGED <<wire, told, orders, nextId>>
  BY DEF Xtp!Login, Xtp!Logout, Xtp!CallLogin, Xtp!AssignSession, Xtp!Waited
<1>2. library \in [session : {0, Xtp!Ours}, up : BOOLEAN, drops : Nat]
  BY DEF XtpInv, XtpTypes
<1>3. library' \in [session : {0, Xtp!Ours}, up : BOOLEAN, drops : Nat]
  BY <1>2 DEF Xtp!Login, Xtp!Logout, Xtp!CallLogin, Xtp!AssignSession, Xtp!Waited
<1>4. /\ Xtp!TypeOK' /\ (loginCall' = "assigns" => library'.session = Xtp!Ours)
  <2>1. Xtp!TypeOK /\ (loginCall = "assigns" => library.session = Xtp!Ours)
    BY DEF XtpInv, XtpTypes
  <2>2. CASE Xtp!CallLogin
    BY <1>1, <1>2, <2>1, <2>2 DEF Xtp!TypeOK, Xtp!CallLogin
  <2>3. CASE Xtp!AssignSession
    BY <1>1, <1>2, <2>1, <2>3 DEF Xtp!TypeOK, Xtp!AssignSession, Xtp!QueryOrders
  <2>4. CASE Xtp!Waited
    BY <1>1, <2>1, <2>4 DEF Xtp!TypeOK, Xtp!Waited
  <2>5. CASE Xtp!Logout
    BY <1>1, <2>1, <2>5 DEF Xtp!TypeOK, Xtp!Logout
  <2> QED
    BY <2>2, <2>3, <2>4, <2>5 DEF Xtp!Login
<1> QED
  BY <1>1, <1>3, <1>4, XtpQuiet DEF XtpInv, XtpTypes

(* What the orders' book owes to its changes.                              *)
LEMMA XtpBookMoves ==
  ASSUME XtpInv, orders' \in Seq(BrokerOrder), OrdersSound(orders'), OrdersMove(orders, orders'),
         \A k \in DOMAIN orders' :
           IF k \in DOMAIN orders
           THEN /\ orders'[k].session = orders[k].session /\ orders'[k].id = orders[k].id
                /\ orders'[k].tag = orders[k].tag
           ELSE IsOwn(orders'[k])
  PROVE  /\ XtpOwns(told, wire, orders')
         /\ Sound(told, Says(XtpSaid, wire), orders')
<1>1. XtpOwns(told, wire, orders')
  BY XtpOwnsMove DEF XtpInv, OrdersMove
<1>2. told \in Seq(GatewayReport) /\ Says(XtpSaid, wire) \in Seq(Saying)
  BY XtpTypesFacts, XtpSaidType, SaysType DEF XtpInv
<1> QED
  BY <1>1, <1>2, SoundOrders DEF XtpInv

(* The OMS sends an order: its id and its name are the next number.        *)
LEMMA XtpSend ==
  ASSUME XtpInv, Xtp!SendOrder
  PROVE  XtpInv'
<1>1. XtpTypes /\ Xtp!TypeOK
  BY DEF XtpInv, XtpTypes
<1>2. /\ MaxOrders \in Nat /\ nextId \in 1 .. MaxOrders /\ orders \in Seq(BrokerOrder)
      /\ nextId' = nextId + 1 /\ session = 2 /\ Volume \in Nat \ {0}
  BY <1>1, XtpTypesFacts DEF Xtp!SendOrder, Xtp!TypeOK, Xtp!Ours
<1>3. UNCHANGED <<loginCall, status, session, library, wire, told>>
  BY DEF Xtp!SendOrder
<1>4. /\ orders' \in Seq(BrokerOrder) /\ OrdersSound(orders') /\ OrdersMove(orders, orders')
      /\ \A k \in DOMAIN orders' :
           IF k \in DOMAIN orders THEN orders'[k] = orders[k] ELSE IsOwn(orders'[k])
  <2>1. OrdersSound(orders)
    BY DEF XtpInv, Sound
  <2>2. CASE orders' = orders
    BY <1>2, <2>1, <2>2 DEF OrdersMove
  <2>3. CASE orders' = Append(orders, BrokerSent(nextId, nextId, session))
    <3>1. PICK e : e = BrokerSent(nextId, nextId, session)
      OBVIOUS
    <3>2. e \in BrokerOrder /\ IsOwn(e) /\ e.traded = 0
      BY <1>2, <3>1 DEF BrokerSent, BrokerOrder, OrderStates, IsOwn, Xtp!Ours
    <3>3. PICK n : n = Len(orders) + 1
      OBVIOUS
    <3>4. /\ orders' \in Seq(BrokerOrder) /\ DOMAIN orders' = 1 .. n /\ n \in Nat
          /\ DOMAIN orders = 1 .. n - 1 /\ orders'[n] = e
          /\ \A k \in DOMAIN orders : orders'[k] = orders[k]
      BY <1>2, <2>3, <3>1, <3>2, <3>3, AppendProperties
    <3>5. \A k \in DOMAIN orders' : k \in DOMAIN orders \/ k = n
      BY <3>4
    <3>6. DOMAIN orders \subseteq DOMAIN orders'
      BY <3>4
    <3>7. OrdersSound(orders')
      BY <2>1, <3>2, <3>4, <3>5 DEF OrdersSound
    <3>8. OrdersMove(orders, orders')
      BY <3>4, <3>6 DEF OrdersMove
    <3> QED
      BY <3>2, <3>4, <3>5, <3>7, <3>8
  <2> QED
    BY <2>2, <2>3, XtpBroker DEF Xtp!SendOrder
<1>5. XtpOwns(told, wire, orders') /\ Sound(told, Says(XtpSaid, wire), orders')
  BY <1>4, XtpBookMoves
<1>6. XtpTypes'
  BY <1>1, <1>2, <1>3, <1>4, XtpBroker DEF XtpTypes, Xtp!TypeOK
<1> QED
  BY <1>3, <1>5, <1>6 DEF XtpInv

(* Orders that are only asked to be cancelled.                             *)
SameLives(o, p) ==
  /\ DOMAIN p = DOMAIN o
  /\ \A k \in DOMAIN o :
       /\ p[k].session = o[k].session /\ p[k].id = o[k].id /\ p[k].tag = o[k].tag
       /\ p[k].state = o[k].state /\ p[k].traded = o[k].traded

LEMMA AskedToCancel ==
  ASSUME NEW o, NEW p, OrdersSound(o), SameLives(o, p)
  PROVE  OrdersSound(p) /\ OrdersMove(o, p)
BY DEF OrdersSound, OrdersMove, SameLives

LEMMA XtpOnlyCancels ==
  ASSUME XtpInv, UNCHANGED <<wire, told>>, orders' \in Seq(BrokerOrder),
         SameLives(orders, orders')
  PROVE  XtpOwns(told, wire, orders') /\ Sound(told, Says(XtpSaid, wire), orders')
<1>1. OrdersSound(orders') /\ OrdersMove(orders, orders')
  BY AskedToCancel DEF XtpInv, Sound
<1>2. \A k \in DOMAIN orders' :
        /\ k \in DOMAIN orders
        /\ orders'[k].session = orders[k].session /\ orders'[k].id = orders[k].id
        /\ orders'[k].tag = orders[k].tag
  BY DEF SameLives
<1> QED
  BY <1>1, <1>2, XtpBookMoves

LEMMA XtpCancel ==
  ASSUME XtpInv, NEW k \in DOMAIN orders, Xtp!CancelOrder(k)
  PROVE  XtpInv'
<1>1. XtpTypes /\ Xtp!TypeOK /\ orders \in Seq(BrokerOrder) /\ OrdersSound(orders)
  BY XtpTypesFacts DEF XtpInv, XtpTypes, Sound
<1>2. UNCHANGED <<loginCall, status, session, nextId, library, wire, told>>
  BY DEF Xtp!CancelOrder
<1>3. PICK e : e = [orders[k] EXCEPT !.cancel = "asked"]
  OBVIOUS
<1>4. e \in BrokerOrder /\ orders' = [orders EXCEPT ![k] = e]
  <2>1. orders[k] \in BrokerOrder
    BY <1>1, ElementOfSeq
  <2>2. e \in BrokerOrder
    BY <1>3, <2>1 DEF BrokerOrder
  <2> QED
    BY <1>3, <2>2 DEF Xtp!CancelOrder
<1>5. /\ e.session = orders[k].session /\ e.id = orders[k].id /\ e.tag = orders[k].tag
      /\ e.state = orders[k].state /\ e.traded = orders[k].traded
  BY <1>1, <1>3, ElementOfSeq DEF BrokerOrder
<1>6. orders' \in Seq(BrokerOrder) /\ SameLives(orders, orders')
  BY <1>1, <1>4, <1>5, OrderChanges DEF SameLives
<1>7. XtpTypes'
  BY <1>1, <1>2, <1>6, XtpBroker DEF XtpTypes, Xtp!TypeOK
<1> QED
  BY <1>2, <1>6, <1>7, XtpOnlyCancels DEF XtpInv

(* Nothing of the message is told.                                         *)
LEMMA XtpIgnore ==
  ASSUME XtpInv, wire # <<>>, wire' = Tail(wire),
         UNCHANGED <<loginCall, session, nextId, library, told, orders>>, status' \in {0, 1}
  PROVE  XtpInv'
<1>1. XtpTypes /\ Xtp!TypeOK
  BY DEF XtpInv, XtpTypes
<1>2. /\ Tail(wire) \in Seq(XtpMessage) /\ XtpOwns(told, Tail(wire), orders)
      /\ Sound(told, Says(XtpSaid, Tail(wire)), orders)
  BY XtpSeen
<1>3. XtpTypes'
  BY <1>1, <1>2 DEF XtpTypes, Xtp!TypeOK
<1> QED
  BY <1>2, <1>3 DEF XtpInv

(* One report is told of the message.                                      *)
LEMMA XtpTell ==
  ASSUME XtpInv, wire # <<>>, wire' = Tail(wire), NEW r \in GatewayReport,
         told' = Append(told, r), r.about \in DOMAIN orders, r.id = orders[r.about].id,
         \/ ~ Counts(r)
         \/ /\ Counts(r)
            /\ r.kind = XtpSaid[Head(wire)].kind /\ r.volume = XtpSaid[Head(wire)].volume
            /\ r.about = XtpSaid[Head(wire)].about,
         UNCHANGED <<loginCall, status, session, nextId, library, orders>>
  PROVE  XtpInv'
<1>1. XtpTypes /\ Xtp!TypeOK /\ told \in Seq(GatewayReport) /\ Sound(told, Says(XtpSaid, wire), orders)
  BY XtpTypesFacts DEF XtpInv, XtpTypes
<1>2. /\ Tail(wire) \in Seq(XtpMessage) /\ XtpOwns(told, Tail(wire), orders)
      /\ Says(XtpSaid, wire) # <<>> /\ Says(XtpSaid, wire) \in Seq(Saying)
      /\ Says(XtpSaid, Tail(wire)) = Tail(Says(XtpSaid, wire))
      /\ Head(Says(XtpSaid, wire)) = XtpSaid[Head(wire)]
      /\ Sound(told, Says(XtpSaid, Tail(wire)), orders)
  BY XtpSeen
<1>3. told' \in Seq(GatewayReport) /\ XtpOwns(told', wire', orders')
  BY <1>1, <1>2, XtpOwnsTell, AppendProperties
<1>4. Sound(told', Says(XtpSaid, wire'), orders')
  <2>1. CASE ~ Counts(r)
    BY <1>1, <1>2, <2>1, SoundMention
  <2>2. CASE /\ Counts(r)
             /\ r.kind = XtpSaid[Head(wire)].kind /\ r.volume = XtpSaid[Head(wire)].volume
             /\ r.about = XtpSaid[Head(wire)].about
    BY <1>1, <1>2, <2>2, SoundTake
  <2> QED
    BY <2>1, <2>2
<1>5. XtpTypes'
  BY <1>1, <1>2, <1>3 DEF XtpTypes, Xtp!TypeOK
<1> QED
  BY <1>3, <1>4, <1>5 DEF XtpInv

LEMMA XtpTrade ==
  ASSUME XtpInv, Xtp!OnTradeEvent
  PROVE  XtpInv'
<1>1. /\ wire # <<>> /\ Head(wire).kind = "trade" /\ Head(wire).session = session
      /\ wire' = Tail(wire)
      /\ UNCHANGED <<loginCall, status, session, nextId, library, orders>>
  BY DEF Xtp!OnTradeEvent, Xtp!Event, Xtp!Seen
<1>2. PICK m : m = Head(wire)
  OBVIOUS
<1>3. m \in XtpMessage /\ m.kind = "trade"
  BY <1>1, <1>2, XtpSeen
<1>4. m.volume \in Nat /\ m.about \in Nat
  BY <1>3 DEF XtpMessage
<1>5. m.about \in DOMAIN orders /\ orders[m.about] \in BrokerOrder
      /\ orders[m.about].tag = orders[m.about].id
  BY <1>1, <1>2, XtpOwnEvent
<1>6. PICK r : r = [id |-> orders[m.about].tag, kind |-> "traded", volume |-> m.volume,
                    about |-> m.about]
  OBVIOUS
<1>7. orders[m.about].tag \in Nat
  BY <1>5 DEF BrokerOrder
<1>8. told' = Append(told, r)
  BY <1>2, <1>6, XtpBroker DEF Xtp!OnTradeEvent, Told
<1>9. r \in GatewayReport /\ Counts(r)
  BY <1>4, <1>6, <1>7 DEF GatewayReport, Counts
<1>10. XtpSaid[m] = [kind |-> "traded", volume |-> m.volume, about |-> m.about]
  BY <1>3 DEF XtpSaid
<1>11. r.kind = XtpSaid[m].kind /\ r.volume = XtpSaid[m].volume /\ r.about = XtpSaid[m].about
  BY <1>6, <1>10
<1>12. r.about \in DOMAIN orders /\ r.id = orders[r.about].id
  BY <1>5, <1>6
<1> QED
  BY <1>1, <1>2, <1>8, <1>9, <1>11, <1>12, XtpTell

LEMMA XtpOrder ==
  ASSUME XtpInv, Xtp!OnOrderEvent
  PROVE  XtpInv'
<1>1. /\ wire # <<>> /\ Head(wire).kind = "order" /\ Head(wire).session = session
      /\ wire' = Tail(wire)
      /\ UNCHANGED <<loginCall, status, session, nextId, library, orders>>
  BY DEF Xtp!OnOrderEvent, Xtp!Event, Xtp!Seen
<1>2. PICK m : m = Head(wire)
  OBVIOUS
<1>3. m \in XtpMessage /\ m.kind = "order"
  BY <1>1, <1>2, XtpSeen
<1>4. m.error \in BOOLEAN /\ m.status \in XtpStatuses /\ m.left \in Int /\ m.about \in Nat
  BY <1>3 DEF XtpMessage
<1>5. m.about \in DOMAIN orders /\ orders[m.about] \in BrokerOrder
      /\ orders[m.about].tag = orders[m.about].id
  BY <1>1, <1>2, XtpOwnEvent
<1>6. orders[m.about].tag \in Nat /\ told \in Seq(GatewayReport)
  BY <1>5, XtpTypesFacts DEF BrokerOrder, XtpInv
<1> DEFINE rsp(kind, volume) == [id |-> orders[m.about].tag, kind |-> kind, volume |-> volume,
                                 about |-> m.about]
<1>7. told' = told \o Xtp!OrderReports(m)
  BY <1>2 DEF Xtp!OnOrderEvent
<1>8. ASSUME NEW r \in GatewayReport, Xtp!OrderReports(m) = <<r>>
      PROVE  told' = Append(told, r)
  BY <1>6, <1>7, <1>8, ConcatOne
<1>9. CASE m.error \/ m.status = "rejected"
  <2>1. PICK r : r = rsp("rejected", 0)
    OBVIOUS
  <2>2. Xtp!OrderReports(m) = <<r>>
    BY <1>4, <1>9, <2>1, XtpBroker DEF Xtp!OrderReports, Told, XtpStatuses
  <2>3. r \in GatewayReport /\ Counts(r)
    BY <1>4, <1>6, <2>1 DEF GatewayReport, Counts
  <2>4. XtpSaid[m] = [kind |-> "rejected", volume |-> 0, about |-> m.about]
    BY <1>3, <1>9 DEF XtpSaid
  <2>5. r.kind = XtpSaid[m].kind /\ r.volume = XtpSaid[m].volume /\ r.about = XtpSaid[m].about
    BY <2>1, <2>4
  <2>6. r.about \in DOMAIN orders /\ r.id = orders[r.about].id
    BY <1>5, <2>1
  <2> QED
    BY <1>1, <1>2, <1>8, <2>2, <2>3, <2>5, <2>6, XtpTell
<1>10. CASE ~ m.error /\ m.status \in {"canceled", "partTradedNotQueueing"}
  <2>1. PICK r : r = rsp("canceled", m.left)
    OBVIOUS
  <2>2. Xtp!OrderReports(m) = <<r>>
    BY <1>4, <1>10, <2>1, XtpBroker DEF Xtp!OrderReports, Told, XtpStatuses
  <2>3. r \in GatewayReport /\ Counts(r)
    BY <1>4, <1>6, <2>1 DEF GatewayReport, Counts
  <2>4. XtpSaid[m] = [kind |-> "canceled", volume |-> m.left, about |-> m.about]
    BY <1>3, <1>10 DEF XtpSaid
  <2>5. r.kind = XtpSaid[m].kind /\ r.volume = XtpSaid[m].volume /\ r.about = XtpSaid[m].about
    BY <2>1, <2>4
  <2>6. r.about \in DOMAIN orders /\ r.id = orders[r.about].id
    BY <1>5, <2>1
  <2> QED
    BY <1>1, <1>2, <1>8, <2>2, <2>3, <2>5, <2>6, XtpTell
<1>11. CASE ~ m.error /\ m.status = "noTradeQueueing"
  <2>1. PICK r : r = rsp("accepted", 0)
    OBVIOUS
  <2>2. Xtp!OrderReports(m) = <<r>>
    BY <1>4, <1>11, <2>1, XtpBroker DEF Xtp!OrderReports, Told, XtpStatuses
  <2>3. r \in GatewayReport /\ ~ Counts(r)
    BY <1>4, <1>6, <2>1 DEF GatewayReport, Counts
  <2>4. r.about \in DOMAIN orders /\ r.id = orders[r.about].id
    BY <1>5, <2>1
  <2> QED
    BY <1>1, <1>8, <2>2, <2>3, <2>4, XtpTell
<1>12. CASE ~ m.error /\ m.status \in {"unknown", "partTradedQueueing", "allTraded"}
  <2>1. Xtp!OrderReports(m) = <<>>
    BY <1>4, <1>12 DEF Xtp!OrderReports, XtpStatuses
  <2>2. told' = told
    BY <1>6, <1>7, <2>1, ConcatEmptySeq
  <2>3. status' \in {0, 1}
    BY <1>1 DEF XtpInv, XtpTypes, Xtp!TypeOK
  <2> QED
    BY <1>1, <2>2, <2>3, XtpIgnore
<1> QED
  BY <1>4, <1>9, <1>10, <1>11, <1>12 DEF XtpStatuses

(* The callbacks that tell nothing; the answer to QueryOrders asks for     *)
(* cancels.                                                                *)
LEMMA XtpQuietEvent ==
  ASSUME XtpInv, Xtp!IgnoreEvent \/ Xtp!OnCancelOrderError
  PROVE  XtpInv'
<1>1. /\ wire # <<>> /\ wire' = Tail(wire)
      /\ UNCHANGED <<loginCall, status, session, nextId, library, told, orders>>
  BY DEF Xtp!IgnoreEvent, Xtp!OnCancelOrderError, Xtp!Event, Xtp!Seen
<1>2. status' \in {0, 1}
  BY <1>1 DEF XtpInv, XtpTypes, Xtp!TypeOK
<1> QED
  BY <1>1, <1>2, XtpIgnore

LEMMA XtpQuery ==
  ASSUME XtpInv, Xtp!OnQueryOrder
  PROVE  XtpInv'
<1>1. /\ wire # <<>> /\ wire' = Tail(wire) /\ status' = 1
      /\ UNCHANGED <<loginCall, session, nextId, library, told>>
  BY DEF Xtp!OnQueryOrder, Xtp!Event, Xtp!Seen
<1>2. XtpTypes /\ Xtp!TypeOK /\ orders \in Seq(BrokerOrder) /\ told \in Seq(GatewayReport)
  BY XtpTypesFacts DEF XtpInv, XtpTypes
<1>3. /\ Tail(wire) \in Seq(XtpMessage) /\ XtpOwns(told, Tail(wire), orders)
      /\ Sound(told, Says(XtpSaid, Tail(wire)), orders)
  BY <1>1, XtpSeen
<1>4. /\ DOMAIN orders' = DOMAIN orders
      /\ \A k \in DOMAIN orders :
           orders'[k] = orders[k] \/ orders'[k] = [orders[k] EXCEPT !.cancel = "asked"]
  BY DEF Xtp!OnQueryOrder
<1>5. \A k \in DOMAIN orders :
        /\ orders'[k] \in BrokerOrder
        /\ orders'[k].session = orders[k].session /\ orders'[k].id = orders[k].id
        /\ orders'[k].tag = orders[k].tag
        /\ orders'[k].state = orders[k].state /\ orders'[k].traded = orders[k].traded
  <2>1. SUFFICES ASSUME NEW k \in DOMAIN orders
                 PROVE  /\ orders'[k] \in BrokerOrder
                        /\ orders'[k].session = orders[k].session
                        /\ orders'[k].id = orders[k].id /\ orders'[k].tag = orders[k].tag
                        /\ orders'[k].state = orders[k].state
                        /\ orders'[k].traded = orders[k].traded
    OBVIOUS
  <2>2. orders[k] \in BrokerOrder
    BY <1>2, ElementOfSeq
  <2> QED
    BY <1>4, <2>2 DEF BrokerOrder
<1>6. orders' \in Seq(BrokerOrder)
  <2>1. DOMAIN orders = 1 .. Len(orders) /\ Len(orders) \in Nat
    BY <1>2
  <2>2. orders' \in [1 .. Len(orders) -> BrokerOrder]
    <3>1. orders' = [k \in DOMAIN orders |-> orders'[k]]
      BY DEF Xtp!OnQueryOrder
    <3> QED
      BY <1>5, <2>1, <3>1
  <2> QED
    BY <2>1, <2>2
<1>7. SameLives(orders, orders')
  BY <1>4, <1>5 DEF SameLives
<1>8. XtpOwns(told, Tail(wire), orders')
  <2>1. \A k \in DOMAIN orders' :
          /\ k \in DOMAIN orders /\ orders'[k].session = orders[k].session
          /\ orders'[k].id = orders[k].id /\ orders'[k].tag = orders[k].tag
    BY <1>4, <1>5
  <2> QED
    BY <1>3, <1>4, <2>1, XtpOwnsMove
<1>9. Sound(told, Says(XtpSaid, Tail(wire)), orders')
  <2>1. OrdersSound(orders') /\ OrdersMove(orders, orders')
    BY <1>7, AskedToCancel DEF XtpInv, Sound
  <2>2. Says(XtpSaid, Tail(wire)) \in Seq(Saying)
    BY <1>3, XtpSaidType, SaysType
  <2> QED
    BY <1>2, <1>3, <2>1, <2>2, SoundOrders
<1>10. XtpTypes'
  BY <1>1, <1>2, <1>3, <1>6, XtpBroker DEF XtpTypes, Xtp!TypeOK
<1> QED
  BY <1>1, <1>8, <1>9, <1>10 DEF XtpInv

(* The library loses its connection, or answers the query.                 *)
LEMMA XtpDrops ==
  ASSUME XtpInv, Xtp!LibraryDrops
  PROVE  XtpInv'
<1>1. /\ wire' = <<>> /\ library' = [library EXCEPT !.up = FALSE, !.drops = @ + 1]
      /\ UNCHANGED <<loginCall, status, session, nextId, orders, told>>
  BY DEF Xtp!LibraryDrops
<1>2. XtpTypes /\ Xtp!TypeOK /\ told \in Seq(GatewayReport) /\ wire \in Seq(XtpMessage)
  BY XtpTypesFacts DEF XtpInv, XtpTypes
<1>3. library' \in [session : {0, Xtp!Ours}, up : BOOLEAN, drops : Nat]
      /\ library'.session = library.session
  <2>1. library \in [session : {0, Xtp!Ours}, up : BOOLEAN, drops : Nat]
    BY <1>2 DEF XtpTypes
  <2>2. PICK drops \in Nat : drops = library.drops + 1
    BY <2>1
  <2>3. library' = [library EXCEPT !.up = FALSE, !.drops = drops]
    BY <1>1, <2>2
  <2>4. library'.session = library.session
    BY <2>1, <2>3
  <2>5. library' \in [session : {0, Xtp!Ours}, up : BOOLEAN, drops : Nat]
    BY <2>1, <2>3
  <2> QED
    BY <2>4, <2>5
<1>4. XtpOwns(told, <<>>, orders)
  <2>1. DOMAIN <<>> = {}
    OBVIOUS
  <2> QED
    BY <2>1 DEF XtpInv, XtpOwns
<1>5. Sound(told, Says(XtpSaid, <<>>), orders)
  <2>1. Says(XtpSaid, wire) \in Seq(Saying)
    BY <1>2, XtpSaidType, SaysType
  <2> QED
    BY <1>2, <2>1, SoundLose, SaysEmpty DEF XtpInv
<1>6. <<>> \in Seq(XtpMessage)
  OBVIOUS
<1>7. XtpTypes'
  BY <1>1, <1>2, <1>3, <1>6 DEF XtpTypes, Xtp!TypeOK
<1> QED
  BY <1>1, <1>4, <1>5, <1>7 DEF XtpInv

(* What a message does that the broker or the library sends.               *)
LEMMA XtpSays ==
  ASSUME NEW q \in Seq(XtpMessage), NEW m \in XtpMessage
  PROVE  /\ Says(XtpSaid, q) \in Seq(Saying) /\ XtpSaid[m] \in Saying
         /\ Append(q, m) \in Seq(XtpMessage) /\ q \o <<m>> = Append(q, m)
         /\ Says(XtpSaid, Append(q, m)) = Append(Says(XtpSaid, q), XtpSaid[m])
BY XtpSaidType, SaysType, SaysAppend, ConcatOne

LEMMA XtpAnswers ==
  ASSUME XtpInv, Xtp!LibraryAnswers
  PROVE  XtpInv'
<1>1. UNCHANGED <<loginCall, status, session, nextId, library, orders, told>>
  BY DEF Xtp!LibraryAnswers
<1>2. /\ XtpTypes /\ Xtp!TypeOK /\ told \in Seq(GatewayReport) /\ wire \in Seq(XtpMessage)
      /\ library \in [session : {0, 2}, up : BOOLEAN, drops : Nat]
      /\ orders \in Seq(BrokerOrder)
  BY XtpTypesFacts DEF XtpInv, XtpTypes
<1>3. PICK list : list = {k \in DOMAIN orders : orders[k].state = "queueing"}
  OBVIOUS
<1>4. list \in SUBSET Nat
  BY <1>2, <1>3
<1>5. PICK error \in BOOLEAN :
        wire' = Append(wire, [kind |-> "orders", session |-> library.session, error |-> error,
                              list |-> list])
  BY <1>3 DEF Xtp!LibraryAnswers
<1>6. PICK m : m = [kind |-> "orders", session |-> library.session, error |-> error,
                    list |-> list]
  OBVIOUS
<1>7. m \in XtpMessage /\ m.kind = "orders"
  BY <1>2, <1>4, <1>6 DEF XtpMessage
<1>8. XtpSaid[m] = Nothing
  BY <1>7 DEF XtpSaid
<1>9. ~ Counts(Nothing)
  BY DEF Nothing, Counts
<1>10. wire' \in Seq(XtpMessage) /\ Sound(told, Says(XtpSaid, wire'), orders)
  <2>1. wire' = Append(wire, m)
    BY <1>5, <1>6
  <2>2. /\ Says(XtpSaid, wire) \in Seq(Saying) /\ XtpSaid[m] \in Saying
        /\ wire' \in Seq(XtpMessage)
        /\ Says(XtpSaid, wire') = Append(Says(XtpSaid, wire), XtpSaid[m])
    BY <1>2, <1>7, <2>1, XtpSays
  <2>3. Sound(told, Says(XtpSaid, wire), orders) /\ ~ Counts(XtpSaid[m])
    BY <1>8, <1>9 DEF XtpInv
  <2>4. Sound(told, Append(Says(XtpSaid, wire), XtpSaid[m]), orders)
    BY <1>2, <2>2, <2>3, SayNothing
  <2> QED
    BY <2>2, <2>4
<1>11. XtpOwns(told, wire', orders)
  BY <1>2, <1>5, <1>6, <1>7, XtpOwnsSay DEF XtpInv
<1>12. XtpTypes'
  BY <1>1, <1>2, <1>10 DEF XtpTypes, Xtp!TypeOK
<1> QED
  BY <1>1, <1>10, <1>11, <1>12 DEF XtpInv

(* An order that is alive changes.                                         *)
LEMMA BookChanges ==
  ASSUME NEW o \in Seq(BrokerOrder), OrdersSound(o), NEW k \in DOMAIN o, Alive(o[k]),
         NEW e \in BrokerOrder, e.traded >= o[k].traded, e.state # "sent",
         e.session = o[k].session, e.id = o[k].id, e.tag = o[k].tag,
         NEW p, p = [o EXCEPT ![k] = e]
  PROVE  /\ p \in Seq(BrokerOrder) /\ DOMAIN p = DOMAIN o /\ p[k] = e /\ k \in Nat
         /\ OrdersSound(p) /\ OrdersMove(o, p)
         /\ \A i \in DOMAIN p : /\ i \in DOMAIN o /\ p[i].session = o[i].session
                                /\ p[i].id = o[i].id /\ p[i].tag = o[i].tag
<1>1. /\ p \in Seq(BrokerOrder) /\ DOMAIN p = DOMAIN o /\ p[k] = e
      /\ \A i \in DOMAIN o : i # k => p[i] = o[i]
  BY OrderChanges
<1>2. e.traded \in Nat
  BY DEF BrokerOrder
<1>3. OrdersSound(p)
  BY <1>1, <1>2 DEF OrdersSound
<1>4. OrdersMove(o, p)
  BY <1>1 DEF OrdersMove
<1> QED
  BY <1>1, <1>3, <1>4

(* A step of the broker, given what the orders and the wire become.        *)
LEMMA XtpBrokerStep ==
  ASSUME XtpInv, UNCHANGED <<loginCall, status, session, nextId, library, told>>,
         orders' \in Seq(BrokerOrder), wire' \in Seq(XtpMessage),
         XtpOwns(told, wire', orders'), Sound(told, Says(XtpSaid, wire'), orders')
  PROVE  XtpInv'
<1>1. XtpTypes'
  BY XtpBroker DEF XtpInv, XtpTypes, Xtp!TypeOK
<1> QED
  BY <1>1 DEF XtpInv

(* The end of an order as the broker says it.                              *)
LEMMA XtpSaysEnd ==
  ASSUME XtpInv, UNCHANGED <<loginCall, status, session, nextId, library, told>>,
         NEW k \in DOMAIN orders, Alive(orders[k]), NEW e \in BrokerOrder,
         orders' = [orders EXCEPT ![k] = e], e.traded = orders[k].traded,
         e.state \in {"canceled", "rejected"}, e.state = "rejected" => e.traded = 0,
         e.session = orders[k].session, e.id = orders[k].id, e.tag = orders[k].tag,
         NEW m \in XtpMessage, wire' = IF library.up THEN wire \o <<m>> ELSE wire,
         m.kind = "order", m.session = orders[k].session, m.about = k,
         XtpSaid[m] = [kind |-> e.state,
                       volume |-> IF e.state = "canceled" THEN Volume - e.traded ELSE 0,
                       about |-> k]
  PROVE  XtpInv'
<1>1. /\ orders \in Seq(BrokerOrder) /\ wire \in Seq(XtpMessage) /\ told \in Seq(GatewayReport)
      /\ OrdersSound(orders)
  BY XtpTypesFacts DEF XtpInv, Sound
<1>2. orders[k].traded \in Nat
  BY <1>1 DEF OrdersSound
<1>3. e.traded >= orders[k].traded /\ e.state # "sent"
  BY <1>2
<1>4. PICK p : p = orders'
  OBVIOUS
<1>5. /\ p \in Seq(BrokerOrder) /\ DOMAIN p = DOMAIN orders /\ p[k] = e
      /\ OrdersSound(p) /\ OrdersMove(orders, p)
      /\ \A i \in DOMAIN p :
           /\ i \in DOMAIN orders /\ p[i].session = orders[i].session
           /\ p[i].id = orders[i].id /\ p[i].tag = orders[i].tag
  BY <1>1, <1>3, <1>4, BookChanges
<1>6. XtpOwns(told, wire, p) /\ Sound(told, Says(XtpSaid, wire), p)
  BY <1>4, <1>5, XtpBookMoves
<1>7. CASE ~ library.up
  BY <1>1, <1>4, <1>5, <1>6, <1>7, XtpBrokerStep
<1>8. CASE library.up
  <2>1. /\ Says(XtpSaid, wire) \in Seq(Saying) /\ XtpSaid[m] \in Saying
        /\ wire' = Append(wire, m) /\ wire' \in Seq(XtpMessage)
        /\ Says(XtpSaid, wire') = Append(Says(XtpSaid, wire), XtpSaid[m])
    BY <1>1, <1>8, XtpSays
  <2>2. XtpSaid[m].about = k /\ XtpSaid[m].kind = e.state
        /\ (e.state = "canceled" => XtpSaid[m].volume = Volume - e.traded)
    OBVIOUS
  <2>3. Ends(XtpSaid[m]) /\ ReportSound(XtpSaid[m], p)
    BY <1>5, <2>2 DEF Ends, ReportSound
  <2>4. Sound(told, Says(XtpSaid, wire), orders)
    BY DEF XtpInv
  <2>5. Sound(told, Append(Says(XtpSaid, wire), XtpSaid[m]), p)
    BY <1>1, <1>5, <2>1, <2>2, <2>3, <2>4, SayEnd
  <2>6. XtpOwns(told, wire', p)
    <3>1. m.about \in DOMAIN p /\ m.session = p[m.about].session
      BY <1>5
    <3> QED
      BY <1>1, <1>6, <2>1, <3>1, XtpOwnsSay
  <2> QED
    BY <1>4, <1>5, <2>1, <2>5, <2>6, XtpBrokerStep
<1> QED
  BY <1>7, <1>8

(* The broker takes an order.                                              *)
LEMMA XtpTakes ==
  ASSUME XtpInv, NEW k \in DOMAIN orders, Xtp!BrokerTakes(k)
  PROVE  XtpInv'
<1>1. /\ UNCHANGED <<loginCall, status, session, nextId, library, told>>
      /\ orders[k].state = "sent"
  BY DEF Xtp!BrokerTakes
<1>2. /\ orders \in Seq(BrokerOrder) /\ wire \in Seq(XtpMessage) /\ told \in Seq(GatewayReport)
      /\ OrdersSound(orders) /\ Volume \in Nat \ {0}
  BY XtpTypesFacts DEF XtpInv, Sound
<1>3. /\ orders[k] \in BrokerOrder /\ k \in Nat /\ Alive(orders[k]) /\ orders[k].traded = 0
      /\ orders[k].session \in Nat
  <2>1. orders[k] \in BrokerOrder /\ k \in Nat
    BY <1>2, ElementOfSeq
  <2>2. orders[k].session \in Nat
    BY <2>1 DEF BrokerOrder
  <2>3. Alive(orders[k]) /\ orders[k].traded = 0
    BY <1>1, <1>2 DEF Alive, OrdersSound
  <2> QED
    BY <2>1, <2>2, <2>3
<1>4. PICK outcome \in {"queueing", "rejected", "canceled"} :
        /\ orders' = [orders EXCEPT ![k].state = outcome]
        /\ Xtp!BrokerSays(
             CASE outcome = "queueing" ->
                    <<Xtp!OrderEvent(k, FALSE, "unknown", Volume),
                      Xtp!OrderEvent(k, FALSE, "noTradeQueueing", Volume)>>
               [] outcome = "rejected" -> <<Xtp!OrderEvent(k, TRUE, "rejected", Volume)>>
               [] outcome = "canceled" -> <<Xtp!OrderEvent(k, FALSE, "canceled", Volume)>>)
  BY DEF Xtp!BrokerTakes
<1>5. PICK e : e = [orders[k] EXCEPT !.state = outcome]
  OBVIOUS
<1>6. /\ e \in BrokerOrder /\ e.state = outcome /\ e.traded = orders[k].traded
      /\ e.session = orders[k].session /\ e.id = orders[k].id /\ e.tag = orders[k].tag
  BY <1>3, <1>5 DEF BrokerOrder, OrderStates
<1>7. orders' = [orders EXCEPT ![k] = e]
  BY <1>4, <1>5
<1> DEFINE event(error, state) ==
             [kind |-> "order", session |-> orders[k].session, about |-> k, error |-> error,
              status |-> state, left |-> Volume]
<1>8. ASSUME NEW error \in BOOLEAN, NEW state \in XtpStatuses
      PROVE  /\ event(error, state) \in XtpMessage
             /\ Xtp!OrderEvent(k, error, state, Volume) = event(error, state)
  BY <1>2, <1>3 DEF XtpMessage, Xtp!OrderEvent
<1>9. CASE outcome = "queueing"
  <2>1. PICK a : a = event(FALSE, "unknown")
    OBVIOUS
  <2>2. PICK b : b = event(FALSE, "noTradeQueueing")
    OBVIOUS
  <2>3. a \in XtpMessage /\ b \in XtpMessage
    BY <1>8, <2>1, <2>2 DEF XtpStatuses
  <2>4. XtpSaid[a] = Nothing /\ XtpSaid[b] = Nothing /\ ~ Counts(Nothing)
    BY <2>1, <2>2, <2>3 DEF XtpSaid, Nothing, Counts
  <2>5. wire' = IF library.up THEN wire \o <<a, b>> ELSE wire
    BY <1>4, <1>9, <2>1, <2>2 DEF Xtp!BrokerSays, Xtp!OrderEvent
  <2>6. PICK p : p = orders'
    OBVIOUS
  <2>7. /\ p \in Seq(BrokerOrder) /\ DOMAIN p = DOMAIN orders /\ p[k] = e
        /\ OrdersSound(p) /\ OrdersMove(orders, p)
        /\ \A i \in DOMAIN p :
             /\ i \in DOMAIN orders /\ p[i].session = orders[i].session
             /\ p[i].id = orders[i].id /\ p[i].tag = orders[i].tag
    <3>1. e.traded >= orders[k].traded /\ e.state # "sent"
      BY <1>3, <1>6, <1>9
    <3> QED
      BY <1>2, <1>3, <1>6, <1>7, <2>6, <3>1, BookChanges
  <2>8. XtpOwns(told, wire, p) /\ Sound(told, Says(XtpSaid, wire), p)
    BY <2>6, <2>7, XtpBookMoves
  <2>9. CASE ~ library.up
    BY <1>1, <1>2, <2>5, <2>6, <2>7, <2>8, <2>9, XtpBrokerStep
  <2>10. CASE library.up
    <3>1. PICK q : q = Append(wire, a)
      OBVIOUS
    <3>2. /\ Says(XtpSaid, wire) \in Seq(Saying) /\ XtpSaid[a] \in Saying
          /\ q \in Seq(XtpMessage)
          /\ Says(XtpSaid, q) = Append(Says(XtpSaid, wire), XtpSaid[a])
      BY <1>2, <2>3, <3>1, XtpSays
    <3>3. /\ Says(XtpSaid, q) \in Seq(Saying) /\ XtpSaid[b] \in Saying
          /\ Append(q, b) \in Seq(XtpMessage)
          /\ Says(XtpSaid, Append(q, b)) = Append(Says(XtpSaid, q), XtpSaid[b])
      BY <2>3, <3>2, XtpSays
    <3>4. wire' = Append(q, b)
      BY <1>2, <2>3, <2>5, <2>10, <3>1, ConcatTwo
    <3>5. Sound(told, Says(XtpSaid, q), p)
      BY <1>2, <2>4, <2>8, <3>2, SayNothing
    <3>6. Sound(told, Says(XtpSaid, wire'), p)
      BY <1>2, <2>4, <3>3, <3>4, <3>5, SayNothing
    <3>7. /\ a.about \in DOMAIN p /\ a.session = p[a.about].session
          /\ b.about \in DOMAIN p /\ b.session = p[b.about].session
      BY <2>1, <2>2, <2>7
    <3>8. XtpOwns(told, q, p)
      BY <1>2, <2>3, <2>8, <3>1, <3>7, XtpOwnsSay
    <3>9. XtpOwns(told, wire', p)
      BY <2>3, <3>2, <3>4, <3>7, <3>8, XtpOwnsSay
    <3> QED
      BY <1>1, <2>6, <2>7, <3>3, <3>4, <3>6, <3>9, XtpBrokerStep
  <2> QED
    BY <2>9, <2>10
<1>10. CASE outcome = "rejected"
  <2>1. PICK m : m = event(TRUE, "rejected")
    OBVIOUS
  <2>2. m \in XtpMessage
    BY <1>8, <2>1 DEF XtpStatuses
  <2>3. wire' = IF library.up THEN wire \o <<m>> ELSE wire
    BY <1>4, <1>10, <2>1 DEF Xtp!BrokerSays, Xtp!OrderEvent
  <2>4. XtpSaid[m] = [kind |-> "rejected", volume |-> 0, about |-> k]
    BY <2>1, <2>2 DEF XtpSaid
  <2>5. m.kind = "order" /\ m.session = orders[k].session /\ m.about = k
    BY <2>1
  <2> QED
    BY <1>1, <1>3, <1>6, <1>7, <1>10, <2>2, <2>3, <2>4, <2>5, XtpSaysEnd
<1>11. CASE outcome = "canceled"
  <2>1. PICK m : m = event(FALSE, "canceled")
    OBVIOUS
  <2>2. m \in XtpMessage
    BY <1>8, <2>1 DEF XtpStatuses
  <2>3. wire' = IF library.up THEN wire \o <<m>> ELSE wire
    BY <1>4, <1>11, <2>1 DEF Xtp!BrokerSays, Xtp!OrderEvent
  <2>4. Volume = Volume - e.traded
    BY <1>2, <1>3, <1>6
  <2>5. XtpSaid[m] = [kind |-> "canceled", volume |-> Volume - e.traded, about |-> k]
    BY <2>1, <2>2, <2>4 DEF XtpSaid
  <2>6. m.kind = "order" /\ m.session = orders[k].session /\ m.about = k
    BY <2>1
  <2> QED
    BY <1>1, <1>3, <1>6, <1>7, <1>11, <2>2, <2>3, <2>5, <2>6, XtpSaysEnd
<1> QED
  BY <1>9, <1>10, <1>11

(* What trading makes of an order.                                         *)
LEMMA FilledOrder ==
  ASSUME Volume \in Nat \ {0}, NEW o \in BrokerOrder, NEW volume \in 1 .. Volume,
         volume <= Volume - o.traded
  PROVE  /\ BrokerFilled(o, volume) \in BrokerOrder
         /\ BrokerFilled(o, volume).traded = o.traded + volume
         /\ BrokerFilled(o, volume).state # "sent"
         /\ BrokerFilled(o, volume).session = o.session
         /\ BrokerFilled(o, volume).id = o.id /\ BrokerFilled(o, volume).tag = o.tag
         /\ o.traded \in Nat
<1>1. PICK n : n = o.traded + volume
  OBVIOUS
<1>2. o.traded \in 0 .. Volume
  BY DEF BrokerOrder
<1>3. n \in 0 .. Volume
  BY <1>1, <1>2
<1>4. PICK s \in {"traded", "queueing"} : s = IF n = Volume THEN "traded" ELSE "queueing"
  OBVIOUS
<1>5. BrokerFilled(o, volume) = [o EXCEPT !.traded = n, !.state = s]
  BY <1>1, <1>4 DEF BrokerFilled
<1>6. PICK e : e = [o EXCEPT !.traded = n, !.state = s]
  OBVIOUS
<1>7. e.traded = n /\ e.state = s /\ e.session = o.session /\ e.id = o.id /\ e.tag = o.tag
  BY <1>6 DEF BrokerOrder
<1>8. e \in BrokerOrder
  BY <1>3, <1>6 DEF BrokerOrder, OrderStates
<1> QED
  BY <1>1, <1>2, <1>4, <1>5, <1>6, <1>7, <1>8

(* The broker trades some of an order.                                     *)
LEMMA XtpTrades ==
  ASSUME XtpInv, NEW k \in DOMAIN orders, NEW volume \in 1 .. Volume,
         Xtp!BrokerTrades(k, volume)
  PROVE  XtpInv'
<1>1. /\ UNCHANGED <<loginCall, status, session, nextId, library, told>>
      /\ orders[k].state = "queueing" /\ volume <= Volume - orders[k].traded
  BY DEF Xtp!BrokerTrades
<1>2. /\ orders \in Seq(BrokerOrder) /\ wire \in Seq(XtpMessage) /\ told \in Seq(GatewayReport)
      /\ OrdersSound(orders) /\ Volume \in Nat \ {0}
  BY XtpTypesFacts DEF XtpInv, Sound
<1>3. orders[k] \in BrokerOrder /\ k \in Nat /\ Alive(orders[k])
  BY <1>1, <1>2, ElementOfSeq DEF Alive
<1>4. orders[k].session \in Nat
  BY <1>3 DEF BrokerOrder
<1>5. PICK e : e = BrokerFilled(orders[k], volume)
  OBVIOUS
<1>6. /\ e \in BrokerOrder /\ e.traded = orders[k].traded + volume /\ e.state # "sent"
      /\ e.session = orders[k].session /\ e.id = orders[k].id /\ e.tag = orders[k].tag
      /\ orders[k].traded \in Nat
  BY <1>1, <1>2, <1>3, <1>5, FilledOrder
<1>7. orders' = [orders EXCEPT ![k] = e]
  BY <1>5, XtpBroker DEF Xtp!BrokerTrades
<1>8. e.traded >= orders[k].traded /\ e.traded \in Nat /\ Volume - e.traded \in Int
  BY <1>2, <1>6
<1>9. PICK p : p = orders'
  OBVIOUS
<1>10. /\ p \in Seq(BrokerOrder) /\ DOMAIN p = DOMAIN orders /\ p[k] = e
       /\ OrdersSound(p) /\ OrdersMove(orders, p)
       /\ \A i \in DOMAIN p :
            /\ i \in DOMAIN orders /\ p[i].session = orders[i].session
            /\ p[i].id = orders[i].id /\ p[i].tag = orders[i].tag
  BY <1>2, <1>3, <1>6, <1>7, <1>8, <1>9, BookChanges
<1>11. XtpOwns(told, wire, p) /\ Sound(told, Says(XtpSaid, wire), p)
  BY <1>9, <1>10, XtpBookMoves
<1>12. PICK s \in {"allTraded", "partTradedQueueing"} :
         s = IF e.state = "traded" THEN "allTraded" ELSE "partTradedQueueing"
  OBVIOUS
<1>13. PICK a : a = [kind |-> "order", session |-> orders[k].session, about |-> k,
                     error |-> FALSE, status |-> s, left |-> Volume - e.traded]
  OBVIOUS
<1>14. PICK b : b = [kind |-> "trade", session |-> orders[k].session, about |-> k,
                     volume |-> volume]
  OBVIOUS
<1>15. volume \in Nat
  BY <1>2
<1>16. a \in XtpMessage
  BY <1>3, <1>4, <1>8, <1>12, <1>13 DEF XtpMessage, XtpStatuses
<1>17. b \in XtpMessage
  BY <1>3, <1>4, <1>14, <1>15 DEF XtpMessage
<1>18. orders'[k] = e
  BY <1>9, <1>10
<1>19. wire' = IF library.up THEN wire \o <<a, b>> ELSE wire
  BY <1>12, <1>13, <1>14, <1>18 DEF Xtp!BrokerTrades, Xtp!BrokerSays, Xtp!OrderEvent
<1>20. CASE ~ library.up
  BY <1>1, <1>2, <1>9, <1>10, <1>11, <1>19, <1>20, XtpBrokerStep
<1>21. CASE library.up
  <2>1. PICK q : q = Append(wire, a)
    OBVIOUS
  <2>2. /\ Says(XtpSaid, wire) \in Seq(Saying) /\ XtpSaid[a] \in Saying
        /\ q \in Seq(XtpMessage)
        /\ Says(XtpSaid, q) = Append(Says(XtpSaid, wire), XtpSaid[a])
    BY <1>2, <1>16, <2>1, XtpSays
  <2>3. /\ Says(XtpSaid, q) \in Seq(Saying) /\ XtpSaid[b] \in Saying
        /\ Append(q, b) \in Seq(XtpMessage)
        /\ Says(XtpSaid, Append(q, b)) = Append(Says(XtpSaid, q), XtpSaid[b])
    BY <1>17, <2>2, XtpSays
  <2>4. wire' = Append(q, b)
    BY <1>2, <1>16, <1>17, <1>19, <1>21, <2>1, ConcatTwo
  <2>5. XtpSaid[a] = Nothing
    <3>1. /\ a.kind = "order" /\ ~ a.error /\ a.status # "rejected"
          /\ a.status \notin {"canceled", "partTradedNotQueueing"}
      BY <1>12, <1>13
    <3> QED
      BY <1>16, <3>1 DEF XtpSaid
  <2>6. ~ Counts(XtpSaid[a])
    BY <2>5 DEF Nothing, Counts
  <2>7. XtpSaid[b] = [kind |-> "traded", volume |-> volume, about |-> k]
    BY <1>14, <1>17 DEF XtpSaid
  <2>8. Sound(told, Says(XtpSaid, q), orders)
    BY <1>2, <2>2, <2>6, SayNothing DEF XtpInv
  <2>9. XtpSaid[b].kind = "traded" /\ XtpSaid[b].volume = volume /\ XtpSaid[b].about = k
    BY <2>7
  <2>10. Sound(told, Append(Says(XtpSaid, q), XtpSaid[b]), p)
    BY <1>2, <1>6, <1>10, <1>15, <2>3, <2>8, <2>9, SayTrade
  <2>11. /\ a.about \in DOMAIN p /\ a.session = p[a.about].session
         /\ b.about \in DOMAIN p /\ b.session = p[b.about].session
    BY <1>10, <1>13, <1>14
  <2>12. XtpOwns(told, q, p)
    BY <1>2, <1>11, <1>16, <2>1, <2>11, XtpOwnsSay
  <2>13. XtpOwns(told, wire', p)
    BY <1>17, <2>2, <2>4, <2>11, <2>12, XtpOwnsSay
  <2> QED
    BY <1>1, <1>9, <1>10, <2>3, <2>4, <2>10, <2>13, XtpBrokerStep
<1> QED
  BY <1>20, <1>21

(* The broker cancels an order, or refuses to.                             *)
LEMMA XtpCancels ==
  ASSUME XtpInv, NEW k \in DOMAIN orders, Xtp!BrokerCancels(k)
  PROVE  XtpInv'
<1>1. UNCHANGED <<loginCall, status, session, nextId, library, told>>
  BY DEF Xtp!BrokerCancels
<1>2. /\ orders \in Seq(BrokerOrder) /\ wire \in Seq(XtpMessage) /\ told \in Seq(GatewayReport)
      /\ Volume \in Nat \ {0}
  BY XtpTypesFacts DEF XtpInv
<1>3. orders[k] \in BrokerOrder /\ k \in Nat
  BY <1>2, ElementOfSeq
<1>4. orders[k].session \in Nat /\ orders[k].traded \in 0 .. Volume
  BY <1>3 DEF BrokerOrder
<1>5. PICK ok \in BOOLEAN :
        /\ ok => orders[k].state = "queueing"
        /\ orders' = [orders EXCEPT ![k].cancel = "answered",
                                    ![k].state = IF ok THEN "canceled" ELSE @]
        /\ Xtp!BrokerSays(
             IF ok THEN <<Xtp!OrderEvent(k, FALSE,
                            IF orders[k].traded > 0 THEN "partTradedNotQueueing" ELSE "canceled",
                            Volume - orders[k].traded)>>
                   ELSE <<[kind |-> "cancelError", session |-> orders[k].session]>>)
  BY DEF Xtp!BrokerCancels
<1>6. CASE ok
  <2>1. PICK e : e = [orders[k] EXCEPT !.cancel = "answered", !.state = "canceled"]
    OBVIOUS
  <2>2. /\ e.state = "canceled" /\ e.traded = orders[k].traded
        /\ e.session = orders[k].session /\ e.id = orders[k].id /\ e.tag = orders[k].tag
    BY <1>3, <2>1 DEF BrokerOrder
  <2>3. e \in BrokerOrder
    BY <1>3, <2>1 DEF BrokerOrder, OrderStates
  <2>4. orders' = [orders EXCEPT ![k] = e]
    BY <1>2, <1>5, <1>6, <2>1
  <2>5. Alive(orders[k])
    BY <1>5, <1>6 DEF Alive
  <2>6. PICK s \in {"partTradedNotQueueing", "canceled"} :
          s = IF orders[k].traded > 0 THEN "partTradedNotQueueing" ELSE "canceled"
    OBVIOUS
  <2>7. PICK left \in Int : left = Volume - orders[k].traded
    BY <1>2, <1>4
  <2>8. PICK m : m = [kind |-> "order", session |-> orders[k].session, about |-> k,
                      error |-> FALSE, status |-> s, left |-> left]
    OBVIOUS
  <2>9. m \in XtpMessage
    BY <1>3, <1>4, <2>6, <2>7, <2>8 DEF XtpMessage, XtpStatuses
  <2>10. wire' = IF library.up THEN wire \o <<m>> ELSE wire
    BY <1>5, <1>6, <2>6, <2>7, <2>8 DEF Xtp!BrokerSays, Xtp!OrderEvent
  <2>11. /\ m.kind = "order" /\ ~ m.error /\ m.status # "rejected" /\ m.left = left
         /\ m.status \in {"canceled", "partTradedNotQueueing"}
         /\ m.session = orders[k].session /\ m.about = k
    BY <2>6, <2>8
  <2>12. XtpSaid[m] = [kind |-> "canceled", volume |-> Volume - e.traded, about |-> k]
    BY <2>2, <2>7, <2>9, <2>11 DEF XtpSaid
  <2> QED
    BY <1>1, <2>2, <2>3, <2>4, <2>5, <2>9, <2>10, <2>11, <2>12, XtpSaysEnd
<1>7. CASE ~ ok
  <2>1. PICK e : e = [orders[k] EXCEPT !.cancel = "answered"]
    OBVIOUS
  <2>2. /\ e.state = orders[k].state /\ e.traded = orders[k].traded
        /\ e.session = orders[k].session /\ e.id = orders[k].id /\ e.tag = orders[k].tag
    BY <1>3, <2>1 DEF BrokerOrder
  <2>3. e \in BrokerOrder
    BY <1>3, <2>1 DEF BrokerOrder
  <2>4. orders' = [orders EXCEPT ![k] = e]
    <3>1. orders' = [orders EXCEPT ![k] =
                       [orders[k] EXCEPT !.cancel = "answered", !.state = orders[k].state]]
      BY <1>5, <1>7
    <3>2. [orders[k] EXCEPT !.cancel = "answered", !.state = orders[k].state] = e
      BY <1>3, <2>1 DEF BrokerOrder
    <3> QED
      BY <3>1, <3>2
  <2>5. PICK p : p = orders'
    OBVIOUS
  <2>6. p \in Seq(BrokerOrder) /\ SameLives(orders, p)
    BY <1>2, <2>2, <2>3, <2>4, <2>5, OrderChanges DEF SameLives
  <2>7. OrdersSound(p) /\ OrdersMove(orders, p)
    BY <2>6, AskedToCancel DEF XtpInv, Sound
  <2>8. \A i \in DOMAIN p :
          /\ i \in DOMAIN orders /\ p[i].session = orders[i].session
          /\ p[i].id = orders[i].id /\ p[i].tag = orders[i].tag
    BY <2>6 DEF SameLives
  <2>9. XtpOwns(told, wire, p) /\ Sound(told, Says(XtpSaid, wire), p)
    BY <2>5, <2>6, <2>7, <2>8, XtpBookMoves
  <2>10. PICK m : m = [kind |-> "cancelError", session |-> orders[k].session]
    OBVIOUS
  <2>11. m \in XtpMessage /\ m.kind = "cancelError"
    BY <1>4, <2>10 DEF XtpMessage
  <2>12. wire' = IF library.up THEN wire \o <<m>> ELSE wire
    BY <1>5, <1>7, <2>10 DEF Xtp!BrokerSays
  <2>13. CASE ~ library.up
    BY <1>1, <1>2, <2>5, <2>6, <2>9, <2>12, <2>13, XtpBrokerStep
  <2>14. CASE library.up
    <3>1. /\ Says(XtpSaid, wire) \in Seq(Saying) /\ XtpSaid[m] \in Saying
          /\ wire' = Append(wire, m) /\ wire' \in Seq(XtpMessage)
          /\ Says(XtpSaid, wire') = Append(Says(XtpSaid, wire), XtpSaid[m])
      BY <1>2, <2>11, <2>12, <2>14, XtpSays
    <3>2. XtpSaid[m] = Nothing /\ ~ Counts(Nothing)
      BY <2>11 DEF XtpSaid, Nothing, Counts
    <3>3. Sound(told, Says(XtpSaid, wire'), p)
      BY <1>2, <2>9, <3>1, <3>2, SayNothing
    <3>4. XtpOwns(told, wire', p)
      BY <1>2, <2>9, <2>11, <3>1, XtpOwnsSay
    <3> QED
      BY <1>1, <2>5, <2>6, <3>1, <3>3, <3>4, XtpBrokerStep
  <2> QED
    BY <2>13, <2>14
<1> QED
  BY <1>6, <1>7

(* Every step keeps the invariant.                                         *)
LEMMA XtpSteps == XtpInv /\ [Xtp!Next]_(Xtp!vars) => XtpInv'
<1> SUFFICES ASSUME XtpInv, [Xtp!Next]_(Xtp!vars) PROVE XtpInv'
  OBVIOUS
<1>1. CASE UNCHANGED Xtp!vars
  BY <1>1 DEF XtpInv, XtpTypes, Xtp!TypeOK, Xtp!vars
<1>2. CASE Xtp!BrokerStep
  <2>1. PICK k \in DOMAIN orders :
          \/ Xtp!BrokerTakes(k) \/ Xtp!BrokerCancels(k)
          \/ \E v \in 1 .. Volume : Xtp!BrokerTrades(k, v)
    BY <1>2 DEF Xtp!BrokerStep
  <2> QED
    BY <2>1, XtpTakes, XtpCancels, XtpTrades
<1>3. CASE Xtp!Callback
  BY <1>3, XtpQuietEvent, XtpOrder, XtpTrade, XtpQuery DEF Xtp!Callback
<1>4. CASE Xtp!Login \/ Xtp!Logout
  BY <1>4, XtpLogin
<1>5. CASE Xtp!SendOrder \/ \E k \in DOMAIN orders : Xtp!CancelOrder(k)
  BY <1>5, XtpSend, XtpCancel
<1>6. CASE Xtp!LibraryDrops \/ Xtp!LibraryAnswers
  BY <1>6, XtpDrops, XtpAnswers
<1> QED
  BY <1>1, <1>2, <1>3, <1>4, <1>5, <1>6 DEF Xtp!Next

LEMMA XtpAlways ==
  ASSUME BrokerAssumption, Xtp!XtpAssumption
  PROVE  Xtp!Spec => []XtpInv
<1>1. Xtp!Init => XtpInv
  BY XtpInitially
<1> QED
  BY <1>1, XtpSteps, PTL DEF Xtp!Spec

(* XtpTradeApi keeps to its types: once Login has returned true the        *)
(* session is the library's, and outside of it there is none.              *)
THEOREM XtpTypeCorrect ==
  ASSUME BrokerAssumption, Xtp!XtpAssumption
  PROVE  Xtp!Spec => []Xtp!TypeOK
<1>1. XtpInv => Xtp!TypeOK
  BY DEF XtpInv, XtpTypes
<1> QED
  BY <1>1, XtpAlways, PTL

(* A report of XtpTradeApi with the id of an order of this run is about    *)
(* that order: what other sessions of the account do never reaches the OMS.*)
THEOREM XtpOwnReportsCorrect ==
  ASSUME BrokerAssumption, Xtp!XtpAssumption
  PROVE  Xtp!Spec => []Xtp!OnlyOwnReports
<1>1. XtpInv => Xtp!OnlyOwnReports
  BY DEF XtpInv, XtpOwns, Xtp!OnlyOwnReports, Xtp!NoForeignReports
<1> QED
  BY <1>1, XtpAlways, PTL

(* What XtpTradeApi tells the OMS of an order of this run adds up to the   *)
(* order's life: one end at most, no more trades than there were, and a    *)
(* cancelled volume that is what the trades left.                          *)
THEOREM XtpReportsCorrect ==
  ASSUME BrokerAssumption, Xtp!XtpAssumption
  PROVE  Xtp!Spec => []Xtp!ReportsAreSound
<1>1. ASSUME NEW q, NEW k PROVE Xtp!VolumeOf(q, k) = VolumeOf(q, k)
  BY DEF Xtp!VolumeOf, VolumeOf, Xtp!TradeOf, TradeOf, Xtp!SumTo, SumTo
<1>2. Xtp!ReportsAreSound <=> LivesAreSound(told, orders)
  BY <1>1 DEF Xtp!LivesAreSound, LivesAreSound, Xtp!LifeOf, LifeOf, Xtp!Ends, Ends,
     Xtp!ReportsAreSound
<1>3. XtpInv => LivesAreSound(told, orders)
  <2>1. SUFFICES ASSUME XtpInv PROVE LivesAreSound(told, orders)
    OBVIOUS
  <2>2. told \in Seq(GatewayReport) /\ Says(XtpSaid, wire) \in Seq(Saying)
    BY <2>1, XtpTypesFacts, XtpSaidType, SaysType DEF XtpInv
  <2> QED
    BY <2>1, <2>2, SoundLives DEF XtpInv
<1>4. XtpInv => Xtp!ReportsAreSound
  BY <1>2, <1>3
<1> QED
  BY <1>4, XtpAlways, PTL

-----------------------------------------------------------------------------
(* CtpTradeApi.  The types of messages under way and of the front.         *)

CtpStates ==
  {"unknown", "noTradeQueueing", "canceled", "partTradedNotQueueing",
   "partTradedQueueing", "allTraded"}

CtpSubmits ==
  {"insertSubmitted", "accepted", "insertRejected", "cancelSubmitted", "cancelRejected"}

CtpMessage ==
  [kind : {"connected", "disconnected"}]
    \union [kind : {"answer"}, to : {"login"}, ok : {TRUE}, session : Nat, maxRef : Nat]
    \union [kind : {"answer"}, to : {"login"}, ok : {FALSE}, list : SUBSET Nat]
    \union [kind : {"answer"}, to : Ctp!Requests \ {"login"}, ok : BOOLEAN, list : SUBSET Nat]
    \union [kind : {"answer"}, to : {"orderAction"}, ok : {FALSE}]
    \union [kind : {"rspOrderInsert"}, about : Nat]
    \union [kind : {"rtnOrder"}, about : Nat, submit : CtpSubmits, state : CtpStates, traded : Int]
    \union [kind : {"rtnTrade"}, about : Nat, volume : Nat]

CtpTypes ==
  /\ BrokerAssumption /\ Ctp!CtpAssumption
  /\ Ctp!TypeOK
  /\ nextId \in 1 .. MaxOrders + 1
  /\ front \in [connected : BOOLEAN, sessions : Nat, drops : Nat]
  /\ wire \in Seq(CtpMessage)
  /\ told \in Seq(GatewayReport)

(* What the callbacks will tell the OMS of a message.                      *)
CtpSaid ==
  [m \in CtpMessage |->
     IF m.kind = "rtnTrade" THEN [kind |-> "traded", volume |-> m.volume, about |-> m.about]
     ELSE IF m.kind = "rspOrderInsert"
          THEN [kind |-> "rejected", volume |-> 0, about |-> m.about]
     ELSE IF m.kind # "rtnOrder" THEN Nothing
     ELSE IF m.submit = "insertRejected"
          THEN [kind |-> "rejected", volume |-> 0, about |-> m.about]
     ELSE IF \/ m.submit = "accepted" /\ m.state \in {"canceled", "partTradedNotQueueing"}
             \/ m.submit = "insertSubmitted" /\ m.state = "canceled"
          THEN [kind |-> "canceled", volume |-> Volume - m.traded, about |-> m.about]
     ELSE Nothing]

(* A login goes one message at a time: the connection, the answer to the   *)
(* authentication, the answer to the login itself.                         *)
BeforeLogin(m) == m.kind = "connected" \/ (m.kind = "answer" /\ m.to = "authenticate")

LoginAnswer(m) == m.kind = "answer" /\ m.to = "login" /\ m.ok

AfterLogin(m) == m.kind = "answer" /\ m.to \in {"settlement", "confirm", "orders"}

IsReport(m) == m.kind \in {"rspOrderInsert", "rtnOrder", "rtnTrade"}

IsToken(m) == BeforeLogin(m) \/ LoginAnswer(m)

NoToken(w) == \A i \in DOMAIN w : ~ IsToken(w[i])

(* No ref is larger when the front has given n sessions.                   *)
RefBound(n) == Leftovers + n * (MaxOrders + 1)

(* A message under way with the front as f and the client's session as s.  *)
MessageOK(m, f, s, o) ==
  /\ BeforeLogin(m) => f.connected /\ f.sessions <= f.drops
  /\ LoginAnswer(m) =>
       /\ f.connected /\ m.session = f.sessions /\ s < f.sessions
       /\ Leftovers <= m.maxRef /\ m.maxRef < RefBound(f.sessions)
  /\ AfterLogin(m) => s > 0
  /\ IsReport(m) => s > 0 /\ m.about \in DOMAIN o

WireOK(w, f, s, o) ==
  /\ \A i \in DOMAIN w : MessageOK(w[i], f, s, o)
  /\ \A i, j \in DOMAIN w : IsToken(w[i]) /\ IsToken(w[j]) => i = j

AskedOK(a, w, f, s) ==
  /\ a \in {"authenticate", "login"} => f.connected /\ f.sessions <= f.drops /\ NoToken(w)
  /\ a \in {"settlement", "confirm", "orders"} => s > 0

FrontOK(f) ==
  /\ f.drops <= MaxDisconnects
  /\ f.sessions <= IF f.connected THEN f.drops + 1 ELSE f.drops

(* The base is above the refs of an earlier run once there is a session.   *)
BaseOK(b, s, f) == b <= RefBound(f.sessions) /\ s <= f.sessions /\ (s > 0 => b > Leftovers)

BookOK(o, s, f) ==
  /\ Leftovers = 0 \/ \E k \in DOMAIN o : o[k].tag = Leftovers
  /\ \A k \in DOMAIN o :
       IF o[k].id = 0 THEN o[k].tag <= Leftovers
       ELSE s > 0 /\ o[k].tag <= RefBound(f.sessions) + MaxOrders

ToldOK(t, o) ==
  \A i \in DOMAIN t :
    /\ t[i].about \in DOMAIN o
    /\ o[t[i].about].id = 0 => t[i].id \notin 1 .. MaxOrders

(* While there has been one session only, refs are ids above the base.     *)
OneSession(t, o, b, s, n) ==
  /\ \A k \in DOMAIN o :
       o[k].id > 0 => /\ o[k].tag = o[k].id + b /\ o[k].session = s /\ o[k].id < n
                      /\ \A j \in DOMAIN o : o[j].id = o[k].id => j = k
  /\ \A i \in DOMAIN t : o[t[i].about].id > 0 => t[i].id = o[t[i].about].id

LoginOK(l, st, s) == l = "true" \/ st = 1 => s > 0

CtpInv ==
  /\ CtpTypes
  /\ Sound(told, Says(CtpSaid, wire), orders)
  /\ WireOK(wire, front, session, orders) /\ AskedOK(asked, wire, front, session)
  /\ FrontOK(front) /\ BaseOK(base, session, front) /\ LoginOK(loginCall, status, session)
  /\ BookOK(orders, session, front) /\ ToldOK(told, orders)
  /\ MaxDisconnects = 0 => OneSession(told, orders, base, session, nextId)

(* The broker's operators are those of this module.                        *)
LEMMA CtpBroker ==
  /\ Ctp!BrokerOrder = BrokerOrder
  /\ Ctp!BrokerAssumption <=> BrokerAssumption
  /\ \A o, v : Ctp!BrokerFilled(o, v) = BrokerFilled(o, v)
  /\ \A i, t, s : Ctp!BrokerSent(i, t, s) = BrokerSent(i, t, s)
  /\ \A i, n, v, k : Ctp!Told(i, n, v, k) = Told(i, n, v, k)
BY DEF Ctp!BrokerOrder, BrokerOrder, Ctp!OrderStates, OrderStates, Ctp!BrokerAssumption,
   BrokerAssumption, Ctp!BrokerFilled, BrokerFilled, Ctp!BrokerSent, BrokerSent, Ctp!Told, Told

LEMMA CtpTypesFacts ==
  ASSUME CtpTypes
  PROVE  /\ MaxOrders \in Nat /\ Volume \in Nat \ {0} /\ Leftovers \in Nat
         /\ MaxDisconnects \in Nat
         /\ orders \in Seq(BrokerOrder) /\ wire \in Seq(CtpMessage) /\ told \in Seq(GatewayReport)
         /\ nextId \in 1 .. MaxOrders + 1 /\ base \in Nat /\ session \in Nat
         /\ front \in [connected : BOOLEAN, sessions : Nat, drops : Nat]
BY CtpBroker DEF CtpTypes, Ctp!TypeOK, BrokerAssumption, Ctp!CtpAssumption

LEMMA CtpSaidType ==
  ASSUME Volume \in Int
  PROVE  CtpSaid \in [CtpMessage -> Saying]
<1>1. ASSUME NEW m \in CtpMessage PROVE CtpSaid[m] \in Saying
  <2>1. CASE m.kind = "rtnTrade"
    <3>1. m \in [kind : {"rtnTrade"}, about : Nat, volume : Nat]
      BY <2>1 DEF CtpMessage
    <3> QED
      BY <2>1, <3>1 DEF CtpSaid, Saying
  <2>2. CASE m.kind = "rspOrderInsert"
    <3>1. m \in [kind : {"rspOrderInsert"}, about : Nat]
      BY <2>2 DEF CtpMessage
    <3> QED
      BY <2>2, <3>1 DEF CtpSaid, Saying
  <2>3. CASE m.kind = "rtnOrder"
    <3>1. m \in [kind : {"rtnOrder"}, about : Nat, submit : CtpSubmits, state : CtpStates,
                 traded : Int]
      BY <2>3 DEF CtpMessage
    <3>2. Volume - m.traded \in Int
      BY <2>3, <3>1
    <3> QED
      BY <2>3, <3>1, <3>2 DEF CtpSaid, Saying, Nothing
  <2>4. CASE m.kind \notin {"rtnTrade", "rspOrderInsert", "rtnOrder"}
    BY <2>4 DEF CtpSaid, Saying, Nothing
  <2> QED
    BY <2>1, <2>2, <2>3, <2>4
<1> QED
  BY <1>1 DEF CtpSaid

-----------------------------------------------------------------------------
(* Refs.  Each session moves the bound by the ids there are.               *)
LEMMA RefBoundIs ==
  ASSUME MaxOrders \in Nat, Leftovers \in Nat, NEW n \in Nat
  PROVE  /\ RefBound(n) \in Nat /\ RefBound(n) >= Leftovers
         /\ RefBound(n + 1) = RefBound(n) + MaxOrders + 1
<1>1. PICK c : c = MaxOrders + 1
  OBVIOUS
<1>2. n * c \in Nat /\ (n + 1) * c = n * c + c /\ c \in Nat
  BY <1>1
<1> QED
  BY <1>1, <1>2 DEF RefBound

LEMMA RefBoundGrows ==
  ASSUME MaxOrders \in Nat, Leftovers \in Nat, NEW m \in Nat, NEW n \in Nat, m <= n
  PROVE  RefBound(m) <= RefBound(n)
<1>1. PICK d \in Nat : n = m + d
  <2>1. n - m \in Nat /\ n = m + (n - m)
    OBVIOUS
  <2> QED
    BY <2>1
<1>2. PICK c : c = MaxOrders + 1
  OBVIOUS
<1>3. (m + d) * c = m * c + d * c /\ d * c \in Nat /\ m * c \in Nat
  BY <1>1, <1>2
<1> QED
  BY <1>1, <1>2, <1>3 DEF RefBound

(* All refs are small against the modulus.                                 *)
LEMMA RefsFit ==
  ASSUME BrokerAssumption, Ctp!CtpAssumption, NEW n \in Nat, n <= MaxDisconnects + 1
  PROVE  /\ RefModulus \in Nat \ {0} /\ RefBound(n) \in Nat
         /\ 2 * (RefBound(n) + MaxOrders + 1) < RefModulus
<1>1. /\ MaxOrders \in Nat /\ Leftovers \in Nat /\ MaxDisconnects \in Nat /\ RefModulus \in Nat
      /\ RefModulus > 2 * (Leftovers + (MaxDisconnects + 2) * (MaxOrders + 1))
  BY DEF BrokerAssumption, Ctp!CtpAssumption
<1>2. PICK d : d = MaxDisconnects + 1
  OBVIOUS
<1>3. d \in Nat /\ MaxDisconnects + 2 = d + 1 /\ d + 1 \in Nat
  BY <1>1, <1>2
<1>4. RefBound(d + 1) = RefBound(d) + MaxOrders + 1 /\ RefBound(d) \in Nat
  BY <1>1, <1>3, RefBoundIs
<1>5. RefBound(d + 1) = Leftovers + (MaxDisconnects + 2) * (MaxOrders + 1)
  BY <1>3 DEF RefBound
<1>6. RefBound(n) <= RefBound(d) /\ RefBound(n) \in Nat
  BY <1>1, <1>2, <1>3, RefBoundGrows, RefBoundIs
<1> QED
  BY <1>1, <1>4, <1>5, <1>6

(* Where x % m is for x from -m to m - 1.                                  *)
LEMMA Wraps ==
  ASSUME NEW m \in Nat \ {0}, NEW x \in Int, 0 - m <= x, x < m
  PROVE  x % m \in Nat /\ x % m = IF x >= 0 THEN x ELSE x + m
<1>1. x % m \in 0 .. m - 1 /\ x = m * (x \div m) + (x % m) /\ x \div m \in Int
  OBVIOUS
<1>2. CASE x >= 0
  <2>1. x % m = x
    BY <1>2
  <2> QED
    BY <1>1, <1>2, <2>1
<1>3. CASE x < 0
  <2>1. PICK q \in Int : q = x \div m
    BY <1>1
  <2>2. PICK r \in 0 .. m - 1 : r = x % m
    BY <1>1
  <2>3. x = m * q + r
    BY <1>1, <2>1, <2>2
  <2>4. q = -1
    <3>1. q < 0
      BY <1>3, <2>3
    <3>2. q >= -1
      BY <1>3, <2>3
    <3> QED
      BY <3>1, <3>2
  <2>5. r = x + m
    BY <2>3, <2>4
  <2> QED
    BY <1>3, <2>2, <2>5
<1> QED
  BY <1>2, <1>3

(* The largest of some naturals below a bound.                             *)
LEMMA LargestExists ==
  ASSUME NEW U \in SUBSET Nat, NEW u \in U, NEW b \in Nat, \A x \in U : x <= b
  PROVE  Max(U) \in U /\ \A x \in U : Max(U) >= x
<1> DEFINE T == {n \in Nat : \E x \in U : n = b - x}
<1>1. T \in SUBSET Nat /\ b - u \in T
  OBVIOUS
<1>2. PICK n \in T : \A y \in T : ~ (<<y, n>> \in LessThan)
  <2> HIDE DEF T
  <2> QED
    BY <1>1, LessThanWellFounded, WFMin
<1>3. PICK x \in U : n = b - x
  OBVIOUS
<1>4. \A y \in U : x >= y
  <2>1. SUFFICES ASSUME NEW y \in U, ~ (x >= y) PROVE FALSE
    OBVIOUS
  <2>2. PICK d : d = b - y
    OBVIOUS
  <2>3. d \in T /\ d < n /\ d \in Nat /\ n \in Nat
    BY <1>3, <2>1, <2>2
  <2> HIDE DEF T
  <2>4. <<d, n>> \in LessThan
    BY <2>3 DEF LessThan
  <2> QED
    BY <1>2, <2>3, <2>4
<1> QED
  BY <1>4 DEF Max

-----------------------------------------------------------------------------
(* The wire of CtpTradeApi.                                                *)

(* What a message is depends on its type.                                  *)
LEMMA CtpSaysOne ==
  ASSUME Volume \in Int, NEW q \in Seq(CtpMessage), NEW m \in CtpMessage
  PROVE  /\ Says(CtpSaid, q) \in Seq(Saying) /\ CtpSaid[m] \in Saying
         /\ Append(q, m) \in Seq(CtpMessage) /\ q \o <<m>> = Append(q, m)
         /\ Says(CtpSaid, Append(q, m)) = Append(Says(CtpSaid, q), CtpSaid[m])
BY CtpSaidType, SaysType, SaysAppend, ConcatOne

(* The first message is taken.                                             *)
LEMMA WireTail ==
  ASSUME NEW M, NEW w \in Seq(M), w # <<>>, NEW f, NEW s, NEW o, WireOK(w, f, s, o)
  PROVE  /\ WireOK(Tail(w), f, s, o) /\ MessageOK(Head(w), f, s, o)
         /\ IsToken(Head(w)) => NoToken(Tail(w))
         /\ NoToken(w) => NoToken(Tail(w))
<1>1. PICK u : u = Tail(w)
  OBVIOUS
<1>2. /\ \A i \in DOMAIN u : u[i] = w[i + 1] /\ i + 1 \in DOMAIN w /\ i + 1 # 1 /\ i \in Nat
      /\ 1 \in DOMAIN w /\ Head(w) = w[1]
  BY <1>1, HeadTailProperties
<1>3. \A i \in DOMAIN u : MessageOK(u[i], f, s, o)
  BY <1>2 DEF WireOK
<1>4. ASSUME NEW i \in DOMAIN u, NEW j \in DOMAIN u, IsToken(u[i]), IsToken(u[j]) PROVE i = j
  <2>1. i + 1 = j + 1
    BY <1>2, <1>4 DEF WireOK
  <2> QED
    BY <1>2, <2>1
<1>5. IsToken(Head(w)) => NoToken(u)
  BY <1>2 DEF WireOK, NoToken
<1>6. NoToken(w) => NoToken(u)
  BY <1>2 DEF NoToken
<1> QED
  BY <1>1, <1>2, <1>3, <1>4, <1>5, <1>6 DEF WireOK

(* A message arrives, of a login only when no other is under way.          *)
LEMMA WireAppend ==
  ASSUME NEW M, NEW w \in Seq(M), NEW f, NEW s, NEW o, WireOK(w, f, s, o), NEW m \in M,
         MessageOK(m, f, s, o), IsToken(m) => NoToken(w)
  PROVE  /\ WireOK(Append(w, m), f, s, o)
         /\ ~ IsToken(m) /\ NoToken(w) => NoToken(Append(w, m))
<1>1. PICK u : u = Append(w, m)
  OBVIOUS
<1>2. PICK n : n = Len(w) + 1
  OBVIOUS
<1>3. /\ DOMAIN u = 1 .. n /\ DOMAIN w = 1 .. n - 1 /\ n \in Nat /\ u[n] = m
      /\ \A i \in DOMAIN w : u[i] = w[i]
  BY <1>1, <1>2, AppendProperties
<1>4. \A i \in DOMAIN u : i = n \/ (i \in DOMAIN w /\ u[i] = w[i])
  BY <1>3
<1>5. \A i \in DOMAIN u : MessageOK(u[i], f, s, o)
  BY <1>3, <1>4 DEF WireOK
<1>6. ASSUME NEW i \in DOMAIN u, NEW j \in DOMAIN u, IsToken(u[i]), IsToken(u[j]) PROVE i = j
  BY <1>3, <1>4, <1>6 DEF WireOK, NoToken
<1>7. ~ IsToken(m) /\ NoToken(w) => NoToken(u)
  BY <1>3, <1>4 DEF NoToken
<1> QED
  BY <1>1, <1>5, <1>6, <1>7 DEF WireOK

(* The orders' book grows, or the session is that of the login answered.   *)
LEMMA WireKept ==
  ASSUME NEW w, NEW f, NEW s, NEW o, WireOK(w, f, s, o), NEW p, DOMAIN o \subseteq DOMAIN p
  PROVE  WireOK(w, f, s, p)
BY DEF WireOK, MessageOK

LEMMA WireSession ==
  ASSUME NEW w, NEW f, NEW s, NEW o, WireOK(w, f, s, o), NoToken(w), NEW r, r > 0
  PROVE  WireOK(w, f, r, o)
BY DEF WireOK, MessageOK, NoToken, IsToken

(* A message is seen: its facts, and the rest of the wire.                 *)
LEMMA CtpSeen ==
  ASSUME CtpInv, wire # <<>>
  PROVE  /\ Head(wire) \in CtpMessage /\ Tail(wire) \in Seq(CtpMessage)
         /\ WireOK(Tail(wire), front, session, orders)
         /\ MessageOK(Head(wire), front, session, orders)
         /\ IsToken(Head(wire)) => NoToken(Tail(wire))
         /\ NoToken(wire) => NoToken(Tail(wire))
         /\ Says(CtpSaid, wire) # <<>> /\ Says(CtpSaid, wire) \in Seq(Saying)
         /\ Says(CtpSaid, Tail(wire)) = Tail(Says(CtpSaid, wire))
         /\ Head(Says(CtpSaid, wire)) = CtpSaid[Head(wire)]
         /\ Sound(told, Says(CtpSaid, Tail(wire)), orders)
<1>1. wire \in Seq(CtpMessage) /\ told \in Seq(GatewayReport) /\ Volume \in Int
  BY CtpTypesFacts DEF CtpInv
<1>2. Head(wire) \in CtpMessage /\ Tail(wire) \in Seq(CtpMessage)
  BY <1>1, HeadTailProperties
<1>3. Says(CtpSaid, wire) \in Seq(Saying)
  BY <1>1, CtpSaidType, SaysType
<1>4. /\ Says(CtpSaid, wire) # <<>> /\ Says(CtpSaid, Tail(wire)) = Tail(Says(CtpSaid, wire))
      /\ Head(Says(CtpSaid, wire)) = CtpSaid[Head(wire)]
  BY <1>1, CtpSaidType, SaysTail
<1>5. Sound(told, Tail(Says(CtpSaid, wire)), orders)
  BY <1>1, <1>3, <1>4, SoundSkip DEF CtpInv
<1>6. WireOK(wire, front, session, orders)
  BY DEF CtpInv
<1>7. /\ WireOK(Tail(wire), front, session, orders)
      /\ MessageOK(Head(wire), front, session, orders)
      /\ IsToken(Head(wire)) => NoToken(Tail(wire))
      /\ NoToken(wire) => NoToken(Tail(wire))
  BY <1>1, <1>6, WireTail
<1> QED
  BY <1>2, <1>3, <1>4, <1>5, <1>7

(* A callback that takes a message, tells nothing and leaves the session.  *)
LEMMA CtpIgnore ==
  ASSUME CtpInv, wire # <<>>, wire' = Tail(wire),
         UNCHANGED <<loginCall, base, session, nextId, front, orders, told>>,
         status' \in {-1, 0, 1}, status' = 1 => session > 0,
         asked' \in Ctp!Requests \union {"nothing"},
         asked' \in {"authenticate", "login"} =>
           asked' = asked \/ (front.connected /\ BeforeLogin(Head(wire))),
         asked' \in {"settlement", "confirm", "orders"} => session > 0
  PROVE  CtpInv'
<1>1. CtpTypes /\ Ctp!TypeOK /\ LoginOK(loginCall, status, session)
  BY DEF CtpInv, CtpTypes
<1>2. /\ Tail(wire) \in Seq(CtpMessage) /\ WireOK(Tail(wire), front, session, orders)
      /\ MessageOK(Head(wire), front, session, orders)
      /\ IsToken(Head(wire)) => NoToken(Tail(wire))
      /\ NoToken(wire) => NoToken(Tail(wire))
      /\ Sound(told, Says(CtpSaid, Tail(wire)), orders)
  BY CtpSeen
<1>3. CtpTypes'
  BY <1>1, <1>2 DEF CtpTypes, Ctp!TypeOK
<1>4. AskedOK(asked, wire, front, session)
  BY DEF CtpInv
<1>5. AskedOK(asked', wire', front', session')
  <2>1. CASE asked' \in {"authenticate", "login"} /\ asked' = asked
    BY <1>2, <1>4, <2>1 DEF AskedOK
  <2>2. CASE asked' \in {"authenticate", "login"} /\ asked' # asked
    <3>1. IsToken(Head(wire)) /\ BeforeLogin(Head(wire)) /\ front.connected
      BY <2>2 DEF IsToken
    <3> QED
      BY <1>2, <2>2, <3>1 DEF AskedOK, MessageOK
  <2>3. CASE asked' \notin {"authenticate", "login"}
    BY <2>3 DEF AskedOK
  <2> QED
    BY <2>1, <2>2, <2>3
<1>6. LoginOK(loginCall', status', session')
  BY <1>1 DEF LoginOK
<1> QED
  BY <1>2, <1>3, <1>5, <1>6 DEF CtpInv

-----------------------------------------------------------------------------
(* The steps of CtpTradeApi, one by one.                                   *)

(* In the first state nothing is told and an earlier run's orders rest.    *)
LEMMA CtpInitially ==
  ASSUME BrokerAssumption, Ctp!CtpAssumption, Ctp!Init
  PROVE  CtpInv
<1>1. /\ MaxOrders \in Nat /\ Volume \in Nat \ {0} /\ Leftovers \in Nat
      /\ MaxDisconnects \in Nat
  BY DEF BrokerAssumption, Ctp!CtpAssumption
<1>2. /\ DOMAIN orders = 1 .. Leftovers
      /\ \A k \in 1 .. Leftovers :
           orders[k] = [BrokerSent(0, k, 0) EXCEPT !.state = "queueing"]
  BY CtpBroker DEF Ctp!Init
<1>3. \A k \in 1 .. Leftovers :
        /\ orders[k] \in BrokerOrder /\ orders[k].traded = 0 /\ orders[k].state = "queueing"
        /\ orders[k].tag = k /\ orders[k].id = 0
  <2>1. SUFFICES ASSUME NEW k \in 1 .. Leftovers
                 PROVE  /\ orders[k] \in BrokerOrder /\ orders[k].traded = 0
                        /\ orders[k].state = "queueing"
                        /\ orders[k].tag = k /\ orders[k].id = 0
    OBVIOUS
  <2>2. orders[k] = [id |-> 0, tag |-> k, session |-> 0, traded |-> 0, state |-> "queueing",
                     cancel |-> "no"]
    BY <1>2 DEF BrokerSent
  <2>3. 0 \in 0 .. MaxOrders /\ k \in Nat /\ 0 \in Nat /\ 0 \in 0 .. Volume
    BY <1>1
  <2> QED
    BY <2>2, <2>3 DEF BrokerOrder, OrderStates
<1>4. orders \in Seq(BrokerOrder)
  <2>1. orders \in [1 .. Leftovers -> BrokerOrder]
    BY <1>1, <1>2, <1>3, CtpBroker DEF Ctp!Init
  <2> QED
    BY <1>1, <2>1
<1>5. wire = <<>> /\ told = <<>> /\ DOMAIN <<>> = {}
  BY DEF Ctp!Init
<1>6. CtpTypes
  BY <1>1, <1>4, <1>5, CtpBroker DEF CtpTypes, Ctp!TypeOK, Ctp!Init
<1>7. Sound(told, Says(CtpSaid, wire), orders)
  <2>1. OrdersSound(orders)
    BY <1>2, <1>3 DEF OrdersSound
  <2> QED
    BY <1>5, <2>1, SoundStart, SaysEmpty
<1>8. WireOK(wire, front, session, orders) /\ AskedOK(asked, wire, front, session)
  BY <1>5 DEF WireOK, AskedOK, Ctp!Init
<1>9. FrontOK(front) /\ LoginOK(loginCall, status, session)
  BY <1>1 DEF FrontOK, LoginOK, Ctp!Init
<1>10. BaseOK(base, session, front)
  BY <1>1, RefBoundIs DEF BaseOK, Ctp!Init
<1>11. BookOK(orders, session, front)
  <2>1. Leftovers = 0 \/ \E k \in DOMAIN orders : orders[k].tag = Leftovers
    BY <1>1, <1>2, <1>3
  <2>2. \A k \in DOMAIN orders : orders[k].id = 0 /\ orders[k].tag <= Leftovers
    BY <1>1, <1>2, <1>3
  <2> QED
    BY <2>1, <2>2 DEF BookOK
<1>12. ToldOK(told, orders)
  BY <1>5 DEF ToldOK
<1>13. OneSession(told, orders, base, session, nextId)
  BY <1>2, <1>3, <1>5 DEF OneSession
<1> QED
  BY <1>6, <1>7, <1>8, <1>9, <1>10, <1>11, <1>12, <1>13 DEF CtpInv

(* Login looks at status_, and asks for the outstanding orders.            *)
LEMMA CtpLogin ==
  ASSUME CtpInv, Ctp!Login
  PROVE  CtpInv'
<1>1. /\ CtpTypes /\ Ctp!TypeOK /\ LoginOK(loginCall, status, session)
      /\ AskedOK(asked, wire, front, session)
  BY DEF CtpInv, CtpTypes
<1>2. UNCHANGED <<status, base, session, nextId, front, wire, orders, told>>
  BY DEF Ctp!Login, Ctp!LeaveLoop, Ctp!LookAgain
<1>3. /\ loginCall' \in {"waits", "looks", "true", "false"}
      /\ asked' \in Ctp!Requests \union {"nothing"}
  BY <1>1 DEF Ctp!Login, Ctp!LeaveLoop, Ctp!LookAgain, Ctp!ReqQryOrder, Ctp!TypeOK, Ctp!Requests
<1>4. /\ loginCall' = "true" => status = 1
      /\ asked' = asked \/ (asked' = "orders" /\ status = 1)
  BY DEF Ctp!Login, Ctp!LeaveLoop, Ctp!LookAgain, Ctp!ReqQryOrder
<1>5. LoginOK(loginCall', status', session') /\ AskedOK(asked', wire', front', session')
  BY <1>1, <1>2, <1>4 DEF LoginOK, AskedOK
<1>6. CtpTypes'
  BY <1>1, <1>2, <1>3 DEF CtpTypes, Ctp!TypeOK
<1> QED
  BY <1>2, <1>5, <1>6 DEF CtpInv

(* The callbacks that only go on with the login, and those that hear of    *)
(* its failure.                                                            *)
LEMMA CtpQuietEvents ==
  ASSUME CtpInv,
         \/ Ctp!OnFrontConnected \/ Ctp!OnFrontDisconnected
         \/ \E what \in Ctp!Requests : Ctp!OnRspFailed(what)
         \/ Ctp!OnRspAuthenticate \/ Ctp!OnRspQrySettlementInfo
         \/ Ctp!OnRspSettlementInfoConfirm \/ Ctp!OnRspOrderAction
  PROVE  CtpInv'
<1>1. /\ CtpTypes /\ Ctp!TypeOK /\ LoginOK(loginCall, status, session)
      /\ AskedOK(asked, wire, front, session)
  BY DEF CtpInv, CtpTypes
<1>2. /\ wire # <<>> /\ wire' = Tail(wire)
      /\ UNCHANGED <<loginCall, base, session, nextId, front, orders, told>>
  BY DEF Ctp!OnFrontConnected, Ctp!OnFrontDisconnected, Ctp!OnRspFailed, Ctp!OnRspAuthenticate,
     Ctp!OnRspQrySettlementInfo, Ctp!OnRspSettlementInfoConfirm, Ctp!OnRspOrderAction, Ctp!Answer
<1>3. MessageOK(Head(wire), front, session, orders)
  BY <1>2, CtpSeen
<1>4. CASE Ctp!OnFrontConnected
  <2>1. \/ front.connected /\ asked' = "authenticate" /\ status' = status
        \/ asked' = "nothing" /\ status' = -1
    BY <1>4 DEF Ctp!OnFrontConnected, Ctp!Request
  <2>2. BeforeLogin(Head(wire))
    BY <1>4 DEF Ctp!OnFrontConnected, BeforeLogin
  <2> QED
    BY <1>1, <1>2, <2>1, <2>2, CtpIgnore DEF Ctp!Requests, LoginOK, Ctp!TypeOK
<1>5. CASE Ctp!OnFrontDisconnected \/ \E what \in Ctp!Requests : Ctp!OnRspFailed(what)
  <2>1. asked' = asked /\ status' \in {-1, 0}
    BY <1>5 DEF Ctp!OnFrontDisconnected, Ctp!OnRspFailed
  <2>2. asked \in {"settlement", "confirm", "orders"} => session > 0
    BY <1>1 DEF AskedOK
  <2> QED
    BY <1>1, <1>2, <2>1, <2>2, CtpIgnore DEF Ctp!TypeOK
<1>6. CASE Ctp!OnRspAuthenticate
  <2>1. \/ front.connected /\ asked' = "login" /\ status' = status
        \/ asked' = "nothing" /\ status' = -1
    BY <1>6 DEF Ctp!OnRspAuthenticate, Ctp!Request
  <2>2. BeforeLogin(Head(wire))
    BY <1>6 DEF Ctp!OnRspAuthenticate, Ctp!Answer, BeforeLogin
  <2> QED
    BY <1>1, <1>2, <2>1, <2>2, CtpIgnore DEF Ctp!Requests, LoginOK, Ctp!TypeOK
<1>7. CASE Ctp!OnRspQrySettlementInfo
  <2>1. \/ asked' = "confirm" /\ status' = status
        \/ asked' = "nothing" /\ status' = -1
    BY <1>7 DEF Ctp!OnRspQrySettlementInfo, Ctp!Request
  <2>2. session > 0
    BY <1>3, <1>7 DEF Ctp!OnRspQrySettlementInfo, Ctp!Answer, MessageOK, AfterLogin
  <2> QED
    BY <1>1, <1>2, <2>1, <2>2, CtpIgnore DEF Ctp!Requests, Ctp!TypeOK
<1>8. CASE Ctp!OnRspSettlementInfoConfirm
  <2>1. asked' = asked /\ status' = 1
    BY <1>8 DEF Ctp!OnRspSettlementInfoConfirm
  <2>2. session > 0
    BY <1>3, <1>8 DEF Ctp!OnRspSettlementInfoConfirm, Ctp!Answer, MessageOK, AfterLogin
  <2> QED
    BY <1>1, <1>2, <2>1, <2>2, CtpIgnore DEF Ctp!TypeOK
<1>9. CASE Ctp!OnRspOrderAction
  <2>1. asked' = asked /\ status' = status
    BY <1>9 DEF Ctp!OnRspOrderAction
  <2>2. asked \in {"settlement", "confirm", "orders"} => session > 0
    BY <1>1 DEF AskedOK
  <2> QED
    BY <1>1, <1>2, <2>1, <2>2, CtpIgnore DEF Ctp!TypeOK, LoginOK
<1> QED
  BY <1>4, <1>5, <1>6, <1>7, <1>8, <1>9

(* The answer to the login gives the session and the base of its refs.     *)
LEMMA CtpUserLogin ==
  ASSUME CtpInv, Ctp!OnRspUserLogin
  PROVE  CtpInv'
<1>1. /\ CtpTypes /\ Ctp!TypeOK /\ LoginOK(loginCall, status, session)
      /\ FrontOK(front) /\ BaseOK(base, session, front) /\ BookOK(orders, session, front)
      /\ ToldOK(told, orders)
      /\ (MaxDisconnects = 0 => OneSession(told, orders, base, session, nextId))
  BY DEF CtpInv, CtpTypes
<1>2. PICK m : m = Head(wire)
  OBVIOUS
<1>3. /\ wire # <<>> /\ wire' = Tail(wire) /\ LoginAnswer(m)
      /\ session' = m.session /\ base' = m.maxRef + 1
      /\ UNCHANGED <<loginCall, nextId, front, orders, told>>
      /\ \/ asked' = "settlement" /\ status' = status
         \/ asked' = "nothing" /\ status' = -1
  BY <1>2 DEF Ctp!OnRspUserLogin, Ctp!Answer, Ctp!Request, Ctp!RefBase, LoginAnswer
<1>4. /\ m \in CtpMessage /\ Tail(wire) \in Seq(CtpMessage)
      /\ WireOK(Tail(wire), front, session, orders)
      /\ MessageOK(m, front, session, orders) /\ NoToken(Tail(wire))
      /\ Sound(told, Says(CtpSaid, Tail(wire)), orders)
  BY <1>2, <1>3, CtpSeen DEF IsToken
<1>5. /\ MaxOrders \in Nat /\ Leftovers \in Nat /\ session \in Nat
      /\ front \in [connected : BOOLEAN, sessions : Nat, drops : Nat]
      /\ MaxDisconnects \in Nat
  BY <1>1, CtpTypesFacts
<1>6. /\ front.connected /\ m.session = front.sessions /\ session < front.sessions
      /\ Leftovers <= m.maxRef /\ m.maxRef < RefBound(front.sessions)
  BY <1>3, <1>4 DEF MessageOK
<1>7. m.maxRef \in Nat /\ m.session \in Nat
  BY <1>3, <1>4 DEF CtpMessage, LoginAnswer
<1>8. RefBound(front.sessions) \in Nat
  BY <1>5, RefBoundIs
<1>9. session' > 0 /\ session' \in Nat /\ base' \in Nat /\ base' > Leftovers
      /\ base' <= RefBound(front.sessions)
  BY <1>3, <1>5, <1>6, <1>7, <1>8
<1>10. CtpTypes'
  BY <1>1, <1>3, <1>4, <1>9 DEF CtpTypes, Ctp!TypeOK, Ctp!Requests
<1>11. WireOK(wire', front', session', orders')
  BY <1>3, <1>4, <1>9, WireSession
<1>12. AskedOK(asked', wire', front', session') /\ LoginOK(loginCall', status', session')
  BY <1>3, <1>9 DEF AskedOK, LoginOK
<1>13. BaseOK(base', session', front')
  BY <1>3, <1>6, <1>7, <1>9 DEF BaseOK
<1>14. BookOK(orders', session', front')
  BY <1>1, <1>3, <1>9 DEF BookOK
<1>15. ASSUME MaxDisconnects = 0 PROVE OneSession(told', orders', base', session', nextId')
  <2>1. front.drops = 0 /\ front.sessions <= front.drops + 1
    BY <1>1, <1>5, <1>6, <1>15 DEF FrontOK
  <2>2. session = 0
    BY <1>5, <1>6, <2>1
  <2>3. \A k \in DOMAIN orders : orders[k].id = 0
    BY <1>1, <2>2 DEF BookOK
  <2>4. \A i \in DOMAIN told : told[i].about \in DOMAIN orders
    BY <1>1 DEF ToldOK
  <2> QED
    BY <1>3, <2>3, <2>4 DEF OneSession
<1> QED
  BY <1>1, <1>3, <1>4, <1>10, <1>11, <1>12, <1>13, <1>14, <1>15 DEF CtpInv

(* What happens to an order leaves its names.                              *)
SameNames(o, p) ==
  /\ DOMAIN p = DOMAIN o
  /\ \A k \in DOMAIN o : p[k].session = o[k].session /\ p[k].id = o[k].id /\ p[k].tag = o[k].tag

LEMMA NamesKept ==
  ASSUME NEW o, NEW p, SameNames(o, p), NEW t, NEW b, NEW s, NEW n, NEW f
  PROVE  /\ BookOK(o, s, f) => BookOK(p, s, f)
         /\ ToldOK(t, o) => ToldOK(t, p)
         /\ ToldOK(t, o) /\ OneSession(t, o, b, s, n) => OneSession(t, p, b, s, n)
<1>1. BookOK(o, s, f) => BookOK(p, s, f)
  BY DEF BookOK, SameNames
<1>2. ToldOK(t, o) => ToldOK(t, p)
  BY DEF ToldOK, SameNames
<1>3. ToldOK(t, o) /\ OneSession(t, o, b, s, n) => OneSession(t, p, b, s, n)
  BY DEF ToldOK, OneSession, SameNames
<1> QED
  BY <1>1, <1>2, <1>3

(* A step of the orders' book and the wire that leaves the orders' names.  *)
LEMMA CtpBookStep ==
  ASSUME CtpInv, UNCHANGED <<loginCall, base, session, nextId, front, told, asked>>,
         status' \in {-1, 0, 1}, status' = 1 => session > 0,
         orders' \in Seq(BrokerOrder), SameNames(orders, orders'),
         wire' \in Seq(CtpMessage), WireOK(wire', front, session, orders),
         NoToken(wire) => NoToken(wire'),
         Sound(told, Says(CtpSaid, wire'), orders')
  PROVE  CtpInv'
<1>1. /\ CtpTypes /\ Ctp!TypeOK /\ LoginOK(loginCall, status, session)
      /\ AskedOK(asked, wire, front, session)
      /\ BookOK(orders, session, front) /\ ToldOK(told, orders)
      /\ (MaxDisconnects = 0 => OneSession(told, orders, base, session, nextId))
  BY DEF CtpInv, CtpTypes
<1>2. CtpTypes'
  BY <1>1, CtpBroker DEF CtpTypes, Ctp!TypeOK
<1>3. WireOK(wire', front', session', orders')
  BY WireKept DEF SameNames
<1>4. AskedOK(asked', wire', front', session') /\ LoginOK(loginCall', status', session')
  BY <1>1 DEF AskedOK, LoginOK
<1>5. PICK p : p = orders'
  OBVIOUS
<1>6. /\ BookOK(p, session, front) /\ ToldOK(told, p)
      /\ (MaxDisconnects = 0 => OneSession(told, p, base, session, nextId))
  BY <1>1, <1>5, NamesKept
<1> QED
  BY <1>2, <1>3, <1>4, <1>5, <1>6 DEF CtpInv

(* An order is asked to be cancelled, by the OMS or at startup.            *)
LEMMA CtpCancel ==
  ASSUME CtpInv, NEW id \in 1 .. MaxOrders, Ctp!CancelOrder(id)
  PROVE  CtpInv'
<1>1. /\ Ctp!TypeOK /\ LoginOK(loginCall, status, session) /\ orders \in Seq(BrokerOrder)
      /\ wire \in Seq(CtpMessage) /\ told \in Seq(GatewayReport) /\ Volume \in Int
      /\ WireOK(wire, front, session, orders)
  BY CtpTypesFacts DEF CtpInv, CtpTypes
<1>2. UNCHANGED <<loginCall, status, base, session, nextId, front, asked, wire, told>>
  BY DEF Ctp!CancelOrder
<1>3. PICK k \in DOMAIN orders : orders' = [orders EXCEPT ![k].cancel = "asked"]
  BY DEF Ctp!CancelOrder, Ctp!CancelNames
<1>4. PICK e : e = [orders[k] EXCEPT !.cancel = "asked"]
  OBVIOUS
<1>5. e \in BrokerOrder
  <2>1. orders[k] \in BrokerOrder
    BY <1>1, ElementOfSeq
  <2> QED
    BY <1>4, <2>1 DEF BrokerOrder
<1>6. /\ e.session = orders[k].session /\ e.id = orders[k].id /\ e.tag = orders[k].tag
      /\ e.state = orders[k].state /\ e.traded = orders[k].traded
  BY <1>1, <1>4, ElementOfSeq DEF BrokerOrder
<1>7. orders' = [orders EXCEPT ![k] = e]
  BY <1>3, <1>4
<1>8. PICK p : p = orders'
  OBVIOUS
<1>9. p \in Seq(BrokerOrder) /\ SameLives(orders, p)
  BY <1>1, <1>5, <1>6, <1>7, <1>8, OrderChanges DEF SameLives
<1>10. OrdersSound(p) /\ OrdersMove(orders, p)
  BY <1>9, AskedToCancel DEF CtpInv, Sound
<1>11. Says(CtpSaid, wire) \in Seq(Saying)
  BY <1>1, CtpSaidType, SaysType
<1>12. Sound(told, Says(CtpSaid, wire), p)
  BY <1>1, <1>10, <1>11, SoundOrders DEF CtpInv
<1>13. SameNames(orders, p)
  BY <1>9 DEF SameLives, SameNames
<1>14. status' \in {-1, 0, 1} /\ (status' = 1 => session > 0)
  BY <1>1, <1>2 DEF Ctp!TypeOK, LoginOK
<1> QED
  BY <1>1, <1>2, <1>8, <1>9, <1>12, <1>13, <1>14, CtpBookStep

LEMMA CtpQuery ==
  ASSUME CtpInv, Ctp!OnRspQryOrder
  PROVE  CtpInv'
<1>1. /\ wire # <<>> /\ wire' = Tail(wire) /\ status' = 1 /\ AfterLogin(Head(wire))
      /\ UNCHANGED <<loginCall, base, session, nextId, front, asked, told>>
  BY DEF Ctp!OnRspQryOrder, Ctp!Answer, AfterLogin
<1>2. /\ Ctp!TypeOK /\ orders \in Seq(BrokerOrder)
      /\ wire \in Seq(CtpMessage) /\ told \in Seq(GatewayReport) /\ Volume \in Int
  BY CtpTypesFacts DEF CtpInv, CtpTypes
<1>3. /\ Tail(wire) \in Seq(CtpMessage) /\ WireOK(Tail(wire), front, session, orders)
      /\ MessageOK(Head(wire), front, session, orders)
      /\ NoToken(wire) => NoToken(Tail(wire))
      /\ Sound(told, Says(CtpSaid, Tail(wire)), orders)
  BY <1>1, CtpSeen
<1>4. session > 0
  BY <1>1, <1>3 DEF MessageOK
<1>5. /\ DOMAIN orders' = DOMAIN orders
      /\ \A k \in DOMAIN orders :
           orders'[k] = orders[k] \/ orders'[k] = [orders[k] EXCEPT !.cancel = "asked"]
  BY DEF Ctp!OnRspQryOrder
<1>6. \A k \in DOMAIN orders :
        /\ orders'[k] \in BrokerOrder
        /\ orders'[k].session = orders[k].session /\ orders'[k].id = orders[k].id
        /\ orders'[k].tag = orders[k].tag
        /\ orders'[k].state = orders[k].state /\ orders'[k].traded = orders[k].traded
  <2>1. SUFFICES ASSUME NEW k \in DOMAIN orders
                 PROVE  /\ orders'[k] \in BrokerOrder
                        /\ orders'[k].session = orders[k].session
                        /\ orders'[k].id = orders[k].id /\ orders'[k].tag = orders[k].tag
                        /\ orders'[k].state = orders[k].state
                        /\ orders'[k].traded = orders[k].traded
    OBVIOUS
  <2>2. orders[k] \in BrokerOrder
    BY <1>2, ElementOfSeq
  <2> QED
    BY <1>5, <2>2 DEF BrokerOrder
<1>7. orders' \in Seq(BrokerOrder)
  <2>1. DOMAIN orders = 1 .. Len(orders) /\ Len(orders) \in Nat
    BY <1>2
  <2>2. orders' \in [1 .. Len(orders) -> BrokerOrder]
    <3>1. orders' = [k \in DOMAIN orders |-> orders'[k]]
      BY DEF Ctp!OnRspQryOrder
    <3> QED
      BY <1>6, <2>1, <3>1
  <2> QED
    BY <2>1, <2>2
<1>8. PICK p : p = orders'
  OBVIOUS
<1>9. SameLives(orders, p) /\ SameNames(orders, p)
  BY <1>5, <1>6, <1>8 DEF SameLives, SameNames
<1>10. OrdersSound(p) /\ OrdersMove(orders, p)
  BY <1>9, AskedToCancel DEF CtpInv, Sound
<1>11. Says(CtpSaid, Tail(wire)) \in Seq(Saying)
  BY <1>2, <1>3, CtpSaidType, SaysType
<1>12. Sound(told, Says(CtpSaid, Tail(wire)), p)
  BY <1>2, <1>3, <1>10, <1>11, SoundOrders
<1>13. status' \in {-1, 0, 1} /\ (status' = 1 => session > 0)
  BY <1>1, <1>4
<1> QED
  BY <1>1, <1>3, <1>7, <1>8, <1>9, <1>12, <1>13, CtpBookStep

(* The fields of an order of the book.                                     *)
LEMMA OrderFields ==
  ASSUME NEW o \in Seq(BrokerOrder), NEW k \in DOMAIN o
  PROVE  /\ o[k] \in BrokerOrder /\ o[k].tag \in Nat /\ o[k].id \in 0 .. MaxOrders
         /\ o[k].session \in Nat /\ o[k].traded \in 0 .. Volume /\ k \in Nat
<1>1. o[k] \in BrokerOrder /\ k \in Nat
  BY ElementOfSeq
<1> QED
  BY <1>1 DEF BrokerOrder

(* The refs as numbers: an order's is its id above the base, and the id    *)
(* of a report is the way back; below the base the way back wraps around.  *)
LEMMA RefIs ==
  ASSUME CtpInv, NEW id \in 1 .. MaxOrders
  PROVE  /\ Ctp!GetOrderRef(id) = id + base /\ id + base \in Nat
         /\ id + base <= RefBound(front.sessions) + MaxOrders
<1>1. CtpTypes /\ FrontOK(front) /\ BaseOK(base, session, front)
  BY DEF CtpInv
<1>2. /\ MaxOrders \in Nat /\ base \in Nat /\ MaxDisconnects \in Nat
      /\ front \in [connected : BOOLEAN, sessions : Nat, drops : Nat]
  BY <1>1, CtpTypesFacts
<1>3. front.sessions \in Nat /\ front.sessions <= MaxDisconnects + 1
  BY <1>1, <1>2 DEF FrontOK
<1>4. /\ RefModulus \in Nat \ {0} /\ RefBound(front.sessions) \in Nat
      /\ 2 * (RefBound(front.sessions) + MaxOrders + 1) < RefModulus
  BY <1>1, <1>3, RefsFit DEF CtpTypes
<1>5. base <= RefBound(front.sessions)
  BY <1>1 DEF BaseOK
<1>6. PICK x : x = id + base
  OBVIOUS
<1>7. x \in Nat /\ x <= RefBound(front.sessions) + MaxOrders
  BY <1>2, <1>4, <1>5, <1>6
<1>8. 0 - RefModulus <= x /\ x < RefModulus /\ x >= 0
  BY <1>2, <1>4, <1>7
<1>9. x % RefModulus = x
  BY <1>4, <1>7, <1>8, Wraps
<1> QED
  BY <1>6, <1>7, <1>9 DEF Ctp!GetOrderRef

LEMMA IdIs ==
  ASSUME CtpInv, session > 0, NEW k \in DOMAIN orders
  PROVE  /\ Ctp!GetOrderId(orders[k].tag) \in Nat
         /\ orders[k].id = 0 => Ctp!GetOrderId(orders[k].tag) \notin 1 .. MaxOrders
         /\ orders[k].id > 0 /\ MaxDisconnects = 0 =>
              Ctp!GetOrderId(orders[k].tag) = orders[k].id
<1>1. /\ CtpTypes /\ FrontOK(front) /\ BaseOK(base, session, front)
      /\ BookOK(orders, session, front)
      /\ (MaxDisconnects = 0 => OneSession(told, orders, base, session, nextId))
  BY DEF CtpInv
<1>2. /\ MaxOrders \in Nat /\ base \in Nat /\ MaxDisconnects \in Nat /\ Leftovers \in Nat
      /\ front \in [connected : BOOLEAN, sessions : Nat, drops : Nat]
      /\ orders \in Seq(BrokerOrder)
  BY <1>1, CtpTypesFacts
<1>3. orders[k].tag \in Nat /\ orders[k].id \in 0 .. MaxOrders
  BY <1>2, OrderFields
<1>4. front.sessions \in Nat /\ front.sessions <= MaxDisconnects + 1
  BY <1>1, <1>2 DEF FrontOK
<1>5. PICK r : r = RefBound(front.sessions)
  OBVIOUS
<1>6. /\ RefModulus \in Nat \ {0} /\ r \in Nat /\ r >= Leftovers
      /\ 2 * (r + MaxOrders + 1) < RefModulus
  BY <1>1, <1>2, <1>4, <1>5, RefsFit, RefBoundIs DEF CtpTypes
<1>7. base <= r /\ base > Leftovers
  BY <1>1, <1>5 DEF BaseOK
<1>8. orders[k].tag <= r + MaxOrders
  <2>1. CASE orders[k].id = 0
    <3>1. orders[k].tag <= Leftovers
      BY <1>1, <2>1 DEF BookOK
    <3> QED
      BY <1>2, <1>3, <1>6, <3>1
  <2>2. CASE orders[k].id # 0
    <3>1. orders[k].tag <= RefBound(front.sessions) + MaxOrders
      BY <1>1, <2>2 DEF BookOK
    <3> QED
      BY <1>5, <3>1
  <2> QED
    BY <2>1, <2>2
<1>9. PICK x : x = orders[k].tag - base
  OBVIOUS
<1>10. x \in Int /\ 0 - RefModulus <= x /\ x < RefModulus
  BY <1>2, <1>3, <1>6, <1>7, <1>8, <1>9
<1>11. x % RefModulus \in Nat /\ x % RefModulus = IF x >= 0 THEN x ELSE x + RefModulus
  BY <1>6, <1>10, Wraps
<1>12. Ctp!GetOrderId(orders[k].tag) = x % RefModulus
  BY <1>9 DEF Ctp!GetOrderId
<1>13. ASSUME orders[k].id = 0 PROVE x % RefModulus \notin 1 .. MaxOrders
  <2>1. orders[k].tag <= Leftovers
    BY <1>1, <1>13 DEF BookOK
  <2>2. x < 0 /\ x >= 0 - r
    BY <1>2, <1>3, <1>6, <1>7, <1>9, <2>1
  <2>3. x + RefModulus > MaxOrders
    BY <1>2, <1>6, <1>10, <2>2
  <2> QED
    BY <1>2, <1>10, <1>11, <2>2, <2>3
<1>14. ASSUME orders[k].id > 0, MaxDisconnects = 0 PROVE x % RefModulus = orders[k].id
  <2>1. orders[k].tag = orders[k].id + base
    BY <1>1, <1>14 DEF OneSession
  <2>2. x = orders[k].id /\ x >= 0
    BY <1>2, <1>3, <1>9, <2>1
  <2> QED
    BY <1>11, <2>2
<1> QED
  BY <1>11, <1>12, <1>13, <1>14

(* The OMS sends an order under the next id, if the front is there.        *)
LEMMA CtpSend ==
  ASSUME CtpInv, Ctp!SendOrder
  PROVE  CtpInv'
<1>1. /\ CtpTypes /\ Ctp!TypeOK /\ LoginOK(loginCall, status, session)
      /\ WireOK(wire, front, session, orders)
      /\ BookOK(orders, session, front) /\ ToldOK(told, orders)
      /\ (MaxDisconnects = 0 => OneSession(told, orders, base, session, nextId))
      /\ OrdersSound(orders)
  BY DEF CtpInv, CtpTypes, Sound
<1>2. /\ MaxOrders \in Nat /\ Volume \in Nat \ {0} /\ orders \in Seq(BrokerOrder)
      /\ wire \in Seq(CtpMessage) /\ told \in Seq(GatewayReport) /\ nextId \in 1 .. MaxOrders
      /\ nextId' = nextId + 1 /\ session \in Nat
  BY <1>1, CtpTypesFacts DEF Ctp!SendOrder
<1>3. UNCHANGED <<loginCall, status, base, session, front, asked, wire, told>>
  BY DEF Ctp!SendOrder
<1>4. session > 0
  BY <1>1 DEF LoginOK, Ctp!SendOrder, Ctp!LoggedIn
<1>5. CtpTypes' <=> orders' \in Seq(BrokerOrder)
  BY <1>1, <1>2, <1>3, CtpBroker DEF CtpTypes, Ctp!TypeOK
<1>6. CASE orders' = orders
  <2>1. \A k \in DOMAIN orders : orders[k].id \in 0 .. MaxOrders
    BY <1>2, OrderFields
  <2>2. ASSUME OneSession(told, orders, base, session, nextId)
        PROVE  OneSession(told, orders, base, session, nextId')
    BY <1>2, <2>1, <2>2 DEF OneSession
  <2> QED
    BY <1>1, <1>2, <1>3, <1>5, <1>6, <2>2 DEF CtpInv
<1>7. CASE orders' = Append(orders, BrokerSent(nextId, Ctp!GetOrderRef(nextId), session))
  <2>1. PICK e : e = BrokerSent(nextId, nextId + base, session)
    OBVIOUS
  <2>2. /\ Ctp!GetOrderRef(nextId) = nextId + base /\ nextId + base \in Nat
        /\ nextId + base <= RefBound(front.sessions) + MaxOrders
    BY <1>2, RefIs
  <2>3. e \in BrokerOrder
    BY <1>2, <2>1, <2>2 DEF BrokerSent, BrokerOrder, OrderStates
  <2>4. /\ e.id = nextId /\ e.tag = nextId + base /\ e.session = session /\ e.traded = 0
        /\ e.id # 0 /\ e.id > 0
    BY <1>2, <2>1 DEF BrokerSent
  <2>5. PICK n : n = Len(orders) + 1
    OBVIOUS
  <2>6. PICK p : p = orders'
    OBVIOUS
  <2>7. /\ p \in Seq(BrokerOrder) /\ DOMAIN p = 1 .. n /\ n \in Nat
        /\ DOMAIN orders = 1 .. n - 1 /\ p[n] = e
        /\ \A k \in DOMAIN orders : p[k] = orders[k]
    BY <1>2, <1>7, <2>1, <2>2, <2>3, <2>5, <2>6, AppendProperties
  <2>8. /\ \A k \in DOMAIN p : k \in DOMAIN orders \/ k = n
        /\ DOMAIN orders \subseteq DOMAIN p /\ n \in DOMAIN p /\ n \notin DOMAIN orders
    <3>1. n \in Nat \ {0} /\ \A i \in 1 .. n : i \in 1 .. n - 1 \/ i = n
      BY <1>2, <2>5
    <3>2. n \notin 1 .. n - 1 /\ 1 .. n - 1 \subseteq 1 .. n
      BY <3>1
    <3> QED
      BY <2>7, <3>1, <3>2
  <2>9. OrdersSound(p) /\ OrdersMove(orders, p)
    <3>1. OrdersSound(p)
      BY <1>1, <2>4, <2>7, <2>8 DEF OrdersSound
    <3>2. OrdersMove(orders, p)
      BY <2>7, <2>8 DEF OrdersMove
    <3> QED
      BY <3>1, <3>2
  <2>10. Sound(told, Says(CtpSaid, wire), p)
    <3>1. Says(CtpSaid, wire) \in Seq(Saying)
      BY <1>2, CtpSaidType, SaysType
    <3> QED
      BY <1>2, <2>9, <3>1, SoundOrders DEF CtpInv
  <2>11. WireOK(wire, front, session, p)
    BY <1>1, <2>8, WireKept
  <2>12. BookOK(p, session, front)
    <3>1. Leftovers = 0 \/ \E k \in DOMAIN p : p[k].tag = Leftovers
      BY <1>1, <2>7, <2>8 DEF BookOK
    <3>2. \A k \in DOMAIN p :
            IF p[k].id = 0 THEN p[k].tag <= Leftovers
            ELSE session > 0 /\ p[k].tag <= RefBound(front.sessions) + MaxOrders
      BY <1>1, <1>4, <2>2, <2>4, <2>7, <2>8 DEF BookOK
    <3> QED
      BY <3>1, <3>2 DEF BookOK
  <2>13. ToldOK(told, p)
    BY <1>1, <2>7, <2>8 DEF ToldOK
  <2>14. ASSUME OneSession(told, orders, base, session, nextId)
         PROVE  OneSession(told, p, base, session, nextId')
    <3>1. \A k \in DOMAIN orders : orders[k].id \in 0 .. MaxOrders
      BY <1>2, OrderFields
    <3>2. \A k \in DOMAIN orders : orders[k].id > 0 => orders[k].id # nextId /\ orders[k].id < nextId'
      BY <1>2, <2>14, <3>1 DEF OneSession
    <3>3. ASSUME NEW k \in DOMAIN p, p[k].id > 0
          PROVE  /\ p[k].tag = p[k].id + base /\ p[k].session = session /\ p[k].id < nextId'
                 /\ \A j \in DOMAIN p : p[j].id = p[k].id => j = k
      <4>1. CASE k = n
        <5>1. p[k] = e /\ e.id < nextId'
          BY <1>2, <2>4, <2>7, <4>1
        <5>2. \A j \in DOMAIN orders : orders[j].id # e.id
          BY <1>2, <2>4, <3>1, <3>2
        <5> QED
          BY <2>4, <2>7, <2>8, <4>1, <5>1, <5>2
      <4>2. CASE k # n
        <5>1. k \in DOMAIN orders /\ p[k] = orders[k]
          BY <2>7, <2>8, <4>2
        <5>2. orders[k].id # e.id /\ orders[k].id < nextId'
          BY <2>4, <3>2, <3>3, <5>1
        <5> QED
          BY <2>7, <2>8, <2>14, <3>3, <5>1, <5>2 DEF OneSession
      <4> QED
        BY <4>1, <4>2
    <3>4. \A i \in DOMAIN told : p[told[i].about].id > 0 => told[i].id = p[told[i].about].id
      BY <1>1, <2>7, <2>14 DEF ToldOK, OneSession
    <3> QED
      BY <3>3, <3>4 DEF OneSession
  <2> QED
    BY <1>1, <1>3, <1>5, <2>6, <2>7, <2>10, <2>11, <2>12, <2>13, <2>14 DEF CtpInv
<1> QED
  BY <1>6, <1>7, CtpBroker DEF Ctp!SendOrder

(* One report is told of the message.                                      *)
LEMMA CtpTell ==
  ASSUME CtpInv, wire # <<>>, wire' = Tail(wire), IsReport(Head(wire)),
         NEW r \in GatewayReport, told' = Append(told, r), r.about = Head(wire).about,
         r.id = Ctp!GetOrderId(orders[r.about].tag),
         \/ ~ Counts(r)
         \/ /\ Counts(r)
            /\ r.kind = CtpSaid[Head(wire)].kind /\ r.volume = CtpSaid[Head(wire)].volume
            /\ r.about = CtpSaid[Head(wire)].about,
         UNCHANGED <<loginCall, status, base, session, nextId, front, asked, orders>>
  PROVE  CtpInv'
<1>1. /\ CtpTypes /\ Ctp!TypeOK /\ told \in Seq(GatewayReport)
      /\ Sound(told, Says(CtpSaid, wire), orders) /\ AskedOK(asked, wire, front, session)
      /\ ToldOK(told, orders)
      /\ (MaxDisconnects = 0 => OneSession(told, orders, base, session, nextId))
  BY CtpTypesFacts DEF CtpInv, CtpTypes
<1>2. /\ Tail(wire) \in Seq(CtpMessage) /\ WireOK(Tail(wire), front, session, orders)
      /\ MessageOK(Head(wire), front, session, orders)
      /\ NoToken(wire) => NoToken(Tail(wire))
      /\ Says(CtpSaid, wire) # <<>> /\ Says(CtpSaid, wire) \in Seq(Saying)
      /\ Says(CtpSaid, Tail(wire)) = Tail(Says(CtpSaid, wire))
      /\ Head(Says(CtpSaid, wire)) = CtpSaid[Head(wire)]
      /\ Sound(told, Says(CtpSaid, Tail(wire)), orders)
  BY CtpSeen
<1>3. session > 0 /\ r.about \in DOMAIN orders
  BY <1>2 DEF MessageOK
<1>4. /\ orders[r.about].id = 0 => r.id \notin 1 .. MaxOrders
      /\ orders[r.about].id > 0 /\ MaxDisconnects = 0 => r.id = orders[r.about].id
  BY <1>3, IdIs
<1>5. PICK u : u = told'
  OBVIOUS
<1>6. PICK n : n = Len(told) + 1
  OBVIOUS
<1>7. /\ u \in Seq(GatewayReport) /\ DOMAIN u = 1 .. n /\ DOMAIN told = 1 .. n - 1 /\ n \in Nat
      /\ u[n] = r /\ \A i \in DOMAIN told : u[i] = told[i]
  BY <1>1, <1>5, <1>6, AppendProperties
<1>8. \A i \in DOMAIN u : u[i] = r \/ (i \in DOMAIN told /\ u[i] = told[i])
  BY <1>7
<1>9. ToldOK(u, orders)
  BY <1>1, <1>3, <1>4, <1>8 DEF ToldOK
<1>10. MaxDisconnects = 0 => OneSession(u, orders, base, session, nextId)
  BY <1>1, <1>4, <1>8 DEF OneSession
<1>11. Sound(u, Says(CtpSaid, Tail(wire)), orders)
  <2>1. CASE ~ Counts(r)
    BY <1>1, <1>2, <1>5, <2>1, SoundMention
  <2>2. CASE /\ Counts(r)
             /\ r.kind = CtpSaid[Head(wire)].kind /\ r.volume = CtpSaid[Head(wire)].volume
             /\ r.about = CtpSaid[Head(wire)].about
    BY <1>1, <1>2, <1>5, <2>2, SoundTake
  <2> QED
    BY <2>1, <2>2
<1>12. CtpTypes'
  BY <1>1, <1>2, <1>5, <1>7 DEF CtpTypes, Ctp!TypeOK
<1>13. AskedOK(asked, Tail(wire), front, session)
  BY <1>1, <1>2 DEF AskedOK
<1> QED
  BY <1>2, <1>5, <1>9, <1>10, <1>11, <1>12, <1>13 DEF CtpInv

(* A message about an order, and its order.                                *)
LEMMA CtpReport ==
  ASSUME CtpInv, wire # <<>>, IsReport(Head(wire))
  PROVE  /\ Head(wire) \in CtpMessage /\ Head(wire).about \in DOMAIN orders
         /\ Head(wire).about \in Nat
         /\ Ctp!GetOrderId(orders[Head(wire).about].tag) \in Nat
<1>1. Head(wire) \in CtpMessage /\ MessageOK(Head(wire), front, session, orders)
  BY CtpSeen
<1>2. session > 0 /\ Head(wire).about \in DOMAIN orders
  BY <1>1 DEF MessageOK
<1>3. orders \in Seq(BrokerOrder)
  BY CtpTypesFacts DEF CtpInv
<1> QED
  BY <1>1, <1>2, <1>3, IdIs, OrderFields

LEMMA CtpTrade ==
  ASSUME CtpInv, Ctp!OnRtnTrade
  PROVE  CtpInv'
<1>1. /\ wire # <<>> /\ Head(wire).kind = "rtnTrade" /\ wire' = Tail(wire)
      /\ UNCHANGED <<loginCall, status, base, session, nextId, front, asked, orders>>
  BY DEF Ctp!OnRtnTrade
<1>2. PICK m : m = Head(wire)
  OBVIOUS
<1>3. IsReport(m)
  BY <1>1, <1>2 DEF IsReport
<1>4. m \in CtpMessage /\ m.about \in Nat /\ Ctp!GetOrderId(orders[m.about].tag) \in Nat
  BY <1>1, <1>2, <1>3, CtpReport
<1>5. m.volume \in Nat
  BY <1>1, <1>2, <1>4 DEF CtpMessage
<1>6. PICK r : r = [id |-> Ctp!GetOrderId(orders[m.about].tag), kind |-> "traded",
                    volume |-> m.volume, about |-> m.about]
  OBVIOUS
<1>7. told' = Append(told, r)
  BY <1>2, <1>6, CtpBroker DEF Ctp!OnRtnTrade, Told
<1>8. r \in GatewayReport /\ Counts(r)
  BY <1>4, <1>5, <1>6 DEF GatewayReport, Counts
<1>9. CtpSaid[m] = [kind |-> "traded", volume |-> m.volume, about |-> m.about]
  BY <1>1, <1>2, <1>4 DEF CtpSaid
<1>10. r.kind = CtpSaid[m].kind /\ r.volume = CtpSaid[m].volume /\ r.about = CtpSaid[m].about
  BY <1>6, <1>9
<1>11. r.about = m.about /\ r.id = Ctp!GetOrderId(orders[r.about].tag)
  BY <1>6
<1> QED
  BY <1>1, <1>2, <1>3, <1>7, <1>8, <1>10, <1>11, CtpTell

LEMMA CtpInsert ==
  ASSUME CtpInv, Ctp!OnRspOrderInsert
  PROVE  CtpInv'
<1>1. /\ wire # <<>> /\ Head(wire).kind = "rspOrderInsert" /\ wire' = Tail(wire)
      /\ UNCHANGED <<loginCall, status, base, session, nextId, front, asked, orders>>
  BY DEF Ctp!OnRspOrderInsert
<1>2. PICK m : m = Head(wire)
  OBVIOUS
<1>3. IsReport(m)
  BY <1>1, <1>2 DEF IsReport
<1>4. m \in CtpMessage /\ m.about \in Nat /\ Ctp!GetOrderId(orders[m.about].tag) \in Nat
  BY <1>1, <1>2, <1>3, CtpReport
<1>5. PICK r : r = [id |-> Ctp!GetOrderId(orders[m.about].tag), kind |-> "rejected",
                    volume |-> 0, about |-> m.about]
  OBVIOUS
<1>6. told' = Append(told, r)
  BY <1>2, <1>5, CtpBroker DEF Ctp!OnRspOrderInsert, Told
<1>7. r \in GatewayReport /\ Counts(r)
  BY <1>4, <1>5 DEF GatewayReport, Counts
<1>8. CtpSaid[m] = [kind |-> "rejected", volume |-> 0, about |-> m.about]
  BY <1>1, <1>2, <1>4 DEF CtpSaid
<1>9. r.kind = CtpSaid[m].kind /\ r.volume = CtpSaid[m].volume /\ r.about = CtpSaid[m].about
  BY <1>5, <1>8
<1>10. r.about = m.about /\ r.id = Ctp!GetOrderId(orders[r.about].tag)
  BY <1>5
<1> QED
  BY <1>1, <1>2, <1>3, <1>6, <1>7, <1>9, <1>10, CtpTell

(* OnRtnOrder's filter: one report, whose kind and volume are what the     *)
(* message says of the order's life, or none.                              *)
LEMMA CtpOrder ==
  ASSUME CtpInv, Ctp!OnRtnOrder
  PROVE  CtpInv'
<1>1. /\ wire # <<>> /\ Head(wire).kind = "rtnOrder" /\ wire' = Tail(wire)
      /\ UNCHANGED <<loginCall, status, base, session, nextId, front, asked, orders>>
  BY DEF Ctp!OnRtnOrder
<1>2. PICK m : m = Head(wire)
  OBVIOUS
<1>3. IsReport(m)
  BY <1>1, <1>2 DEF IsReport
<1>4. PICK id \in Nat : id = Ctp!GetOrderId(orders[m.about].tag)
  BY <1>1, <1>2, <1>3, CtpReport
<1>5. m \in CtpMessage /\ m.about \in Nat
  BY <1>1, <1>2, <1>3, CtpReport
<1>6. Volume \in Nat /\ told \in Seq(GatewayReport)
  BY CtpTypesFacts DEF CtpInv
<1>7. m.submit \in CtpSubmits /\ m.state \in CtpStates /\ m.traded \in Int
  BY <1>1, <1>2, <1>5 DEF CtpMessage
<1>8. PICK left \in Int : left = Volume - m.traded
  BY <1>6, <1>7
<1>9. told' = told \o Ctp!OrderReports(m)
  BY <1>2 DEF Ctp!OnRtnOrder
<1>10. ASSUME NEW r \in GatewayReport, Ctp!OrderReports(m) = <<r>>, r.id = id, r.about = m.about,
              \/ ~ Counts(r)
              \/ /\ Counts(r)
                 /\ r.kind = CtpSaid[m].kind /\ r.volume = CtpSaid[m].volume
                 /\ r.about = CtpSaid[m].about
       PROVE  CtpInv'
  <2>1. told' = Append(told, r)
    BY <1>6, <1>9, <1>10, ConcatOne
  <2>2. r.id = Ctp!GetOrderId(orders[r.about].tag)
    BY <1>4, <1>10
  <2> QED
    BY <1>1, <1>2, <1>3, <1>10, <2>1, <2>2, CtpTell
<1>11. ASSUME Ctp!OrderReports(m) = <<>> PROVE CtpInv'
  <2>1. told' = told
    BY <1>6, <1>9, <1>11, ConcatEmptySeq
  <2>2. /\ status' \in {-1, 0, 1} /\ asked' \in Ctp!Requests \union {"nothing"}
        /\ LoginOK(loginCall, status, session) /\ AskedOK(asked, wire, front, session)
    BY <1>1 DEF CtpInv, CtpTypes, Ctp!TypeOK
  <2>3. /\ status' = 1 => session > 0
        /\ asked' \in {"settlement", "confirm", "orders"} => session > 0
    BY <1>1, <2>2 DEF LoginOK, AskedOK
  <2> QED
    BY <1>1, <2>1, <2>2, <2>3, CtpIgnore
<1> DEFINE rsp(kind, volume) == [id |-> id, kind |-> kind, volume |-> volume, about |-> m.about]
<1>0. PICK none \in Int : none = 0
  OBVIOUS
<1>12. ASSUME NEW kind \in {"accepted", "rejected", "cancelRejected", "traded", "canceled"},
              NEW volume \in Int
       PROVE  /\ rsp(kind, volume) \in GatewayReport
              /\ Ctp!Told(Ctp!GetOrderId(orders[m.about].tag), kind, volume, m.about)
                   = rsp(kind, volume)
  BY <1>4, <1>5, <1>12, CtpBroker DEF GatewayReport, Told
<1>13. CASE m.submit = "insertRejected"
  <2>1. PICK r \in GatewayReport :
          /\ r = rsp("rejected", none)
          /\ r = Ctp!Told(Ctp!GetOrderId(orders[m.about].tag), "rejected", none, m.about)
    BY <1>12
  <2>2. Ctp!OrderReports(m) = <<r>>
    BY <1>0, <1>13, <2>1 DEF Ctp!OrderReports
  <2>3. CtpSaid[m] = [kind |-> "rejected", volume |-> 0, about |-> m.about]
    BY <1>1, <1>2, <1>5, <1>13 DEF CtpSaid
  <2> QED
    BY <1>0, <1>10, <2>1, <2>2, <2>3 DEF Counts
<1>14. CASE m.submit = "cancelRejected"
  <2>1. PICK r \in GatewayReport :
          /\ r = rsp("cancelRejected", none)
          /\ r = Ctp!Told(Ctp!GetOrderId(orders[m.about].tag), "cancelRejected", none, m.about)
    BY <1>12
  <2>2. Ctp!OrderReports(m) = <<r>>
    BY <1>0, <1>14, <2>1 DEF Ctp!OrderReports
  <2> QED
    BY <1>10, <2>1, <2>2 DEF Counts
<1>15. CASE m.submit = "cancelSubmitted" \/ (m.submit = "insertSubmitted" /\ m.state # "canceled")
  <2>1. Ctp!OrderReports(m) = <<>>
    BY <1>15 DEF Ctp!OrderReports
  <2> QED
    BY <1>11, <2>1
<1>16. CASE m.submit = "accepted" \/ (m.submit = "insertSubmitted" /\ m.state = "canceled")
  <2>1. Ctp!OrderReports(m) =
          CASE m.state \in {"canceled", "partTradedNotQueueing"} ->
                 <<Ctp!Told(Ctp!GetOrderId(orders[m.about].tag), "canceled", Volume - m.traded,
                            m.about)>>
            [] m.state = "noTradeQueueing" ->
                 <<Ctp!Told(Ctp!GetOrderId(orders[m.about].tag), "accepted", 0, m.about)>>
            [] m.state \in {"unknown", "partTradedQueueing", "allTraded"} -> <<>>
    BY <1>16 DEF Ctp!OrderReports
  <2>2. CASE m.state \in {"canceled", "partTradedNotQueueing"}
    <3>1. PICK r \in GatewayReport :
            /\ r = rsp("canceled", left)
            /\ r = Ctp!Told(Ctp!GetOrderId(orders[m.about].tag), "canceled", left, m.about)
      BY <1>12
    <3>2. Ctp!OrderReports(m) = <<r>>
      BY <1>8, <2>1, <2>2, <3>1
    <3>3. CtpSaid[m] = [kind |-> "canceled", volume |-> left, about |-> m.about]
      BY <1>1, <1>2, <1>5, <1>8, <1>16, <2>2 DEF CtpSaid
    <3> QED
      BY <1>10, <3>1, <3>2, <3>3 DEF Counts
  <2>3. CASE m.state = "noTradeQueueing"
    <3>1. PICK r \in GatewayReport :
            /\ r = rsp("accepted", none)
            /\ r = Ctp!Told(Ctp!GetOrderId(orders[m.about].tag), "accepted", none, m.about)
      BY <1>12
    <3>2. Ctp!OrderReports(m) = <<r>>
      BY <1>0, <2>1, <2>3, <3>1
    <3> QED
      BY <1>10, <3>1, <3>2 DEF Counts
  <2>4. CASE m.state \in {"unknown", "partTradedQueueing", "allTraded"}
    BY <1>11, <2>1, <2>4
  <2> QED
    BY <1>7, <2>2, <2>3, <2>4 DEF CtpStates
<1> QED
  BY <1>7, <1>13, <1>14, <1>15, <1>16 DEF CtpSubmits

(* The largest ref of the book, which the front's login answer carries.    *)
LEMMA LargestRef ==
  ASSUME CtpInv
  PROVE  /\ Ctp!MaxOrderRef \in Nat /\ Leftovers <= Ctp!MaxOrderRef
         /\ Ctp!MaxOrderRef < RefBound(front.sessions + 1)
<1>1. CtpTypes /\ BookOK(orders, session, front)
  BY DEF CtpInv
<1>2. /\ MaxOrders \in Nat /\ Leftovers \in Nat /\ orders \in Seq(BrokerOrder)
      /\ front \in [connected : BOOLEAN, sessions : Nat, drops : Nat]
  BY <1>1, CtpTypesFacts
<1>3. PICK b : b = RefBound(front.sessions) + MaxOrders
  OBVIOUS
<1>4. /\ b \in Nat /\ RefBound(front.sessions) >= Leftovers /\ RefBound(front.sessions) \in Nat
      /\ RefBound(front.sessions + 1) = b + 1 /\ Leftovers <= b
  <2>1. PICK n \in Nat : n = front.sessions
    BY <1>2
  <2>2. /\ RefBound(n) \in Nat /\ RefBound(n) >= Leftovers
        /\ RefBound(n + 1) = RefBound(n) + MaxOrders + 1
    BY <1>2, <2>1, RefBoundIs
  <2>3. b = RefBound(n) + MaxOrders
    BY <1>3, <2>1
  <2>4. b \in Nat /\ RefBound(n + 1) = b + 1 /\ Leftovers <= b
    BY <1>2, <2>2, <2>3
  <2> QED
    BY <2>1, <2>2, <2>4
<1>5. \A k \in DOMAIN orders : orders[k].tag \in Nat
  BY <1>2, OrderFields
<1>6. \A k \in DOMAIN orders : orders[k].tag <= b
  BY SMTT(30), <1>1, <1>2, <1>3, <1>4, <1>5 DEF BookOK
<1>7. PICK U : U = {0} \union {orders[k].tag : k \in DOMAIN orders}
  OBVIOUS
<1>8. /\ U \in SUBSET Nat /\ 0 \in U /\ Leftovers \in U /\ \A x \in U : x <= b
  BY <1>1, <1>4, <1>5, <1>6, <1>7 DEF BookOK
<1>9. Max(U) \in U /\ Max(U) >= Leftovers
  BY <1>4, <1>8, LargestExists
<1>10. Ctp!MaxOrderRef = Max(U)
  BY <1>7 DEF Ctp!MaxOrderRef, Ctp!Max, Max
<1>11. PICK x \in Nat : x = Max(U) /\ x <= b /\ x >= Leftovers
  BY <1>8, <1>9
<1> QED
  BY <1>4, <1>10, <1>11

(* A message that tells nothing arrives.                                   *)
LEMMA CtpSilent ==
  ASSUME CtpInv, NEW q \in Seq(CtpMessage), Sound(told, Says(CtpSaid, q), orders),
         NEW m \in CtpMessage, m.kind \in {"connected", "disconnected", "answer"}
  PROVE  Append(q, m) \in Seq(CtpMessage) /\ Sound(told, Says(CtpSaid, Append(q, m)), orders)
<1>1. told \in Seq(GatewayReport) /\ Volume \in Int
  BY CtpTypesFacts DEF CtpInv
<1>2. /\ Says(CtpSaid, q) \in Seq(Saying) /\ CtpSaid[m] \in Saying
      /\ Append(q, m) \in Seq(CtpMessage)
      /\ Says(CtpSaid, Append(q, m)) = Append(Says(CtpSaid, q), CtpSaid[m])
  BY <1>1, CtpSaysOne
<1>3. CtpSaid[m] = Nothing /\ ~ Counts(Nothing)
  BY DEF CtpSaid, Nothing, Counts
<1> QED
  BY <1>1, <1>2, <1>3, SayNothing

(* The front takes the connection.                                         *)
LEMMA CtpConnects ==
  ASSUME CtpInv, Ctp!FrontConnects
  PROVE  CtpInv'
<1>1. /\ CtpTypes /\ Ctp!TypeOK /\ LoginOK(loginCall, status, session)
      /\ WireOK(wire, front, session, orders) /\ AskedOK(asked, wire, front, session)
      /\ FrontOK(front) /\ BaseOK(base, session, front)
      /\ BookOK(orders, session, front) /\ ToldOK(told, orders)
      /\ (MaxDisconnects = 0 => OneSession(told, orders, base, session, nextId))
      /\ Sound(told, Says(CtpSaid, wire), orders)
  BY DEF CtpInv, CtpTypes
<1>2. /\ wire \in Seq(CtpMessage)
      /\ front \in [connected : BOOLEAN, sessions : Nat, drops : Nat]
  BY <1>1, CtpTypesFacts
<1>3. PICK m : m = [kind |-> "connected"]
  OBVIOUS
<1>4. /\ ~ front.connected /\ front' = [front EXCEPT !.connected = TRUE]
      /\ wire' = Append(wire, m)
      /\ UNCHANGED <<loginCall, status, base, session, nextId, told, asked, orders>>
  BY <1>3 DEF Ctp!FrontConnects, Ctp!client
<1>5. m \in CtpMessage /\ m.kind = "connected"
  BY <1>3 DEF CtpMessage
<1>6. wire' \in Seq(CtpMessage) /\ Sound(told, Says(CtpSaid, wire'), orders)
  BY <1>1, <1>2, <1>4, <1>5, CtpSilent
<1>7. PICK f : f = front'
  OBVIOUS
<1>8. /\ f \in [connected : BOOLEAN, sessions : Nat, drops : Nat]
      /\ f.connected /\ f.sessions = front.sessions /\ f.drops = front.drops
  BY <1>2, <1>4, <1>7
<1>9. front.sessions <= front.drops /\ front.drops <= MaxDisconnects
  BY <1>1, <1>4 DEF FrontOK
<1>10. FrontOK(f)
  BY <1>2, <1>8, <1>9 DEF FrontOK
<1>11. NoToken(wire)
  BY <1>1, <1>4 DEF WireOK, MessageOK, NoToken, IsToken
<1>12. WireOK(wire, f, session, orders)
  BY <1>1, <1>11 DEF WireOK, MessageOK, NoToken, IsToken
<1>13. MessageOK(m, f, session, orders)
  BY <1>5, <1>8, <1>9 DEF MessageOK, BeforeLogin, LoginAnswer, AfterLogin, IsReport
<1>14. WireOK(wire', f, session, orders)
  BY <1>2, <1>4, <1>5, <1>11, <1>12, <1>13, WireAppend
<1>15. AskedOK(asked, wire', f, session)
  BY <1>1, <1>4 DEF AskedOK
<1>16. BaseOK(base, session, f) /\ BookOK(orders, session, f)
  BY <1>1, <1>8 DEF BaseOK, BookOK
<1>17. CtpTypes'
  BY <1>1, <1>4, <1>6, <1>7, <1>8 DEF CtpTypes, Ctp!TypeOK
<1> QED
  BY <1>1, <1>4, <1>6, <1>7, <1>10, <1>14, <1>15, <1>16, <1>17 DEF CtpInv

(* The front drops the connection, and what was under way with it.         *)
LEMMA CtpDrops ==
  ASSUME CtpInv, Ctp!FrontDrops
  PROVE  CtpInv'
<1>1. /\ CtpTypes /\ Ctp!TypeOK /\ LoginOK(loginCall, status, session)
      /\ FrontOK(front) /\ BaseOK(base, session, front)
      /\ BookOK(orders, session, front) /\ ToldOK(told, orders)
      /\ (MaxDisconnects = 0 => OneSession(told, orders, base, session, nextId))
      /\ Sound(told, Says(CtpSaid, wire), orders)
  BY DEF CtpInv, CtpTypes
<1>2. /\ wire \in Seq(CtpMessage) /\ told \in Seq(GatewayReport) /\ Volume \in Int
      /\ front \in [connected : BOOLEAN, sessions : Nat, drops : Nat] /\ MaxDisconnects \in Nat
  BY <1>1, CtpTypesFacts
<1>3. PICK m : m = [kind |-> "disconnected"]
  OBVIOUS
<1>4. /\ front.connected /\ front.drops < MaxDisconnects
      /\ front' = [front EXCEPT !.connected = FALSE, !.drops = front.drops + 1]
      /\ wire' = <<m>> /\ asked' = "nothing"
      /\ UNCHANGED <<loginCall, status, base, session, nextId, told, orders>>
  BY <1>3 DEF Ctp!FrontDrops, Ctp!client
<1>5. m \in CtpMessage /\ m.kind = "disconnected"
  BY <1>3 DEF CtpMessage
<1>6. <<>> \in Seq(CtpMessage) /\ DOMAIN <<>> = {}
  OBVIOUS
<1>7. wire' = Append(<<>>, m)
  <2>1. <<>> \o <<m>> = Append(<<>>, m) /\ <<m>> \in Seq(CtpMessage)
    BY <1>5, <1>6, ConcatOne
  <2>2. <<>> \o <<m>> = <<m>>
    BY <2>1, ConcatEmptySeq
  <2> QED
    BY <1>4, <2>1, <2>2
<1>8. Sound(told, Says(CtpSaid, <<>>), orders)
  <2>1. Says(CtpSaid, wire) \in Seq(Saying)
    BY <1>2, CtpSaidType, SaysType
  <2> QED
    BY <1>1, <1>2, <2>1, SoundLose, SaysEmpty
<1>9. wire' \in Seq(CtpMessage) /\ Sound(told, Says(CtpSaid, wire'), orders)
  BY <1>5, <1>6, <1>7, <1>8, CtpSilent
<1>10. PICK f : f = front'
  OBVIOUS
<1>11. PICK drops \in Nat : drops = front.drops + 1
  BY <1>2
<1>12. f = [front EXCEPT !.connected = FALSE, !.drops = drops]
  BY <1>4, <1>10, <1>11
<1>13. ~ f.connected /\ f.sessions = front.sessions /\ f.drops = drops
  BY <1>2, <1>12
<1>14. f \in [connected : BOOLEAN, sessions : Nat, drops : Nat]
  BY <1>2, <1>12
<1>15. FrontOK(f)
  BY <1>1, <1>2, <1>4, <1>11, <1>13 DEF FrontOK
<1>16. MessageOK(m, f, session, orders) /\ ~ IsToken(m)
  BY <1>5 DEF MessageOK, BeforeLogin, LoginAnswer, AfterLogin, IsReport, IsToken
<1>17. WireOK(<<>>, f, session, orders)
  BY <1>6 DEF WireOK
<1>18. WireOK(wire', f, session, orders)
  BY <1>5, <1>6, <1>7, <1>16, <1>17, WireAppend
<1>19. AskedOK(asked', wire', f, session)
  BY <1>4 DEF AskedOK
<1>20. BaseOK(base, session, f) /\ BookOK(orders, session, f)
  BY <1>1, <1>13 DEF BaseOK, BookOK
<1>21. CtpTypes'
  BY <1>1, <1>4, <1>9, <1>10, <1>14 DEF CtpTypes, Ctp!TypeOK
<1> QED
  BY <1>1, <1>4, <1>9, <1>10, <1>15, <1>18, <1>19, <1>20, <1>21 DEF CtpInv

(* The front answers a request; a login's answer names the next session.   *)
LEMMA CtpAnswers ==
  ASSUME CtpInv, Ctp!FrontAnswers
  PROVE  CtpInv'
<1>1. /\ CtpTypes /\ Ctp!TypeOK /\ LoginOK(loginCall, status, session)
      /\ WireOK(wire, front, session, orders) /\ AskedOK(asked, wire, front, session)
      /\ FrontOK(front) /\ BaseOK(base, session, front)
      /\ BookOK(orders, session, front) /\ ToldOK(told, orders)
      /\ (MaxDisconnects = 0 => OneSession(told, orders, base, session, nextId))
      /\ Sound(told, Says(CtpSaid, wire), orders)
  BY DEF CtpInv, CtpTypes
<1>2. /\ wire \in Seq(CtpMessage) /\ orders \in Seq(BrokerOrder) /\ session \in Nat
      /\ front \in [connected : BOOLEAN, sessions : Nat, drops : Nat]
      /\ MaxOrders \in Nat /\ Leftovers \in Nat /\ base \in Nat
  BY <1>1, CtpTypesFacts
<1>3. PICK list : list = {k \in DOMAIN orders : orders[k].state = "queueing"}
  OBVIOUS
<1>4. list \in SUBSET Nat
  BY <1>2, <1>3
<1>5. PICK ok \in BOOLEAN :
        wire' = Append(wire,
          IF asked = "login" /\ ok
          THEN [kind |-> "answer", to |-> asked, ok |-> ok,
                session |-> front.sessions + 1, maxRef |-> Ctp!MaxOrderRef]
          ELSE [kind |-> "answer", to |-> asked, ok |-> ok, list |-> list])
  BY <1>3 DEF Ctp!FrontAnswers
<1>6. /\ front.connected /\ asked # "nothing" /\ asked' = "nothing"
      /\ front' = [front EXCEPT !.sessions = IF asked = "login" THEN front.sessions + 1
                                             ELSE front.sessions]
      /\ UNCHANGED <<loginCall, status, base, session, nextId, told, orders>>
  BY DEF Ctp!FrontAnswers, Ctp!client
<1>7. PICK f : f = front'
  OBVIOUS
<1>8. asked \in Ctp!Requests
  BY <1>1, <1>6 DEF Ctp!TypeOK
<1>9. ASSUME NEW m \in CtpMessage, wire' = Append(wire, m), m.kind = "answer",
             f \in [connected : BOOLEAN, sessions : Nat, drops : Nat],
             WireOK(wire, f, session, orders), MessageOK(m, f, session, orders),
             IsToken(m) => NoToken(wire), FrontOK(f), BaseOK(base, session, f),
             BookOK(orders, session, f)
      PROVE  CtpInv'
  <2>1. wire' \in Seq(CtpMessage) /\ Sound(told, Says(CtpSaid, wire'), orders)
    BY <1>1, <1>2, <1>9, CtpSilent
  <2>2. WireOK(wire', f, session, orders)
    BY <1>2, <1>9, WireAppend
  <2>3. AskedOK(asked', wire', f, session)
    BY <1>6 DEF AskedOK
  <2>4. CtpTypes'
    BY <1>1, <1>6, <1>7, <1>9, <2>1 DEF CtpTypes, Ctp!TypeOK
  <2> QED
    BY <1>1, <1>6, <1>7, <1>9, <2>1, <2>2, <2>3, <2>4 DEF CtpInv
<1>10. CASE asked # "login"
  <2>1. PICK m : m = [kind |-> "answer", to |-> asked, ok |-> ok, list |-> list]
    OBVIOUS
  <2>2. m \in CtpMessage /\ m.kind = "answer" /\ m.to = asked
    BY <1>4, <1>8, <1>10, <2>1 DEF CtpMessage
  <2>3. f = front
    BY <1>2, <1>6, <1>7, <1>10
  <2>4. wire' = Append(wire, m)
    BY <1>5, <1>10, <2>1
  <2>5. MessageOK(m, front, session, orders) /\ (IsToken(m) => NoToken(wire))
    <3>1. BeforeLogin(m) => asked = "authenticate"
      BY <2>2 DEF BeforeLogin
    <3>2. ~ LoginAnswer(m) /\ ~ IsReport(m)
      BY <1>10, <2>2 DEF LoginAnswer, IsReport
    <3>3. AfterLogin(m) => asked \in {"settlement", "confirm", "orders"}
      BY <2>2 DEF AfterLogin
    <3> QED
      BY <1>1, <3>1, <3>2, <3>3 DEF MessageOK, AskedOK, IsToken
  <2> QED
    BY <1>1, <1>2, <1>9, <2>2, <2>3, <2>4, <2>5
<1>11. CASE asked = "login"
  <2>1. PICK n \in Nat : n = front.sessions + 1
    BY <1>2
  <2>2. f = [front EXCEPT !.sessions = n]
    BY <1>6, <1>7, <1>11, <2>1
  <2>3. /\ f \in [connected : BOOLEAN, sessions : Nat, drops : Nat]
        /\ f.connected = front.connected /\ f.sessions = n /\ f.drops = front.drops
    BY <1>2, <2>2
  <2>4. front.sessions <= front.drops /\ NoToken(wire)
    BY <1>1, <1>11 DEF AskedOK
  <2>5. FrontOK(f)
    BY <1>1, <1>2, <1>6, <2>1, <2>3, <2>4 DEF FrontOK
  <2>6. /\ RefBound(n) \in Nat /\ RefBound(front.sessions) \in Nat
        /\ RefBound(n) = RefBound(front.sessions) + MaxOrders + 1
    BY <1>2, <2>1, RefBoundIs
  <2>7. /\ Ctp!MaxOrderRef \in Nat /\ Leftovers <= Ctp!MaxOrderRef
        /\ Ctp!MaxOrderRef < RefBound(n)
    BY <2>1, LargestRef
  <2>8. session <= front.sessions /\ session < n
    BY <1>1, <1>2, <2>1 DEF BaseOK
  <2>9. BaseOK(base, session, f)
    BY <1>1, <1>2, <2>1, <2>3, <2>6, <2>8 DEF BaseOK
  <2>10. BookOK(orders, session, f)
    <3>1. \A k \in DOMAIN orders : orders[k].tag \in Nat
      BY <1>2, OrderFields
    <3>2. \A k \in DOMAIN orders :
            IF orders[k].id = 0 THEN orders[k].tag <= Leftovers
            ELSE session > 0 /\ orders[k].tag <= RefBound(n) + MaxOrders
      BY SMTT(30), <1>1, <1>2, <2>6, <3>1 DEF BookOK
    <3> QED
      BY <1>1, <2>3, <3>2 DEF BookOK
  <2>11. WireOK(wire, f, session, orders)
    BY <1>1, <2>4 DEF WireOK, MessageOK, NoToken, IsToken
  <2>12. CASE ok
    <3>1. PICK ref \in Nat : ref = Ctp!MaxOrderRef
      BY <2>7
    <3>2. PICK m : m = [kind |-> "answer", to |-> "login", ok |-> TRUE, session |-> n,
                        maxRef |-> ref]
      OBVIOUS
    <3>3. /\ m \in CtpMessage /\ m.kind = "answer" /\ m.to = "login" /\ m.session = n
          /\ m.maxRef = ref
      BY <3>2 DEF CtpMessage
    <3>4. wire' = Append(wire, m)
      BY <1>5, <1>11, <2>1, <2>12, <3>1, <3>2
    <3>5. MessageOK(m, f, session, orders)
      <4>1. ~ BeforeLogin(m) /\ ~ AfterLogin(m) /\ ~ IsReport(m)
        BY <3>3 DEF BeforeLogin, AfterLogin, IsReport
      <4> QED
        BY <1>6, <2>3, <2>7, <2>8, <3>1, <3>3, <4>1 DEF MessageOK
    <3> QED
      BY <1>9, <2>3, <2>4, <2>5, <2>9, <2>10, <2>11, <3>3, <3>4, <3>5
  <2>13. CASE ~ ok
    <3>1. PICK m : m = [kind |-> "answer", to |-> "login", ok |-> FALSE, list |-> list]
      OBVIOUS
    <3>2. m \in CtpMessage /\ m.kind = "answer" /\ m.to = "login" /\ ~ m.ok
      BY <1>4, <3>1 DEF CtpMessage
    <3>3. wire' = Append(wire, m)
      BY <1>5, <1>11, <2>13, <3>1
    <3>4. MessageOK(m, f, session, orders)
      BY <3>2 DEF MessageOK, BeforeLogin, LoginAnswer, AfterLogin, IsReport
    <3> QED
      BY <1>9, <2>3, <2>4, <2>5, <2>9, <2>10, <2>11, <3>2, <3>3, <3>4
  <2> QED
    BY <2>12, <2>13
<1> QED
  BY <1>10, <1>11

(* The broker speaks to a client that is logged in: one more report is     *)
(* under way.                                                              *)
LEMMA CtpSpeaks ==
  ASSUME CtpInv, session > 0, NEW q \in Seq(CtpMessage), WireOK(q, front, session, orders),
         NoToken(wire) => NoToken(q), NEW m \in CtpMessage,
         \/ m.kind \in {"rspOrderInsert", "rtnOrder", "rtnTrade"} /\ m.about \in DOMAIN orders
         \/ m.kind = "answer" /\ m.to = "orderAction"
  PROVE  /\ Append(q, m) \in Seq(CtpMessage) /\ WireOK(Append(q, m), front, session, orders)
         /\ NoToken(wire) => NoToken(Append(q, m))
         /\ Says(CtpSaid, q) \in Seq(Saying) /\ CtpSaid[m] \in Saying
         /\ Says(CtpSaid, Append(q, m)) = Append(Says(CtpSaid, q), CtpSaid[m])
<1>1. Volume \in Int
  BY CtpTypesFacts DEF CtpInv
<1>2. /\ Append(q, m) \in Seq(CtpMessage)
      /\ Says(CtpSaid, q) \in Seq(Saying) /\ CtpSaid[m] \in Saying
      /\ Says(CtpSaid, Append(q, m)) = Append(Says(CtpSaid, q), CtpSaid[m])
  BY <1>1, CtpSaysOne
<1>3. ~ BeforeLogin(m) /\ ~ LoginAnswer(m) /\ ~ AfterLogin(m) /\ ~ IsToken(m)
  BY DEF BeforeLogin, LoginAnswer, AfterLogin, IsToken
<1>4. MessageOK(m, front, session, orders)
  BY <1>3 DEF MessageOK, IsReport
<1> QED
  BY <1>2, <1>3, <1>4, WireAppend

(* An order of the book moves on.                                          *)
LEMMA CtpBookMoves ==
  ASSUME CtpInv, NEW k \in DOMAIN orders, Alive(orders[k]), NEW e \in BrokerOrder,
         e.traded >= orders[k].traded, e.state # "sent", e.session = orders[k].session,
         e.id = orders[k].id, e.tag = orders[k].tag,
         NEW p, p = [orders EXCEPT ![k] = e]
  PROVE  /\ p \in Seq(BrokerOrder) /\ p[k] = e /\ SameNames(orders, p)
         /\ OrdersSound(p) /\ OrdersMove(orders, p)
         /\ Sound(told, Says(CtpSaid, wire), p)
<1>1. /\ orders \in Seq(BrokerOrder) /\ wire \in Seq(CtpMessage) /\ told \in Seq(GatewayReport)
      /\ OrdersSound(orders) /\ Volume \in Int /\ Sound(told, Says(CtpSaid, wire), orders)
  BY CtpTypesFacts DEF CtpInv, Sound
<1>2. /\ p \in Seq(BrokerOrder) /\ DOMAIN p = DOMAIN orders /\ p[k] = e
      /\ OrdersSound(p) /\ OrdersMove(orders, p)
      /\ \A i \in DOMAIN p : /\ i \in DOMAIN orders /\ p[i].session = orders[i].session
                             /\ p[i].id = orders[i].id /\ p[i].tag = orders[i].tag
  BY <1>1, BookChanges
<1>3. SameNames(orders, p)
  BY <1>2 DEF SameNames
<1>4. Says(CtpSaid, wire) \in Seq(Saying)
  BY <1>1, CtpSaidType, SaysType
<1> QED
  BY <1>1, <1>2, <1>3, <1>4, SoundOrders

(* A step of the broker's, with what it makes of the book and the wire.    *)
LEMMA CtpBrokerStep ==
  ASSUME CtpInv, UNCHANGED <<Ctp!client, front, asked>>,
         orders' \in Seq(BrokerOrder), SameNames(orders, orders'),
         wire' \in Seq(CtpMessage), WireOK(wire', front, session, orders),
         NoToken(wire) => NoToken(wire'),
         Sound(told, Says(CtpSaid, wire'), orders')
  PROVE  CtpInv'
<1>1. UNCHANGED <<loginCall, status, base, session, nextId, front, told, asked>>
  BY DEF Ctp!client
<1>2. LoginOK(loginCall, status, session) /\ Ctp!TypeOK
  BY DEF CtpInv, CtpTypes
<1>3. status' \in {-1, 0, 1} /\ (status' = 1 => session > 0)
  BY <1>1, <1>2 DEF Ctp!TypeOK, LoginOK
<1> QED
  BY <1>1, <1>3, CtpBookStep

(* The broker ends an order, and its last message says so.                 *)
LEMMA CtpSaysEnd ==
  ASSUME CtpInv, UNCHANGED <<Ctp!client, front, asked>>,
         NEW k \in DOMAIN orders, Alive(orders[k]), NEW e \in BrokerOrder,
         orders' = [orders EXCEPT ![k] = e], e.traded = orders[k].traded,
         e.state \in {"canceled", "rejected"}, e.state = "rejected" => e.traded = 0,
         e.session = orders[k].session, e.id = orders[k].id, e.tag = orders[k].tag,
         Ctp!Online => session > 0,
         NEW q \in Seq(CtpMessage), WireOK(q, front, session, orders),
         NoToken(wire) => NoToken(q), Sound(told, Says(CtpSaid, q), orders),
         NEW m \in CtpMessage, wire' = IF Ctp!Online THEN Append(q, m) ELSE wire,
         m.kind \in {"rtnOrder", "rspOrderInsert"}, m.about = k,
         CtpSaid[m] = [kind |-> e.state,
                       volume |-> IF e.state = "canceled" THEN Volume - e.traded ELSE 0,
                       about |-> k]
  PROVE  CtpInv'
<1>1. /\ orders \in Seq(BrokerOrder) /\ wire \in Seq(CtpMessage) /\ told \in Seq(GatewayReport)
      /\ OrdersSound(orders) /\ WireOK(wire, front, session, orders)
  BY CtpTypesFacts DEF CtpInv, Sound
<1>2. orders[k].traded \in Nat
  BY <1>1 DEF OrdersSound
<1>3. e.traded >= orders[k].traded /\ e.state # "sent"
  BY <1>2
<1>4. PICK p : p = orders'
  OBVIOUS
<1>5. /\ p \in Seq(BrokerOrder) /\ p[k] = e /\ SameNames(orders, p)
      /\ OrdersSound(p) /\ OrdersMove(orders, p)
      /\ Sound(told, Says(CtpSaid, wire), p)
  BY <1>3, <1>4, CtpBookMoves
<1>6. CASE ~ Ctp!Online
  BY <1>1, <1>4, <1>5, <1>6, CtpBrokerStep
<1>7. CASE Ctp!Online
  <2>1. /\ Says(CtpSaid, q) \in Seq(Saying) /\ CtpSaid[m] \in Saying
        /\ wire' \in Seq(CtpMessage) /\ WireOK(wire', front, session, orders)
        /\ NoToken(wire) => NoToken(wire')
        /\ Says(CtpSaid, wire') = Append(Says(CtpSaid, q), CtpSaid[m])
    BY <1>7, CtpSpeaks
  <2>2. CtpSaid[m].about = k /\ CtpSaid[m].kind = e.state
        /\ (e.state = "canceled" => CtpSaid[m].volume = Volume - e.traded)
    OBVIOUS
  <2>3. k \in DOMAIN p
    BY <1>5 DEF SameNames
  <2>4. Ends(CtpSaid[m]) /\ ReportSound(CtpSaid[m], p)
    BY <1>5, <2>2, <2>3 DEF Ends, ReportSound
  <2>5. Sound(told, Append(Says(CtpSaid, q), CtpSaid[m]), p)
    BY <1>1, <1>5, <2>1, <2>2, <2>4, SayEnd
  <2> QED
    BY <1>4, <1>5, <2>1, <2>5, CtpBrokerStep
<1> QED
  BY <1>6, <1>7

(* The broker says something that does not count.                          *)
LEMMA CtpMentions ==
  ASSUME CtpInv, session > 0, NEW q \in Seq(CtpMessage), WireOK(q, front, session, orders),
         NoToken(wire) => NoToken(q), NEW p, Sound(told, Says(CtpSaid, q), p),
         NEW m \in CtpMessage, CtpSaid[m] = Nothing,
         \/ m.kind \in {"rspOrderInsert", "rtnOrder", "rtnTrade"} /\ m.about \in DOMAIN orders
         \/ m.kind = "answer" /\ m.to = "orderAction"
  PROVE  /\ Append(q, m) \in Seq(CtpMessage) /\ WireOK(Append(q, m), front, session, orders)
         /\ NoToken(wire) => NoToken(Append(q, m))
         /\ Sound(told, Says(CtpSaid, Append(q, m)), p)
<1>1. told \in Seq(GatewayReport)
  BY CtpTypesFacts DEF CtpInv
<1>2. /\ Append(q, m) \in Seq(CtpMessage) /\ WireOK(Append(q, m), front, session, orders)
      /\ NoToken(wire) => NoToken(Append(q, m))
      /\ Says(CtpSaid, q) \in Seq(Saying) /\ CtpSaid[m] \in Saying
      /\ Says(CtpSaid, Append(q, m)) = Append(Says(CtpSaid, q), CtpSaid[m])
  BY CtpSpeaks
<1>3. ~ Counts(CtpSaid[m])
  BY DEF Nothing, Counts
<1> QED
  BY <1>1, <1>2, <1>3, SayNothing

(* The broker's report of an order.                                        *)
LEMMA CtpRtnOrder ==
  ASSUME NEW k \in Nat, NEW submit \in CtpSubmits, NEW state \in CtpStates, NEW traded \in Int
  PROVE  /\ Ctp!RtnOrder(k, submit, state, traded) \in CtpMessage
         /\ Ctp!RtnOrder(k, submit, state, traded).kind = "rtnOrder"
         /\ Ctp!RtnOrder(k, submit, state, traded).about = k
         /\ Ctp!RtnOrder(k, submit, state, traded).submit = submit
         /\ Ctp!RtnOrder(k, submit, state, traded).state = state
         /\ Ctp!RtnOrder(k, submit, state, traded).traded = traded
<1>1. PICK m : m = [kind |-> "rtnOrder", about |-> k, submit |-> submit, state |-> state,
                    traded |-> traded]
  OBVIOUS
<1>2. m \in [kind : {"rtnOrder"}, about : Nat, submit : CtpSubmits, state : CtpStates,
             traded : Int]
  BY <1>1
<1>3. m \in CtpMessage
  BY <1>2 DEF CtpMessage
<1>4. Ctp!RtnOrder(k, submit, state, traded) = m
  BY <1>1 DEF Ctp!RtnOrder
<1> QED
  BY <1>1, <1>3, <1>4

(* The broker speaks to a session of its own giving only.                  *)
LEMMA CtpOnline == Ctp!Online => session > 0
BY DEF Ctp!Online

(* The broker takes an order.                                              *)
LEMMA CtpTakes ==
  ASSUME CtpInv, NEW k \in DOMAIN orders, Ctp!BrokerTakes(k)
  PROVE  CtpInv'
<1>1. UNCHANGED <<Ctp!client, front, asked>> /\ orders[k].state = "sent"
  BY DEF Ctp!BrokerTakes
<1>2. /\ orders \in Seq(BrokerOrder) /\ wire \in Seq(CtpMessage) /\ told \in Seq(GatewayReport)
      /\ OrdersSound(orders) /\ Volume \in Nat \ {0} /\ Volume \in Int
      /\ WireOK(wire, front, session, orders) /\ Sound(told, Says(CtpSaid, wire), orders)
  BY CtpTypesFacts DEF CtpInv, Sound
<1>3. orders[k] \in BrokerOrder /\ k \in Nat
  BY <1>2, ElementOfSeq
<1>4. Alive(orders[k]) /\ orders[k].traded = 0
  BY <1>1, <1>2 DEF Alive, OrdersSound
<1>5. PICK submit \in {"accepted", "insertRejected", "front", "ioc"} :
        /\ orders' = [orders EXCEPT ![k].state =
             CASE submit = "accepted" -> "queueing"
               [] submit = "ioc" -> "canceled"
               [] submit \in {"insertRejected", "front"} -> "rejected"]
        /\ Ctp!BrokerSays(
             CASE submit = "accepted" ->
                    <<Ctp!RtnOrder(k, "insertSubmitted", "unknown", 0),
                      Ctp!RtnOrder(k, "accepted", "noTradeQueueing", 0)>>
               [] submit = "insertRejected" -> <<Ctp!RtnOrder(k, "insertRejected", "canceled", 0)>>
               [] submit = "ioc" -> <<Ctp!RtnOrder(k, "insertSubmitted", "canceled", 0)>>
               [] submit = "front" -> <<[kind |-> "rspOrderInsert", about |-> k]>>)
  BY DEF Ctp!BrokerTakes
<1>6. PICK outcome \in {"queueing", "canceled", "rejected"} :
        /\ submit = "accepted" => outcome = "queueing"
        /\ submit = "ioc" => outcome = "canceled"
        /\ submit \in {"insertRejected", "front"} => outcome = "rejected"
        /\ orders' = [orders EXCEPT ![k].state = outcome]
  BY <1>5
<1>7. PICK e : e = [orders[k] EXCEPT !.state = outcome]
  OBVIOUS
<1>8. /\ e \in BrokerOrder /\ e.state = outcome /\ e.traded = orders[k].traded
      /\ e.session = orders[k].session /\ e.id = orders[k].id /\ e.tag = orders[k].tag
  BY <1>3, <1>7 DEF BrokerOrder, OrderStates
<1>9. orders' = [orders EXCEPT ![k] = e]
  BY <1>6, <1>7
<1>10. ASSUME NEW m \in CtpMessage, e.state \in {"canceled", "rejected"},
              m.kind \in {"rtnOrder", "rspOrderInsert"}, m.about = k,
              Ctp!BrokerSays(<<m>>),
              CtpSaid[m] = [kind |-> e.state,
                            volume |-> IF e.state = "canceled" THEN Volume - e.traded ELSE 0,
                            about |-> k]
       PROVE  CtpInv'
  <2>1. wire' = IF Ctp!Online THEN Append(wire, m) ELSE wire
    BY <1>2, <1>10, ConcatOne DEF Ctp!BrokerSays
  <2> QED
    BY <1>1, <1>2, <1>4, <1>8, <1>9, <1>10, <2>1, CtpOnline, CtpSaysEnd
<1>11. PICK none \in Int : none = 0
  OBVIOUS
<1>12. CASE submit = "accepted"
  <2>1. PICK a : a = Ctp!RtnOrder(k, "insertSubmitted", "unknown", 0)
    OBVIOUS
  <2>2. PICK b : b = Ctp!RtnOrder(k, "accepted", "noTradeQueueing", 0)
    OBVIOUS
  <2>4. /\ a \in CtpMessage /\ a.kind = "rtnOrder" /\ a.about = k /\ CtpSaid[a] = Nothing
    <3>1. PICK submitted \in CtpSubmits : submitted = "insertSubmitted"
      BY DEF CtpSubmits
    <3>2. PICK state \in CtpStates : state = "unknown"
      BY DEF CtpStates
    <3>3. a = Ctp!RtnOrder(k, submitted, state, none)
      BY <1>11, <2>1, <3>1, <3>2
    <3>4. /\ a \in CtpMessage /\ a.kind = "rtnOrder" /\ a.about = k
          /\ a.submit = submitted /\ a.state = state /\ a.traded = none
      BY <1>3, <3>3, CtpRtnOrder
    <3> QED
      BY <3>1, <3>2, <3>4 DEF CtpSaid
  <2>5. /\ b \in CtpMessage /\ b.kind = "rtnOrder" /\ b.about = k /\ CtpSaid[b] = Nothing
    <3>1. PICK accepted \in CtpSubmits : accepted = "accepted"
      BY DEF CtpSubmits
    <3>2. PICK state \in CtpStates : state = "noTradeQueueing"
      BY DEF CtpStates
    <3>3. b = Ctp!RtnOrder(k, accepted, state, none)
      BY <1>11, <2>2, <3>1, <3>2
    <3>4. /\ b \in CtpMessage /\ b.kind = "rtnOrder" /\ b.about = k
          /\ b.submit = accepted /\ b.state = state /\ b.traded = none
      BY <1>3, <3>3, CtpRtnOrder
    <3> QED
      BY <3>1, <3>2, <3>4 DEF CtpSaid
  <2>6. wire' = IF Ctp!Online THEN wire \o <<a, b>> ELSE wire
    BY <1>5, <1>12, <2>1, <2>2 DEF Ctp!BrokerSays
  <2>7. PICK p : p = orders'
    OBVIOUS
  <2>8. e.traded >= orders[k].traded /\ e.state # "sent"
    BY <1>4, <1>6, <1>8, <1>12
  <2>9. /\ p \in Seq(BrokerOrder) /\ SameNames(orders, p) /\ Sound(told, Says(CtpSaid, wire), p)
    BY <1>4, <1>8, <1>9, <2>7, <2>8, CtpBookMoves
  <2>10. CASE ~ Ctp!Online
    BY <1>1, <1>2, <2>6, <2>7, <2>9, <2>10, CtpBrokerStep
  <2>11. CASE Ctp!Online
    <3>1. PICK q : q = Append(wire, a)
      OBVIOUS
    <3>2. session > 0
      BY <2>11, CtpOnline
    <3>3. /\ q \in Seq(CtpMessage) /\ WireOK(q, front, session, orders)
          /\ (NoToken(wire) => NoToken(q)) /\ Sound(told, Says(CtpSaid, q), p)
      BY <1>2, <2>4, <2>9, <3>1, <3>2, CtpMentions
    <3>4. wire' = Append(q, b)
      BY <1>2, <2>4, <2>5, <2>6, <2>11, <3>1, ConcatTwo
    <3>5. /\ wire' \in Seq(CtpMessage) /\ WireOK(wire', front, session, orders)
          /\ (NoToken(wire) => NoToken(wire')) /\ Sound(told, Says(CtpSaid, wire'), p)
      BY <2>5, <3>2, <3>3, <3>4, CtpMentions
    <3> QED
      BY <1>1, <2>7, <2>9, <3>5, CtpBrokerStep
  <2> QED
    BY <2>10, <2>11
<1>13. CASE submit = "insertRejected"
  <2>1. PICK m : m = Ctp!RtnOrder(k, "insertRejected", "canceled", 0)
    OBVIOUS
  <2>3. /\ m \in CtpMessage /\ m.kind = "rtnOrder" /\ m.about = k
        /\ CtpSaid[m] = [kind |-> "rejected", volume |-> 0, about |-> k]
    <3>1. PICK rejected \in CtpSubmits : rejected = "insertRejected"
      BY DEF CtpSubmits
    <3>2. PICK state \in CtpStates : state = "canceled"
      BY DEF CtpStates
    <3>3. m = Ctp!RtnOrder(k, rejected, state, none)
      BY <1>11, <2>1, <3>1, <3>2
    <3>4. /\ m \in CtpMessage /\ m.kind = "rtnOrder" /\ m.about = k
          /\ m.submit = rejected /\ m.state = state /\ m.traded = none
      BY <1>3, <3>3, CtpRtnOrder
    <3> QED
      BY <3>1, <3>4 DEF CtpSaid
  <2>4. Ctp!BrokerSays(<<m>>)
    BY <1>5, <1>13, <2>1
  <2> QED
    BY <1>6, <1>8, <1>10, <1>13, <2>3, <2>4
<1>14. CASE submit = "ioc"
  <2>1. PICK m : m = Ctp!RtnOrder(k, "insertSubmitted", "canceled", 0)
    OBVIOUS
  <2>3. /\ m \in CtpMessage /\ m.kind = "rtnOrder" /\ m.about = k
        /\ CtpSaid[m] = [kind |-> "canceled", volume |-> Volume - none, about |-> k]
    <3>1. PICK submitted \in CtpSubmits : submitted = "insertSubmitted"
      BY DEF CtpSubmits
    <3>2. PICK state \in CtpStates : state = "canceled"
      BY DEF CtpStates
    <3>3. m = Ctp!RtnOrder(k, submitted, state, none)
      BY <1>11, <2>1, <3>1, <3>2
    <3>4. /\ m \in CtpMessage /\ m.kind = "rtnOrder" /\ m.about = k
          /\ m.submit = submitted /\ m.state = state /\ m.traded = none
      BY <1>3, <3>3, CtpRtnOrder
    <3> QED
      BY <3>1, <3>2, <3>4 DEF CtpSaid
  <2>4. Ctp!BrokerSays(<<m>>)
    BY <1>5, <1>14, <2>1
  <2>5. e.traded = none /\ e.state = "canceled"
    BY <1>4, <1>6, <1>8, <1>14, <1>11
  <2> QED
    BY <1>10, <2>3, <2>4, <2>5
<1>15. CASE submit = "front"
  <2>1. PICK m : m = [kind |-> "rspOrderInsert", about |-> k]
    OBVIOUS
  <2>2. m \in CtpMessage /\ m.kind = "rspOrderInsert" /\ m.about = k
    BY <1>3, <2>1 DEF CtpMessage
  <2>3. CtpSaid[m] = [kind |-> "rejected", volume |-> 0, about |-> k]
    BY <2>2 DEF CtpSaid
  <2>4. Ctp!BrokerSays(<<m>>)
    BY <1>5, <1>15, <2>1
  <2> QED
    BY <1>6, <1>8, <1>10, <1>15, <2>2, <2>3, <2>4
<1> QED
  BY <1>12, <1>13, <1>14, <1>15

(* The broker trades some of an order.                                     *)
LEMMA CtpTrades ==
  ASSUME CtpInv, NEW k \in DOMAIN orders, NEW volume \in 1 .. Volume, Ctp!BrokerTrades(k, volume)
  PROVE  CtpInv'
<1>1. /\ UNCHANGED <<Ctp!client, front, asked>>
      /\ orders[k].state = "queueing" /\ volume <= Volume - orders[k].traded
  BY DEF Ctp!BrokerTrades
<1>2. /\ orders \in Seq(BrokerOrder) /\ wire \in Seq(CtpMessage) /\ told \in Seq(GatewayReport)
      /\ Volume \in Nat \ {0} /\ Volume \in Int
      /\ WireOK(wire, front, session, orders) /\ Sound(told, Says(CtpSaid, wire), orders)
  BY CtpTypesFacts DEF CtpInv
<1>3. orders[k] \in BrokerOrder /\ k \in Nat /\ Alive(orders[k])
  BY <1>1, <1>2, ElementOfSeq DEF Alive
<1>4. PICK e : e = BrokerFilled(orders[k], volume)
  OBVIOUS
<1>5. /\ e \in BrokerOrder /\ e.traded = orders[k].traded + volume /\ e.state # "sent"
      /\ e.session = orders[k].session /\ e.id = orders[k].id /\ e.tag = orders[k].tag
      /\ orders[k].traded \in Nat
  BY <1>1, <1>2, <1>3, <1>4, FilledOrder
<1>6. orders' = [orders EXCEPT ![k] = e]
  BY <1>4, CtpBroker DEF Ctp!BrokerTrades
<1>7. e.traded >= orders[k].traded /\ e.traded \in Int /\ volume \in Nat
  BY <1>2, <1>5
<1>8. PICK p : p = orders'
  OBVIOUS
<1>9. /\ p \in Seq(BrokerOrder) /\ p[k] = e /\ SameNames(orders, p)
      /\ OrdersSound(p) /\ OrdersMove(orders, p)
      /\ Sound(told, Says(CtpSaid, wire), p)
  BY <1>3, <1>5, <1>6, <1>7, <1>8, CtpBookMoves
<1>10. PICK s \in {"allTraded", "partTradedQueueing"} :
         s = IF e.state = "traded" THEN "allTraded" ELSE "partTradedQueueing"
  OBVIOUS
<1>11. PICK a : a = Ctp!RtnOrder(k, "accepted", s, e.traded)
  OBVIOUS
<1>12. PICK b : b = [kind |-> "rtnTrade", about |-> k, volume |-> volume]
  OBVIOUS
<1>13. s \in CtpStates
  BY <1>10 DEF CtpStates
<1>14. a \in CtpMessage /\ a.kind = "rtnOrder" /\ a.about = k /\ CtpSaid[a] = Nothing
  <2>1. PICK accepted \in CtpSubmits : accepted = "accepted"
    BY DEF CtpSubmits
  <2>2. PICK traded \in Int : traded = e.traded
    BY <1>7
  <2>3. a = Ctp!RtnOrder(k, accepted, s, traded)
    BY <1>11, <2>1, <2>2
  <2>4. /\ a \in CtpMessage /\ a.kind = "rtnOrder" /\ a.about = k
        /\ a.submit = accepted /\ a.state = s /\ a.traded = traded
    BY <1>3, <1>13, <2>3, CtpRtnOrder
  <2> QED
    BY <1>10, <2>1, <2>4 DEF CtpSaid
<1>15. b \in CtpMessage /\ b.kind = "rtnTrade" /\ b.about = k /\ b.volume = volume
  BY <1>3, <1>7, <1>12 DEF CtpMessage
<1>16. orders'[k] = e
  BY <1>8, <1>9
<1>17. wire' = IF Ctp!Online THEN wire \o <<a, b>> ELSE wire
  BY <1>10, <1>11, <1>12, <1>16 DEF Ctp!BrokerTrades, Ctp!BrokerSays
<1>18. CASE ~ Ctp!Online
  BY <1>1, <1>2, <1>8, <1>9, <1>17, <1>18, CtpBrokerStep
<1>19. CASE Ctp!Online
  <2>1. PICK q : q = Append(wire, a)
    OBVIOUS
  <2>2. session > 0
    BY <1>19, CtpOnline
  <2>3. /\ q \in Seq(CtpMessage) /\ WireOK(q, front, session, orders)
        /\ (NoToken(wire) => NoToken(q)) /\ Sound(told, Says(CtpSaid, q), orders)
    BY <1>2, <1>14, <2>1, <2>2, CtpMentions
  <2>4. wire' = Append(q, b)
    BY <1>2, <1>14, <1>15, <1>17, <1>19, <2>1, ConcatTwo
  <2>5. /\ wire' \in Seq(CtpMessage) /\ WireOK(wire', front, session, orders)
        /\ NoToken(wire) => NoToken(wire')
        /\ Says(CtpSaid, q) \in Seq(Saying) /\ CtpSaid[b] \in Saying
        /\ Says(CtpSaid, wire') = Append(Says(CtpSaid, q), CtpSaid[b])
    BY <1>15, <2>2, <2>3, <2>4, CtpSpeaks
  <2>6. CtpSaid[b].kind = "traded" /\ CtpSaid[b].volume = volume /\ CtpSaid[b].about = k
    BY <1>15 DEF CtpSaid
  <2>7. Sound(told, Append(Says(CtpSaid, q), CtpSaid[b]), p)
    BY <1>2, <1>5, <1>7, <1>9, <2>3, <2>5, <2>6, SayTrade
  <2> QED
    BY <1>1, <1>8, <1>9, <2>5, <2>7, CtpBrokerStep
<1> QED
  BY <1>18, <1>19

(* The broker refuses to cancel an order: its book keeps the order's life. *)
LEMMA CtpRefuses ==
  ASSUME CtpInv, UNCHANGED <<Ctp!client, front, asked>>, NEW k \in DOMAIN orders,
         orders' = [orders EXCEPT ![k].cancel = "answered"],
         NEW m \in CtpMessage, CtpSaid[m] = Nothing,
         \/ m.kind = "rtnOrder" /\ m.about \in DOMAIN orders
         \/ m.kind = "answer" /\ m.to = "orderAction",
         wire' = IF Ctp!Online THEN Append(wire, m) ELSE wire
  PROVE  CtpInv'
<1>1. /\ orders \in Seq(BrokerOrder) /\ wire \in Seq(CtpMessage) /\ told \in Seq(GatewayReport)
      /\ WireOK(wire, front, session, orders) /\ Sound(told, Says(CtpSaid, wire), orders)
      /\ OrdersSound(orders) /\ Volume \in Int
  BY CtpTypesFacts DEF CtpInv, Sound
<1>2. orders[k] \in BrokerOrder
  BY <1>1, ElementOfSeq
<1>3. PICK e : e = [orders[k] EXCEPT !.cancel = "answered"]
  OBVIOUS
<1>4. /\ e \in BrokerOrder /\ e.state = orders[k].state /\ e.traded = orders[k].traded
      /\ e.session = orders[k].session /\ e.id = orders[k].id /\ e.tag = orders[k].tag
  BY <1>2, <1>3 DEF BrokerOrder
<1>5. PICK p : p = orders'
  OBVIOUS
<1>6. p \in Seq(BrokerOrder) /\ SameLives(orders, p)
  BY <1>1, <1>3, <1>4, <1>5, OrderChanges DEF SameLives
<1>7. SameNames(orders, p)
  BY <1>6 DEF SameLives, SameNames
<1>8. Says(CtpSaid, wire) \in Seq(Saying)
  BY <1>1, CtpSaidType, SaysType
<1>9. Sound(told, Says(CtpSaid, wire), p)
  BY <1>1, <1>6, <1>8, AskedToCancel, SoundOrders
<1>10. CASE ~ Ctp!Online
  BY <1>1, <1>5, <1>6, <1>7, <1>9, <1>10, CtpBrokerStep
<1>11. CASE Ctp!Online
  <2>1. session > 0
    BY <1>11, CtpOnline
  <2>2. /\ wire' \in Seq(CtpMessage) /\ WireOK(wire', front, session, orders)
        /\ (NoToken(wire) => NoToken(wire')) /\ Sound(told, Says(CtpSaid, wire'), p)
    BY <1>1, <1>9, <1>11, <2>1, CtpMentions
  <2> QED
    BY <1>5, <1>6, <1>7, <2>2, CtpBrokerStep
<1> QED
  BY <1>10, <1>11

(* The broker cancels an order, or refuses to.                             *)
LEMMA CtpCancels ==
  ASSUME CtpInv, NEW k \in DOMAIN orders, Ctp!BrokerCancels(k)
  PROVE  CtpInv'
<1>1. UNCHANGED <<Ctp!client, front, asked>>
  BY DEF Ctp!BrokerCancels
<1>2. /\ orders \in Seq(BrokerOrder) /\ wire \in Seq(CtpMessage)
      /\ Volume \in Nat \ {0} /\ Volume \in Int
      /\ WireOK(wire, front, session, orders) /\ Sound(told, Says(CtpSaid, wire), orders)
  BY CtpTypesFacts DEF CtpInv
<1>3. orders[k] \in BrokerOrder /\ k \in Nat
  BY <1>2, ElementOfSeq
<1>4. PICK traded \in Int : traded = orders[k].traded
  BY <1>2, OrderFields
<1>5. PICK ok \in BOOLEAN :
        /\ ok => orders[k].state = "queueing"
        /\ orders' = [orders EXCEPT ![k].cancel = "answered",
                                    ![k].state = IF ok THEN "canceled" ELSE @]
        /\ Ctp!BrokerSays(
             IF ok THEN <<Ctp!RtnOrder(k, "cancelSubmitted", "noTradeQueueing", traded),
                          Ctp!RtnOrder(k, "accepted", "canceled", traded)>>
             ELSE IF orders[k].state = "queueing"
                  THEN <<Ctp!RtnOrder(k, "cancelRejected", "noTradeQueueing", traded)>>
                  ELSE <<[kind |-> "answer", to |-> "orderAction", ok |-> FALSE]>>)
  BY <1>4 DEF Ctp!BrokerCancels
<1>6. CASE ok
  <2>1. PICK e : e = [orders[k] EXCEPT !.cancel = "answered", !.state = "canceled"]
    OBVIOUS
  <2>2. /\ e.state = "canceled" /\ e.traded = orders[k].traded
        /\ e.session = orders[k].session /\ e.id = orders[k].id /\ e.tag = orders[k].tag
    BY <1>3, <2>1 DEF BrokerOrder
  <2>3. e \in BrokerOrder
    BY <1>3, <2>1 DEF BrokerOrder, OrderStates
  <2>4. orders' = [orders EXCEPT ![k] = e]
    BY <1>2, <1>5, <1>6, <2>1
  <2>5. Alive(orders[k])
    BY <1>5, <1>6 DEF Alive
  <2>6. PICK a : a = Ctp!RtnOrder(k, "cancelSubmitted", "noTradeQueueing", traded)
    OBVIOUS
  <2>7. PICK m : m = Ctp!RtnOrder(k, "accepted", "canceled", traded)
    OBVIOUS
  <2>8. a \in CtpMessage /\ a.kind = "rtnOrder" /\ a.about = k /\ CtpSaid[a] = Nothing
    <3>1. PICK submitted \in CtpSubmits : submitted = "cancelSubmitted"
      BY DEF CtpSubmits
    <3>2. PICK state \in CtpStates : state = "noTradeQueueing"
      BY DEF CtpStates
    <3>3. a = Ctp!RtnOrder(k, submitted, state, traded)
      BY <2>6, <3>1, <3>2
    <3>4. /\ a \in CtpMessage /\ a.kind = "rtnOrder" /\ a.about = k
          /\ a.submit = submitted /\ a.state = state /\ a.traded = traded
      BY <1>3, <3>3, CtpRtnOrder
    <3> QED
      BY <3>1, <3>2, <3>4 DEF CtpSaid
  <2>9. /\ m \in CtpMessage /\ m.kind = "rtnOrder" /\ m.about = k
        /\ CtpSaid[m] = [kind |-> "canceled", volume |-> Volume - traded, about |-> k]
    <3>1. PICK accepted \in CtpSubmits : accepted = "accepted"
      BY DEF CtpSubmits
    <3>2. PICK state \in CtpStates : state = "canceled"
      BY DEF CtpStates
    <3>3. m = Ctp!RtnOrder(k, accepted, state, traded)
      BY <2>7, <3>1, <3>2
    <3>4. /\ m \in CtpMessage /\ m.kind = "rtnOrder" /\ m.about = k
          /\ m.submit = accepted /\ m.state = state /\ m.traded = traded
      BY <1>3, <3>3, CtpRtnOrder
    <3> QED
      BY <3>1, <3>2, <3>4 DEF CtpSaid
  <2>10. wire' = IF Ctp!Online THEN wire \o <<a, m>> ELSE wire
    BY <1>5, <1>6, <2>6, <2>7 DEF Ctp!BrokerSays
  <2>11. CASE Ctp!Online
    <3>1. PICK q : q = Append(wire, a)
      OBVIOUS
    <3>2. session > 0
      BY <2>11, CtpOnline
    <3>3. /\ q \in Seq(CtpMessage) /\ WireOK(q, front, session, orders)
          /\ (NoToken(wire) => NoToken(q)) /\ Sound(told, Says(CtpSaid, q), orders)
      BY <1>2, <2>8, <3>1, <3>2, CtpMentions
    <3>4. wire' = IF Ctp!Online THEN Append(q, m) ELSE wire
      BY <1>2, <2>8, <2>9, <2>10, <2>11, <3>1, ConcatTwo
    <3>5. CtpSaid[m] = [kind |-> e.state,
                        volume |-> IF e.state = "canceled" THEN Volume - e.traded ELSE 0,
                        about |-> k]
      BY <1>4, <2>2, <2>9
    <3> QED
      BY <1>1, <2>2, <2>3, <2>4, <2>5, <2>9, <3>2, <3>3, <3>4, <3>5, CtpSaysEnd
  <2>12. CASE ~ Ctp!Online
    <3>1. wire' = IF Ctp!Online THEN Append(wire, m) ELSE wire
      BY <2>10, <2>12
    <3>2. CtpSaid[m] = [kind |-> e.state,
                        volume |-> IF e.state = "canceled" THEN Volume - e.traded ELSE 0,
                        about |-> k]
      BY <1>4, <2>2, <2>9
    <3> QED
      BY <1>1, <1>2, <2>2, <2>3, <2>4, <2>5, <2>9, <2>12, <3>1, <3>2, CtpSaysEnd
  <2> QED
    BY <2>11, <2>12
<1>7. CASE ~ ok
  <2>1. orders' = [orders EXCEPT ![k].cancel = "answered"]
    <3>1. orders' = [orders EXCEPT ![k] =
                       [orders[k] EXCEPT !.cancel = "answered", !.state = orders[k].state]]
      BY <1>5, <1>7
    <3>2. [orders[k] EXCEPT !.cancel = "answered", !.state = orders[k].state]
            = [orders[k] EXCEPT !.cancel = "answered"]
      BY <1>3 DEF BrokerOrder
    <3> QED
      BY <3>1, <3>2
  <2>2. ASSUME NEW m \in CtpMessage, CtpSaid[m] = Nothing, Ctp!BrokerSays(<<m>>),
               \/ m.kind = "rtnOrder" /\ m.about \in DOMAIN orders
               \/ m.kind = "answer" /\ m.to = "orderAction"
        PROVE  CtpInv'
    <3>1. wire' = IF Ctp!Online THEN Append(wire, m) ELSE wire
      BY <1>2, <2>2, ConcatOne DEF Ctp!BrokerSays
    <3> QED
      BY <1>1, <2>1, <2>2, <3>1, CtpRefuses
  <2>3. CASE orders[k].state = "queueing"
    <3>1. PICK rejected \in CtpSubmits : rejected = "cancelRejected"
      BY DEF CtpSubmits
    <3>2. PICK state \in CtpStates : state = "noTradeQueueing"
      BY DEF CtpStates
    <3>3. PICK m : m = Ctp!RtnOrder(k, rejected, state, traded)
      OBVIOUS
    <3>4. /\ m \in CtpMessage /\ m.kind = "rtnOrder" /\ m.about = k
          /\ m.submit = rejected /\ m.state = state /\ m.traded = traded
      BY <1>3, <3>3, CtpRtnOrder
    <3>5. CtpSaid[m] = Nothing
      BY <3>1, <3>2, <3>4 DEF CtpSaid
    <3>6. Ctp!BrokerSays(<<m>>)
      BY <1>5, <1>7, <2>3, <3>1, <3>2, <3>3
    <3> QED
      BY <2>2, <3>4, <3>5, <3>6
  <2>4. CASE orders[k].state # "queueing"
    <3>1. PICK m : m = [kind |-> "answer", to |-> "orderAction", ok |-> FALSE]
      OBVIOUS
    <3>2. m \in CtpMessage /\ m.kind = "answer" /\ m.to = "orderAction"
      BY <3>1 DEF CtpMessage
    <3>3. CtpSaid[m] = Nothing
      BY <3>2 DEF CtpSaid
    <3>4. Ctp!BrokerSays(<<m>>)
      BY <1>5, <1>7, <2>4, <3>1
    <3> QED
      BY <2>2, <3>2, <3>3, <3>4
  <2> QED
    BY <2>3, <2>4
<1> QED
  BY <1>6, <1>7

(* Every step keeps the invariant.                                         *)
LEMMA CtpSteps == CtpInv /\ [Ctp!Next]_(Ctp!vars) => CtpInv'
<1> SUFFICES ASSUME CtpInv, [Ctp!Next]_(Ctp!vars) PROVE CtpInv'
  OBVIOUS
<1>1. CASE UNCHANGED Ctp!vars
  BY <1>1 DEF CtpInv, CtpTypes, Ctp!TypeOK, Ctp!vars
<1>2. CASE Ctp!BrokerStep
  <2>1. PICK k \in DOMAIN orders :
          \/ Ctp!BrokerTakes(k) \/ Ctp!BrokerCancels(k)
          \/ \E v \in 1 .. Volume : Ctp!BrokerTrades(k, v)
    BY <1>2 DEF Ctp!BrokerStep
  <2> QED
    BY <2>1, CtpTakes, CtpCancels, CtpTrades
<1>3. CASE Ctp!Callback
  BY <1>3, CtpQuietEvents, CtpUserLogin, CtpQuery, CtpInsert, CtpOrder, CtpTrade
     DEF Ctp!Callback
<1>4. CASE Ctp!Login
  BY <1>4, CtpLogin
<1>5. CASE Ctp!SendOrder \/ \E id \in 1 .. MaxOrders : Ctp!CancelOrder(id)
  BY <1>5, CtpSend, CtpCancel
<1>6. CASE Ctp!FrontConnects \/ Ctp!FrontDrops \/ Ctp!FrontAnswers
  BY <1>6, CtpConnects, CtpDrops, CtpAnswers
<1> QED
  BY <1>1, <1>2, <1>3, <1>4, <1>5, <1>6 DEF Ctp!Next

LEMMA CtpAlways ==
  ASSUME BrokerAssumption, Ctp!CtpAssumption
  PROVE  Ctp!Spec => []CtpInv
<1>1. Ctp!Init => CtpInv
  BY CtpInitially
<1> QED
  BY <1>1, CtpSteps, PTL DEF Ctp!Spec

(* CtpTradeApi keeps to its types, however often the connection drops.     *)
THEOREM CtpTypeCorrect ==
  ASSUME BrokerAssumption, Ctp!CtpAssumption
  PROVE  Ctp!Spec => []Ctp!TypeOK
<1>1. CtpInv => Ctp!TypeOK
  BY DEF CtpInv, CtpTypes
<1> QED
  BY <1>1, CtpAlways, PTL

(* What CtpTradeApi tells the OMS about one order is sound, however often  *)
(* the connection drops and what is lost with it: one end at most, no more *)
(* trades than there were, and a cancelled volume that is what the trades  *)
(* left.                                                                   *)
THEOREM CtpReportsCorrect ==
  ASSUME BrokerAssumption, Ctp!CtpAssumption
  PROVE  Ctp!Spec => []Ctp!ReportsAreSound
<1>1. ASSUME NEW q, NEW k PROVE Ctp!VolumeOf(q, k) = VolumeOf(q, k)
  BY DEF Ctp!VolumeOf, VolumeOf, Ctp!TradeOf, TradeOf, Ctp!SumTo, SumTo
<1>2. Ctp!ReportsAreSound <=> LivesAreSound(told, orders)
  BY <1>1 DEF Ctp!LivesAreSound, LivesAreSound, Ctp!LifeOf, LifeOf, Ctp!Ends, Ends,
     Ctp!ReportsAreSound
<1>3. CtpInv => LivesAreSound(told, orders)
  <2>1. SUFFICES ASSUME CtpInv PROVE LivesAreSound(told, orders)
    OBVIOUS
  <2>2. /\ told \in Seq(GatewayReport) /\ wire \in Seq(CtpMessage) /\ Volume \in Int
        /\ Sound(told, Says(CtpSaid, wire), orders)
    BY <2>1, CtpTypesFacts DEF CtpInv
  <2>3. Says(CtpSaid, wire) \in Seq(Saying)
    BY <2>2, CtpSaidType, SaysType
  <2> QED
    BY <2>2, <2>3, SoundLives
<1>4. CtpInv => Ctp!ReportsAreSound
  BY <1>2, <1>3
<1> QED
  BY <1>4, CtpAlways, PTL

(* Reports about the orders of an earlier run never get the id of an order *)
(* of this one, however often a login moves the base of the refs: the base *)
(* stays above the refs of the earlier run, and get_order_id wraps below   *)
(* the base to ids that no order of this run has.                          *)
THEOREM CtpLeftoversCorrect ==
  ASSUME BrokerAssumption, Ctp!CtpAssumption
  PROVE  Ctp!Spec => []Ctp!LeftoversKeptOut
<1>1. CtpInv => Ctp!LeftoversKeptOut
  <2>1. SUFFICES ASSUME CtpInv, NEW i \in DOMAIN told, told[i].id \in 1 .. MaxOrders
                 PROVE  orders[told[i].about].id > 0
    BY DEF Ctp!LeftoversKeptOut
  <2>2. told[i].about \in DOMAIN orders /\ orders[told[i].about].id # 0
    BY <2>1 DEF CtpInv, ToldOK
  <2>3. orders[told[i].about].id \in 0 .. MaxOrders /\ MaxOrders \in Nat
    <3>1. orders \in Seq(BrokerOrder) /\ MaxOrders \in Nat
      BY <2>1, CtpTypesFacts DEF CtpInv
    <3> QED
      BY <2>2, <3>1, OrderFields
  <2> QED
    BY <2>2, <2>3
<1> QED
  BY <1>1, CtpAlways, PTL

(* As long as the connection lasts, a report of CtpTradeApi with the id of *)
(* an order of this run is about that order, and one about an order of     *)
(* this run has its id.  With a reconnection neither holds.                *)
THEOREM CtpOwnReportsCorrect ==
  ASSUME BrokerAssumption, Ctp!CtpAssumption, MaxDisconnects = 0
  PROVE  Ctp!Spec => [](Ctp!OnlyOwnReports /\ Ctp!RefGivesId)
<1>1. CtpInv => Ctp!OnlyOwnReports /\ Ctp!RefGivesId
  <2>1. SUFFICES ASSUME CtpInv, NEW i \in DOMAIN told
                 PROVE  /\ told[i].id \in 1 .. MaxOrders =>
                             orders[told[i].about].id = told[i].id
                        /\ orders[told[i].about].id \in {0, told[i].id}
    BY DEF Ctp!OnlyOwnReports, Ctp!NoForeignReports, Ctp!RefGivesId, Ctp!ReportsHaveIds
  <2>2. /\ told[i].about \in DOMAIN orders
        /\ orders[told[i].about].id = 0 => told[i].id \notin 1 .. MaxOrders
        /\ orders[told[i].about].id > 0 => told[i].id = orders[told[i].about].id
    BY <2>1 DEF CtpInv, ToldOK, OneSession
  <2>3. orders[told[i].about].id \in 0 .. MaxOrders /\ MaxOrders \in Nat
    <3>1. orders \in Seq(BrokerOrder) /\ MaxOrders \in Nat
      BY <2>1, CtpTypesFacts DEF CtpInv
    <3> QED
      BY <2>2, <3>1, OrderFields
  <2>4. orders[told[i].about].id = 0 \/ orders[told[i].about].id > 0
    BY <2>3
  <2> QED
    BY <2>2, <2>4
<1> QED
  BY <1>1, CtpAlways, PTL

(* As long as the connection lasts, CancelOrder with the id of an order    *)
(* names that order and no other.                                          *)
THEOREM CtpCancelFindsCorrect ==
  ASSUME BrokerAssumption, Ctp!CtpAssumption, MaxDisconnects = 0
  PROVE  Ctp!Spec => []Ctp!CancelFindsOrder
<1>1. CtpInv => Ctp!CancelFindsOrder
  <2>1. SUFFICES ASSUME CtpInv, NEW k \in DOMAIN orders, orders[k].id > 0, status = 1
                 PROVE  Ctp!CancelNames(orders[k].id) = {k}
    BY DEF Ctp!CancelFindsOrder
  <2>2. /\ OneSession(told, orders, base, session, nextId) /\ session > 0
        /\ base > Leftovers /\ BookOK(orders, session, front)
    BY <2>1 DEF CtpInv, LoginOK, BaseOK
  <2>3. /\ orders \in Seq(BrokerOrder) /\ MaxOrders \in Nat /\ Leftovers \in Nat
        /\ base \in Nat
    BY <2>1, CtpTypesFacts DEF CtpInv
  <2>4. PICK id \in 1 .. MaxOrders : id = orders[k].id
    BY <2>1, <2>3, OrderFields
  <2>5. Ctp!GetOrderRef(id) = id + base
    BY <2>1, RefIs
  <2>6. orders[k].tag = id + base /\ orders[k].session = session
    BY <2>1, <2>2, <2>4 DEF OneSession
  <2>7. ASSUME NEW j \in DOMAIN orders, orders[j].tag = id + base PROVE j = k
    <3>1. orders[j].id \in 0 .. MaxOrders /\ orders[j].tag \in Nat
      BY <2>3, OrderFields
    <3>2. orders[j].id # 0
      <4>1. orders[j].id = 0 => orders[j].tag <= Leftovers
        BY <2>2 DEF BookOK
      <4> QED
        BY <2>2, <2>3, <2>4, <2>7, <3>1, <4>1
    <3>3. orders[j].id > 0
      BY <3>1, <3>2
    <3>4. orders[j].tag = orders[j].id + base
      BY <2>2, <3>3 DEF OneSession
    <3>5. orders[j].id = id
      BY <2>3, <2>4, <2>7, <3>1, <3>4
    <3> QED
      BY <2>1, <2>2, <2>4, <3>5 DEF OneSession
  <2> QED
    BY <2>4, <2>5, <2>6, <2>7 DEF Ctp!CancelNames
<1> QED
  BY <1>1, CtpAlways, PTL

-----------------------------------------------------------------------------
(* StubGateway.  What is on the report ring about order o: the reports of  *)
(* its life that are still to come, and behind them cancel reports only.   *)

StubReport == [order : 1 .. MaxOrders, kind : {"accepted", "traded", "canceled"}]

OnlyCancels(q, o) == \A p \in DOMAIN q : q[p].order = o => q[p].kind = "canceled"

TradeDue(q, o) ==
  \E j \in DOMAIN q :
    /\ q[j].order = o /\ q[j].kind = "traded"
    /\ \A p \in DOMAIN q : q[p].order = o => p = j \/ (p > j /\ q[p].kind = "canceled")

BothDue(q, o) ==
  \E i, j \in DOMAIN q :
    /\ i < j /\ q[i].order = o /\ q[i].kind = "accepted" /\ q[j].order = o /\ q[j].kind = "traded"
    /\ \A p \in DOMAIN q :
         q[p].order = o => p = i \/ p = j \/ (p > j /\ q[p].kind = "canceled")

NoneAbout(q, o) == \A p \in DOMAIN q : q[p].order # o

(* The life of order o, with s orders sent, m the OMS's map and h what the *)
(* strategy heard of it.                                                   *)
StubLife(o, s, m, q, h) ==
  IF o > s THEN o \notin DOMAIN m /\ h = <<>> /\ NoneAbout(q, o)
  ELSE IF o \notin DOMAIN m THEN h = <<"accepted", "traded">> /\ OnlyCancels(q, o)
  ELSE IF m[o] THEN h = <<"accepted">> /\ TradeDue(q, o)
  ELSE h = <<>> /\ BothDue(q, o)

StubTypes ==
  /\ Stub!StubAssumption /\ Stub!TypeOK /\ running \in BOOLEAN
  /\ rsp_rb \in Seq(StubReport)
  /\ DOMAIN heard = 1 .. MaxOrders
  /\ \A o \in DOMAIN order_map : order_map[o] \in BOOLEAN

StubInv ==
  /\ StubTypes
  /\ \A o \in 1 .. MaxOrders : StubLife(o, sent, order_map, rsp_rb, heard[o])

(* A report about another order, or a cancel report, comes.                *)
LEMMA DueAppend ==
  ASSUME NEW q \in Seq(StubReport), NEW r \in StubReport, NEW o
  PROVE  /\ r.order # o /\ NoneAbout(q, o) => NoneAbout(Append(q, r), o)
         /\ r.order # o \/ r.kind = "canceled" =>
              /\ OnlyCancels(q, o) => OnlyCancels(Append(q, r), o)
              /\ TradeDue(q, o) => TradeDue(Append(q, r), o)
              /\ BothDue(q, o) => BothDue(Append(q, r), o)
<1>1. PICK u : u = Append(q, r)
  OBVIOUS
<1>2. PICK n \in Nat : n = Len(q)
  BY LenProperties
<1>3. /\ DOMAIN q = 1 .. n /\ DOMAIN u = 1 .. n + 1 /\ u[n + 1] = r
      /\ \A p \in 1 .. n : u[p] = q[p]
  BY <1>1, <1>2, AppendProperties
<1>4. \A p \in 1 .. n + 1 : p \in 1 .. n \/ (p = n + 1 /\ \A j \in 1 .. n : p > j)
  BY <1>2
<1>5. 1 .. n \subseteq 1 .. n + 1
  BY <1>2
<1>6. r.order # o /\ NoneAbout(q, o) => NoneAbout(u, o)
  BY <1>3, <1>4 DEF NoneAbout
<1>7. ASSUME r.order # o \/ r.kind = "canceled", OnlyCancels(q, o) PROVE OnlyCancels(u, o)
  BY <1>3, <1>4, <1>7 DEF OnlyCancels
<1>8. ASSUME r.order # o \/ r.kind = "canceled", TradeDue(q, o) PROVE TradeDue(u, o)
  <2>1. PICK j \in 1 .. n :
          /\ q[j].order = o /\ q[j].kind = "traded"
          /\ \A p \in 1 .. n : q[p].order = o => p = j \/ (p > j /\ q[p].kind = "canceled")
    BY <1>3, <1>8 DEF TradeDue
  <2>2. j \in DOMAIN u /\ u[j].order = o /\ u[j].kind = "traded"
    BY <1>3, <1>5, <2>1
  <2>3. ASSUME NEW p \in DOMAIN u, u[p].order = o PROVE p = j \/ (p > j /\ u[p].kind = "canceled")
    BY <1>3, <1>4, <1>8, <2>1, <2>3
  <2> QED
    BY <2>2, <2>3 DEF TradeDue
<1>9. ASSUME r.order # o \/ r.kind = "canceled", BothDue(q, o) PROVE BothDue(u, o)
  <2>1. PICK i \in 1 .. n, j \in 1 .. n :
          /\ i < j /\ q[i].order = o /\ q[i].kind = "accepted"
          /\ q[j].order = o /\ q[j].kind = "traded"
          /\ \A p \in 1 .. n :
               q[p].order = o => p = i \/ p = j \/ (p > j /\ q[p].kind = "canceled")
    BY <1>3, <1>9 DEF BothDue
  <2>2. /\ i \in DOMAIN u /\ u[i].order = o /\ u[i].kind = "accepted"
        /\ j \in DOMAIN u /\ u[j].order = o /\ u[j].kind = "traded"
    BY <1>3, <1>5, <2>1
  <2>3. ASSUME NEW p \in DOMAIN u, u[p].order = o
        PROVE  p = i \/ p = j \/ (p > j /\ u[p].kind = "canceled")
    BY <1>3, <1>4, <1>9, <2>1, <2>3
  <2> QED
    BY <2>1, <2>2, <2>3 DEF BothDue
<1> QED
  BY <1>1, <1>6, <1>7, <1>8, <1>9

(* The head of the ring is read: an order's reports are read in order.     *)
LEMMA DueTail ==
  ASSUME NEW q \in Seq(StubReport), q # <<>>, NEW o
  PROVE  /\ NoneAbout(q, o) => Head(q).order # o /\ NoneAbout(Tail(q), o)
         /\ OnlyCancels(q, o) => OnlyCancels(Tail(q), o)
         /\ TradeDue(q, o) => IF Head(q).order = o
                              THEN Head(q).kind = "traded" /\ OnlyCancels(Tail(q), o)
                              ELSE TradeDue(Tail(q), o)
         /\ BothDue(q, o) => IF Head(q).order = o
                             THEN Head(q).kind = "accepted" /\ TradeDue(Tail(q), o)
                             ELSE BothDue(Tail(q), o)
<1>1. PICK u : u = Tail(q)
  OBVIOUS
<1>2. PICK n \in Nat : n = Len(u)
  BY <1>1, HeadTailProperties, LenProperties
<1>3. /\ DOMAIN u = 1 .. n /\ DOMAIN q = 1 .. n + 1 /\ Head(q) = q[1]
      /\ \A p \in 1 .. n : u[p] = q[p + 1]
  <2>1. Len(q) = n + 1 /\ Len(q) \in Nat /\ u \in Seq(StubReport) /\ Head(q) = q[1]
    BY <1>1, <1>2, HeadTailProperties, LenProperties
  <2> QED
    BY <1>1, <1>2, <2>1, HeadTailProperties, LenProperties
<1>4. /\ \A p \in 1 .. n : p + 1 \in 1 .. n + 1 /\ p + 1 # 1
      /\ \A p \in 1 .. n + 1 : p = 1 \/ (p - 1 \in 1 .. n /\ p = (p - 1) + 1)
  BY <1>2
<1>5. NoneAbout(q, o) => Head(q).order # o /\ NoneAbout(u, o)
  <2>1. 1 \in 1 .. n + 1
    BY <1>2
  <2> QED
    BY <1>3, <1>4, <2>1 DEF NoneAbout
<1>6. OnlyCancels(q, o) => OnlyCancels(u, o)
  BY <1>3, <1>4 DEF OnlyCancels
<1>7. ASSUME TradeDue(q, o)
      PROVE  IF Head(q).order = o THEN Head(q).kind = "traded" /\ OnlyCancels(u, o)
             ELSE TradeDue(u, o)
  <2>1. PICK j \in 1 .. n + 1 :
          /\ q[j].order = o /\ q[j].kind = "traded"
          /\ \A p \in 1 .. n + 1 : q[p].order = o => p = j \/ (p > j /\ q[p].kind = "canceled")
    BY <1>3, <1>7 DEF TradeDue
  <2>2. CASE j = 1
    <3>1. \A p \in 1 .. n : u[p].order = o => u[p].kind = "canceled"
      BY <1>3, <1>4, <2>1, <2>2
    <3> QED
      BY <1>3, <2>1, <2>2, <3>1 DEF OnlyCancels
  <2>3. CASE j # 1
    <3>1. PICK k \in 1 .. n : j = k + 1
      BY <1>4, <2>3
    <3>2. Head(q).order # o
      <4>1. 1 \in 1 .. n + 1 /\ ~ (1 > j) /\ 1 # j
        BY <1>2, <2>3
      <4> QED
        BY <1>3, <2>1, <4>1
    <3>3. u[k].order = o /\ u[k].kind = "traded"
      BY <1>3, <2>1, <3>1
    <3>4. ASSUME NEW p \in 1 .. n, u[p].order = o PROVE p = k \/ (p > k /\ u[p].kind = "canceled")
      <4>1. p + 1 = j \/ (p + 1 > j /\ q[p + 1].kind = "canceled")
        BY <1>3, <1>4, <2>1, <3>4
      <4> QED
        BY <1>3, <3>1, <4>1
    <3> QED
      BY <1>3, <3>2, <3>3, <3>4 DEF TradeDue
  <2> QED
    BY <2>2, <2>3
<1>8. ASSUME BothDue(q, o)
      PROVE  IF Head(q).order = o THEN Head(q).kind = "accepted" /\ TradeDue(u, o)
             ELSE BothDue(u, o)
  <2> PICK i \in DOMAIN q, j \in DOMAIN q :
          /\ i < j /\ q[i].order = o /\ q[i].kind = "accepted"
          /\ q[j].order = o /\ q[j].kind = "traded"
          /\ \A p \in DOMAIN q :
               q[p].order = o => p = i \/ p = j \/ (p > j /\ q[p].kind = "canceled")
    BY <1>8 DEF BothDue
  <2>1. /\ i \in 1 .. n + 1 /\ j \in 1 .. n + 1
        /\ i < j /\ q[i].order = o /\ q[i].kind = "accepted"
        /\ q[j].order = o /\ q[j].kind = "traded"
        /\ \A p \in 1 .. n + 1 :
             q[p].order = o => p = i \/ p = j \/ (p > j /\ q[p].kind = "canceled")
    BY <1>3
  <2>2. PICK l \in 1 .. n : j = l + 1
    <3>1. j # 1
      BY <2>1
    <3> QED
      BY <1>4, <2>1, <3>1
  <2>3. u[l].order = o /\ u[l].kind = "traded"
    BY <1>3, <2>1, <2>2
  <2>4. ASSUME NEW p \in 1 .. n, u[p].order = o
        PROVE  p + 1 = i \/ p = l \/ (p > l /\ u[p].kind = "canceled")
    <3>1. p + 1 = i \/ p + 1 = j \/ (p + 1 > j /\ q[p + 1].kind = "canceled")
      BY <1>3, <1>4, <2>1, <2>4
    <3> QED
      BY <1>3, <2>2, <3>1
  <2>5. CASE i = 1
    <3>1. \A p \in 1 .. n : p + 1 # i
      BY <1>4, <2>5
    <3>2. TradeDue(u, o)
      <4>1. l \in DOMAIN u
        BY <1>3
      <4>2. \A p \in DOMAIN u : u[p].order = o => p = l \/ (p > l /\ u[p].kind = "canceled")
        BY <1>3, <2>4, <3>1
      <4> QED
        BY <2>3, <4>1, <4>2 DEF TradeDue
    <3> QED
      BY <1>3, <2>1, <2>5, <3>2
  <2>6. CASE i # 1
    <3>1. PICK k \in 1 .. n : i = k + 1
      BY <1>4, <2>1, <2>6
    <3>2. Head(q).order # o
      <4>1. 1 \in 1 .. n + 1 /\ ~ (1 > j) /\ 1 # j /\ 1 # i
        BY <1>2, <2>1, <2>6
      <4> QED
        BY <1>3, <2>1, <4>1
    <3>3. k < l /\ u[k].order = o /\ u[k].kind = "accepted"
      BY <1>3, <2>1, <2>2, <3>1
    <3>4. \A p \in 1 .. n : p + 1 = i => p = k
      BY <3>1
    <3>5. BothDue(u, o)
      <4>1. k \in DOMAIN u /\ l \in DOMAIN u
        BY <1>3
      <4>2. \A p \in DOMAIN u :
              u[p].order = o => p = k \/ p = l \/ (p > l /\ u[p].kind = "canceled")
        BY <1>3, <2>4, <3>4
      <4> QED
        BY <2>3, <3>3, <4>1, <4>2 DEF BothDue
    <3> QED
      BY <3>2, <3>5
  <2> QED
    BY <2>5, <2>6
<1> QED
  BY <1>1, <1>5, <1>6, <1>7, <1>8

(* An order's two reports come.                                            *)
LEMMA DueStarts ==
  ASSUME NEW q \in Seq(StubReport), NEW a \in StubReport, NEW b \in StubReport, NEW o,
         NoneAbout(q, o), a.order = o, a.kind = "accepted", b.order = o, b.kind = "traded"
  PROVE  BothDue(Append(Append(q, a), b), o)
<1>1. PICK v : v = Append(q, a)
  OBVIOUS
<1>2. PICK u : u = Append(v, b)
  OBVIOUS
<1>3. PICK n \in Nat : n = Len(q)
  BY LenProperties
<1>4. v \in Seq(StubReport) /\ Len(v) = n + 1 /\ v[n + 1] = a /\ \A p \in 1 .. n : v[p] = q[p]
  BY <1>1, <1>3, AppendProperties
<1>5. Len(u) = n + 2 /\ u[n + 2] = b /\ \A p \in 1 .. n + 1 : u[p] = v[p]
  <2>1. Len(u) = (n + 1) + 1 /\ u[(n + 1) + 1] = b /\ \A p \in 1 .. n + 1 : u[p] = v[p]
    BY <1>2, <1>4, AppendProperties
  <2>2. (n + 1) + 1 = n + 2
    OBVIOUS
  <2> QED
    BY <2>1, <2>2
<1>6. DOMAIN u = 1 .. n + 2 /\ DOMAIN q = 1 .. n
  <2>1. u \in Seq(StubReport)
    BY <1>2, <1>4, AppendProperties
  <2> QED
    BY <1>3, <1>5, <2>1, LenProperties
<1>7. /\ \A p \in 1 .. n + 2 : p \in 1 .. n \/ p = n + 1 \/ p = n + 2
      /\ 1 .. n \subseteq 1 .. n + 1 /\ n + 1 \in 1 .. n + 1
      /\ n + 1 \in 1 .. n + 2 /\ n + 2 \in 1 .. n + 2 /\ n + 1 < n + 2
  OBVIOUS
<1>8. u[n + 1] = a /\ \A p \in 1 .. n : u[p].order # o
  BY <1>4, <1>5, <1>6, <1>7 DEF NoneAbout
<1>9. \A p \in DOMAIN u : u[p].order = o => p = n + 1 \/ p = n + 2
  BY <1>6, <1>7, <1>8
<1> QED
  BY <1>1, <1>2, <1>5, <1>6, <1>7, <1>8, <1>9 DEF BothDue

(* The OMS reads a report: the next of an order's life, or a cancel report *)
(* that finds no order.                                                    *)
LEMMA StubReads ==
  ASSUME StubInv, Stub!ProcessRsp
  PROVE  StubInv'
<1>1. /\ rsp_rb \in Seq(StubReport) /\ rsp_rb # <<>> /\ rsp_rb' = Tail(rsp_rb)
      /\ DOMAIN heard = 1 .. MaxOrders /\ UNCHANGED <<sent, cancels, running, tick, logout>>
      /\ StubTypes /\ MaxOrders \in Nat /\ sent \in Nat /\ DOMAIN order_map \subseteq 1 .. sent
      /\ \A o \in DOMAIN order_map : order_map[o] \in BOOLEAN
  BY SMTT(30) DEF Stub!ProcessRsp, StubInv, StubTypes, Stub!tickVars, Stub!TypeOK, Stub!StubAssumption
<1>2. PICK r \in StubReport : r = Head(rsp_rb)
  BY <1>1, HeadTailProperties
<1>3. PICK k \in 1 .. MaxOrders : k = r.order
  BY DEF StubReport
<1>4. \/ k \notin DOMAIN order_map /\ UNCHANGED <<order_map, heard>>
      \/ /\ k \in DOMAIN order_map /\ order_map' = Stub!After(r)
         /\ heard' = [heard EXCEPT ![k] = heard[k] \o Stub!Told(r, order_map[k])]
  BY <1>2, <1>3 DEF Stub!ProcessRsp
<1>5. PICK q \in Seq(StubReport) : q = rsp_rb'
  BY <1>1, HeadTailProperties
<1>6. ASSUME NEW o \in 1 .. MaxOrders
      PROVE  /\ StubLife(o, sent, order_map, rsp_rb, heard[o])
             /\ NoneAbout(rsp_rb, o) => o # k /\ NoneAbout(q, o)
             /\ OnlyCancels(rsp_rb, o) => OnlyCancels(q, o)
             /\ TradeDue(rsp_rb, o) =>
                  IF o = k THEN r.kind = "traded" /\ OnlyCancels(q, o) ELSE TradeDue(q, o)
             /\ BothDue(rsp_rb, o) =>
                  IF o = k THEN r.kind = "accepted" /\ TradeDue(q, o) ELSE BothDue(q, o)
  BY <1>1, <1>2, <1>3, <1>5, DueTail DEF StubInv
<1>7. PICK a : a = <<"accepted">>
  OBVIOUS
<1>8. a \o <<"traded">> = <<"accepted", "traded">> /\ <<>> \o a = a
  <2> PICK kinds : kinds = {"accepted", "traded"}
    OBVIOUS
  <2>1. PICK x \in kinds : x = "accepted"
    OBVIOUS
  <2>2. PICK y \in kinds : y = "traded"
    OBVIOUS
  <2>3. <<>> \in Seq(kinds) /\ <<x, y>> \in Seq(kinds) /\ <<x>> \in Seq(kinds)
    OBVIOUS
  <2>4. <<>> \o <<x>> = Append(<<>>, x) /\ <<>> \o <<x>> = <<x>>
    BY <2>3, ConcatOne, ConcatEmptySeq
  <2>5. <<>> \o <<x, y>> = Append(Append(<<>>, x), y) /\ <<>> \o <<x, y>> = <<x, y>>
    BY <2>3, ConcatTwo, ConcatEmptySeq
  <2>6. <<x>> \o <<y>> = Append(<<x>>, y)
    BY <2>3, ConcatOne
  <2>7. <<x>> \o <<y>> = <<x, y>> /\ <<>> \o <<x>> = <<x>>
    BY <2>4, <2>5, <2>6
  <2> QED
    BY <1>7, <2>1, <2>2, <2>7
<1>9. CASE k \notin DOMAIN order_map
  <2>1. order_map' = order_map /\ heard' = heard
    BY <1>4, <1>9
  <2>2. \A o \in 1 .. MaxOrders : StubLife(o, sent, order_map, q, heard[o])
    BY <1>6, <1>9 DEF StubLife
  <2> QED
    BY <1>1, <1>5, <2>1, <2>2 DEF StubInv, StubTypes, Stub!TypeOK
<1>10. CASE k \in DOMAIN order_map
  <2>1. k <= sent /\ ~ (k > sent)
    BY <1>1, <1>10
  <2>2. order_map' = Stub!After(r)
        /\ heard' = [heard EXCEPT ![k] = heard[k] \o Stub!Told(r, order_map[k])]
    BY <1>4, <1>10
  <2>3. CASE order_map[k]
    <3>1. heard[k] = a /\ r.kind = "traded" /\ OnlyCancels(q, k)
      BY <1>6, <1>7, <1>10, <2>1, <2>3 DEF StubLife
    <3>2. order_map' = [o \in DOMAIN order_map \ {k} |-> order_map[o]]
      BY <1>3, <2>2, <3>1 DEF Stub!After
    <3>3. Stub!Told(r, order_map[k]) = <<"traded">>
      BY <2>3, <3>1 DEF Stub!Told
    <3>4. heard' = [heard EXCEPT ![k] = <<"accepted", "traded">>]
      BY <1>8, <2>2, <3>1, <3>3
    <3>5. ASSUME NEW o \in 1 .. MaxOrders PROVE StubLife(o, sent, order_map', q, heard'[o])
      <4>1. CASE o = k
        BY <1>1, <2>1, <3>1, <3>2, <3>4, <4>1 DEF StubLife
      <4>2. CASE o # k
        <5>1. /\ heard'[o] = heard[o] /\ (o \in DOMAIN order_map' <=> o \in DOMAIN order_map)
              /\ (o \in DOMAIN order_map => order_map'[o] = order_map[o])
          BY <1>1, <3>2, <3>4, <4>2
        <5> QED
          BY <1>6, <4>2, <5>1 DEF StubLife
      <4> QED
        BY <4>1, <4>2
    <3>6. /\ DOMAIN heard' = 1 .. MaxOrders /\ DOMAIN order_map' \subseteq 1 .. sent
          /\ \A o \in DOMAIN order_map' : order_map'[o] \in BOOLEAN
      BY <1>1, <3>2, <3>4
    <3> QED
      BY <1>1, <1>5, <3>5, <3>6 DEF StubInv, StubTypes, Stub!TypeOK
  <2>4. CASE ~ order_map[k]
    <3>1. heard[k] = <<>> /\ r.kind = "accepted" /\ TradeDue(q, k)
      BY <1>6, <1>10, <2>1, <2>4 DEF StubLife
    <3>2. order_map' = [order_map EXCEPT ![k] = TRUE]
      BY <1>3, <2>2, <3>1 DEF Stub!After
    <3>3. Stub!Told(r, order_map[k]) = a
      BY <1>7, <2>4, <3>1 DEF Stub!Told
    <3>4. heard' = [heard EXCEPT ![k] = a]
      BY <1>8, <2>2, <3>1, <3>3
    <3>5. ASSUME NEW o \in 1 .. MaxOrders PROVE StubLife(o, sent, order_map', q, heard'[o])
      <4>1. CASE o = k
        <5>1. heard'[o] = <<"accepted">> /\ o \in DOMAIN order_map' /\ order_map'[o] = TRUE
          BY <1>1, <1>7, <1>10, <3>2, <3>4, <4>1
        <5> QED
          BY <2>1, <3>1, <4>1, <5>1 DEF StubLife
      <4>2. CASE o # k
        <5>1. /\ heard'[o] = heard[o] /\ (o \in DOMAIN order_map' <=> o \in DOMAIN order_map)
              /\ (o \in DOMAIN order_map => order_map'[o] = order_map[o])
          BY <1>1, <3>2, <3>4, <4>2
        <5> QED
          BY <1>6, <4>2, <5>1 DEF StubLife
      <4> QED
        BY <4>1, <4>2
    <3>6. /\ DOMAIN heard' = 1 .. MaxOrders /\ DOMAIN order_map' \subseteq 1 .. sent
          /\ \A o \in DOMAIN order_map' : order_map'[o] \in BOOLEAN
      BY <1>1, <3>2, <3>4
    <3> QED
      BY <1>1, <1>5, <3>5, <3>6 DEF StubInv, StubTypes, Stub!TypeOK
  <2> QED
    BY <2>3, <2>4
<1> QED
  BY <1>9, <1>10

(* An order is sent and traded at once.                                    *)
LEMMA StubSends ==
  ASSUME StubInv, Stub!SendOrder
  PROVE  StubInv'
<1>1. /\ rsp_rb \in Seq(StubReport) /\ DOMAIN heard = 1 .. MaxOrders /\ StubTypes
      /\ MaxOrders \in Nat /\ sent \in 0 .. MaxOrders /\ DOMAIN order_map \subseteq 1 .. sent
      /\ \A o \in DOMAIN order_map : order_map[o] \in BOOLEAN
  BY DEF StubInv, StubTypes, Stub!TypeOK, Stub!StubAssumption
<1>2. PICK k \in 1 .. MaxOrders : k = sent + 1
  BY DEF Stub!SendOrder, Stub!Orders
<1>3. PICK a \in StubReport : a = [order |-> k, kind |-> "accepted"]
  BY DEF StubReport
<1>4. PICK b \in StubReport : b = [order |-> k, kind |-> "traded"]
  BY DEF StubReport
<1>5. PICK v \in Seq(StubReport) : v = Append(rsp_rb, a)
  BY <1>1, AppendProperties
<1>6. PICK q \in Seq(StubReport) : q = Append(v, b)
  BY AppendProperties
<1>7. rsp_rb' = q
  BY <1>1, <1>2, <1>3, <1>4, <1>5, <1>6, ConcatTwo
     DEF Stub!SendOrder, Stub!SendReports, Stub!Report
<1>8. PICK m : m = [o \in DOMAIN order_map \cup {k} |-> o # k /\ order_map[o]]
  OBVIOUS
<1>9. sent' = k /\ order_map' = m /\ UNCHANGED <<cancels, heard, running, tick, logout>>
  BY <1>2, <1>8 DEF Stub!SendOrder, Stub!tickVars
<1>10. /\ DOMAIN m = DOMAIN order_map \cup {k} /\ k \notin DOMAIN order_map /\ m[k] = FALSE
       /\ \A o \in DOMAIN order_map : m[o] = order_map[o]
  <2>1. k \notin 1 .. sent
    BY <1>1, <1>2
  <2>2. k \notin DOMAIN order_map
    BY <1>1, <2>1
  <2>3. DOMAIN m = DOMAIN order_map \cup {k}
    BY <1>8
  <2>4. m[k] = FALSE
    BY <1>8
  <2>5. ASSUME NEW o \in DOMAIN order_map PROVE m[o] = order_map[o]
    <3>1. m[o] = (o # k /\ order_map[o])
      BY <1>8
    <3>2. o # k /\ order_map[o] \in BOOLEAN
      BY <1>1, <2>2
    <3> QED
      BY <3>1, <3>2
  <2> QED
    BY <2>2, <2>3, <2>4, <2>5
<1>11. a.order = k /\ a.kind = "accepted" /\ b.order = k /\ b.kind = "traded"
  BY <1>3, <1>4
<1>12. ASSUME NEW o \in 1 .. MaxOrders PROVE StubLife(o, k, m, q, heard[o])
  <2>1. StubLife(o, sent, order_map, rsp_rb, heard[o])
    BY DEF StubInv
  <2>2. CASE o = k
    <3>1. o > sent /\ ~ (o > k)
      BY <1>1, <1>2, <2>2
    <3>2. heard[o] = <<>> /\ NoneAbout(rsp_rb, o)
      BY <2>1, <3>1 DEF StubLife
    <3>3. BothDue(q, o)
      BY <1>1, <1>5, <1>6, <1>11, <2>2, <3>2, DueStarts
    <3> QED
      BY <1>10, <2>2, <3>1, <3>2, <3>3 DEF StubLife
  <2>3. CASE o # k
    <3>1. o > k <=> o > sent
      BY <1>1, <1>2, <2>3
    <3>2. /\ NoneAbout(rsp_rb, o) => NoneAbout(v, o)
          /\ OnlyCancels(rsp_rb, o) => OnlyCancels(v, o)
          /\ TradeDue(rsp_rb, o) => TradeDue(v, o)
          /\ BothDue(rsp_rb, o) => BothDue(v, o)
      BY <1>1, <1>5, <1>11, <2>3, DueAppend
    <3>3. /\ NoneAbout(v, o) => NoneAbout(q, o)
          /\ OnlyCancels(v, o) => OnlyCancels(q, o)
          /\ TradeDue(v, o) => TradeDue(q, o)
          /\ BothDue(v, o) => BothDue(q, o)
      BY <1>6, <1>11, <2>3, DueAppend
    <3> QED
      BY <1>10, <2>1, <2>3, <3>1, <3>2, <3>3 DEF StubLife
  <2> QED
    BY <2>2, <2>3
<1>13. /\ DOMAIN m \subseteq 1 .. k /\ k \in 0 .. MaxOrders
       /\ \A o \in DOMAIN m : m[o] \in BOOLEAN
  <2>1. 1 .. sent \subseteq 1 .. k /\ k \in 1 .. k
    BY <1>1, <1>2
  <2>2. DOMAIN m \subseteq 1 .. k
    BY <1>1, <1>10, <2>1
  <2>3. ASSUME NEW o \in DOMAIN m PROVE m[o] \in BOOLEAN
    BY <1>1, <1>10, <2>3
  <2>4. k \in 0 .. MaxOrders
    BY <1>1
  <2> QED
    BY <2>2, <2>3, <2>4
<1> QED
  BY <1>1, <1>7, <1>9, <1>12, <1>13 DEF StubInv, StubTypes, Stub!TypeOK

(* A cancel report of an order that the OMS still has.                     *)
LEMMA StubCancels ==
  ASSUME StubInv, NEW k \in 1 .. MaxOrders, Stub!CancelOrder(k)
  PROVE  StubInv'
<1>1. rsp_rb \in Seq(StubReport) /\ StubTypes /\ DOMAIN order_map \subseteq 1 .. sent
      /\ sent \in Nat
  BY DEF StubInv, StubTypes, Stub!TypeOK
<1>2. PICK r \in StubReport : r = [order |-> k, kind |-> "canceled"]
  BY DEF StubReport
<1>3. /\ rsp_rb' = Append(rsp_rb, r) /\ k \in DOMAIN order_map
      /\ UNCHANGED <<sent, order_map, heard, running, tick, logout>>
  BY <1>2 DEF Stub!CancelOrder, Stub!CancelReport, Stub!Report, Stub!tickVars
<1>4. PICK q \in Seq(StubReport) : q = rsp_rb'
  BY <1>1, <1>3, AppendProperties
<1>5. r.order = k /\ r.kind = "canceled" /\ ~ (k > sent)
  BY <1>1, <1>2, <1>3
<1>6. ASSUME NEW o \in 1 .. MaxOrders PROVE StubLife(o, sent, order_map, q, heard[o])
  <2>1. StubLife(o, sent, order_map, rsp_rb, heard[o])
    BY DEF StubInv
  <2>2. /\ o # k /\ NoneAbout(rsp_rb, o) => NoneAbout(q, o)
        /\ OnlyCancels(rsp_rb, o) => OnlyCancels(q, o)
        /\ TradeDue(rsp_rb, o) => TradeDue(q, o)
        /\ BothDue(rsp_rb, o) => BothDue(q, o)
    BY <1>1, <1>3, <1>4, <1>5, DueAppend
  <2>3. o > sent => o # k
    BY <1>5
  <2> QED
    BY <2>1, <2>2, <2>3 DEF StubLife
<1> QED
  BY <1>1, <1>3, <1>4, <1>6 DEF StubInv, StubTypes, Stub!TypeOK

(* The tick thread does not touch the orders.                              *)
LEMMA StubTicks ==
  ASSUME StubInv, Stub!Subscribe \/ Stub!Logout \/ Stub!Join \/ Stub!GenerateTickData
  PROVE  StubInv'
<1>1. UNCHANGED <<sent, order_map, cancels, rsp_rb, heard>>
  BY DEF Stub!Subscribe, Stub!Logout, Stub!Join, Stub!GenerateTickData, Stub!StartRound,
     Stub!GenerateTick, Stub!omsVars
<1>2. /\ Tickers \in Nat /\ running \in BOOLEAN /\ tick \in -1 .. Tickers + 1
      /\ (running => tick \in 1 .. Tickers + 1) /\ StubTypes
  BY DEF StubInv, StubTypes, Stub!TypeOK, Stub!StubAssumption, Stub!Round
<1>3. /\ running' \in BOOLEAN /\ tick' \in -1 .. Tickers + 1
      /\ (running' => tick' \in 1 .. Tickers + 1)
  <2>1. CASE Stub!Subscribe
    <3>1. running' = TRUE /\ tick' = Tickers + 1
      BY <2>1 DEF Stub!Subscribe, Stub!Round
    <3> QED
      BY <1>2, <3>1
  <2>2. CASE Stub!Logout
    BY <1>2, <2>2 DEF Stub!Logout, Stub!omsVars
  <2>3. CASE Stub!Join
    <3>1. running' = running /\ tick' = 0 /\ tick \in {0, -1}
      BY <2>3 DEF Stub!Join, Stub!None, Stub!Ended
    <3> QED
      BY <1>2, <3>1
  <2>4. CASE Stub!StartRound
    <3>1. running' = running /\ tick' = IF running THEN 1 ELSE -1
      BY <2>4 DEF Stub!StartRound, Stub!NextRound, Stub!Ended
    <3> QED
      BY <1>2, <3>1
  <2>5. CASE Stub!GenerateTick
    <3>1. running' = running /\ tick' = tick + 1 /\ tick \in 1 .. Tickers
      BY <2>5 DEF Stub!GenerateTick
    <3> QED
      BY <1>2, <3>1
  <2> QED
    BY <2>1, <2>2, <2>3, <2>4, <2>5 DEF Stub!GenerateTickData
<1> QED
  BY <1>1, <1>2, <1>3 DEF StubInv, StubTypes, Stub!TypeOK, Stub!Round

LEMMA StubAlways ==
  ASSUME Stub!StubAssumption
  PROVE  Stub!Spec => []StubInv
<1>1. Stub!Init => StubInv
  <2>1. SUFFICES ASSUME Stub!Init PROVE StubInv
    OBVIOUS
  <2>2. /\ MaxOrders \in Nat /\ Tickers \in Nat /\ sent = 0 /\ order_map = <<>>
        /\ rsp_rb = <<>> /\ heard = [o \in 1 .. MaxOrders |-> <<>>]
        /\ running = FALSE /\ tick = 0
    BY <2>1 DEF Stub!StubAssumption, Stub!Init, Stub!Orders, Stub!None
  <2>3. DOMAIN order_map = {} /\ DOMAIN rsp_rb = {} /\ rsp_rb \in Seq(StubReport)
    BY <2>2
  <2>4. \A o \in 1 .. MaxOrders : StubLife(o, sent, order_map, rsp_rb, heard[o])
    BY <2>2, <2>3 DEF StubLife, NoneAbout
  <2>5. sent \in 0 .. MaxOrders /\ tick \in -1 .. Tickers + 1
    BY <2>2
  <2>6. DOMAIN heard = 1 .. MaxOrders
    BY <2>2
  <2>7. Stub!TypeOK
    BY <2>2, <2>3, <2>5 DEF Stub!TypeOK, Stub!Round
  <2> QED
    BY <2>2, <2>3, <2>4, <2>6, <2>7 DEF StubInv, StubTypes
<1>2. StubInv /\ [Stub!Next]_(Stub!vars) => StubInv'
  <2>1. SUFFICES ASSUME StubInv, [Stub!Next]_(Stub!vars) PROVE StubInv'
    OBVIOUS
  <2>2. CASE UNCHANGED Stub!vars
    BY <2>1, <2>2 DEF StubInv, StubTypes, Stub!TypeOK, Stub!vars, Stub!omsVars, Stub!tickVars
  <2>3. CASE Stub!Next
    BY <2>1, <2>3, StubReads, StubSends, StubCancels, StubTicks DEF Stub!Next, Stub!Orders
  <2> QED
    BY <2>1, <2>2, <2>3
<1> QED
  BY <1>1, <1>2, PTL DEF Stub!Spec

(* StubGateway keeps to its types, the tick thread's place in its round    *)
(* among them.                                                             *)
THEOREM StubTypeCorrect ==
  ASSUME Stub!StubAssumption
  PROVE  Stub!Spec => []Stub!TypeOK
<1>1. StubInv => Stub!TypeOK
  BY DEF StubInv, StubTypes
<1> QED
  BY <1>1, StubAlways, PTL

(* A strategy under StubGateway hears of an order's acceptance, then of    *)
(* its trade, and of nothing else: not of a cancel report, which           *)
(* CancelOrder sends whatever became of the order.                         *)
THEOREM StubHeardCorrect ==
  ASSUME Stub!StubAssumption
  PROVE  Stub!Spec => []Stub!HeardInOrder
<1>1. StubInv => Stub!HeardInOrder
  BY DEF StubInv, StubLife, Stub!HeardInOrder, Stub!Orders
<1> QED
  BY <1>1, StubAlways, PTL

(* The OMS has an order from SendOrder until its trade is told, although   *)
(* StubGateway puts both reports on the ring before the OMS has the order. *)
THEOREM StubKeptCorrect ==
  ASSUME Stub!StubAssumption
  PROVE  Stub!Spec => []Stub!KeptUntilTraded
<1>1. StubInv => Stub!KeptUntilTraded
  <2>1. SUFFICES ASSUME StubInv, NEW o \in 1 .. MaxOrders
                 PROVE  o \in DOMAIN order_map <=> sent >= o /\ Len(heard[o]) < 2
    BY DEF Stub!KeptUntilTraded, Stub!Orders
  <2>2. StubLife(o, sent, order_map, rsp_rb, heard[o]) /\ sent \in Nat
    BY <2>1 DEF StubInv, StubTypes, Stub!TypeOK
  <2>3. Len(<<"accepted", "traded">>) = 2 /\ Len(<<"accepted">>) = 1 /\ Len(<<>>) = 0
    OBVIOUS
  <2>4. o > sent <=> ~ (sent >= o)
    BY <2>2
  <2>5. CASE o > sent
    BY <2>2, <2>4, <2>5 DEF StubLife
  <2>6. CASE ~ (o > sent) /\ o \in DOMAIN order_map
    <3>1. heard[o] = <<>> \/ heard[o] = <<"accepted">>
      BY <2>2, <2>6 DEF StubLife
    <3>2. Len(heard[o]) < 2
      BY <2>3, <3>1
    <3> QED
      BY <2>4, <2>6, <3>2
  <2>7. CASE ~ (o > sent) /\ o \notin DOMAIN order_map
    <3>1. heard[o] = <<"accepted", "traded">>
      BY <2>2, <2>7 DEF StubLife
    <3>2. ~ (Len(heard[o]) < 2)
      BY <2>3, <3>1
    <3> QED
      BY <2>7, <3>2
  <2> QED
    BY <2>5, <2>6, <2>7
<1> QED
  BY <1>1, StubAlways, PTL

=============================================================================
