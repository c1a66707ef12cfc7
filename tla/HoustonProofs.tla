---------------------------- MODULE HoustonProofs ----------------------------
(***************************************************************************)
(* Proofs about Houston.tla, for every number of sessions, clicks, edits   *)
(* and losses and every set of variables, values and keys.                 *)
(*                                                                         *)
(* Two inductive invariants carry them.  OrderInv: the packets on their    *)
(* way are in the order of their clicks.  HoustonInv: what the queues, the *)
(* panels and the firmware hold, relative to the variables registered, the *)
(* open session and the oldest open request.  From them follow the         *)
(* invariants the runs check and that the host implements Receiver.tla.    *)
(***************************************************************************)
EXTENDS Houston, SequenceTheorems, WellFoundedInduction, TLAPS

-----------------------------------------------------------------------------
(* Sequences                                                               *)

LEMMA AtIn ==
  ASSUME NEW S, NEW s \in Seq(S)
  PROVE  /\ Len(s) \in Nat /\ DOMAIN s = 1..Len(s)
         /\ s = <<>> <=> Len(s) = 0
         /\ \A i \in 1..Len(s) : s[i] \in S
  OBVIOUS

LEMMA AppendIn ==
  ASSUME NEW S, NEW s \in Seq(S), NEW x \in S
  PROVE  /\ Append(s, x) \in Seq(S)
         /\ Len(s) \in Nat /\ Len(Append(s, x)) = Len(s) + 1
         /\ \A i \in 1..Len(s) : Append(s, x)[i] = s[i]
         /\ Append(s, x)[Len(s) + 1] = x
  OBVIOUS

LEMMA JoinIn ==
  ASSUME NEW S, NEW s \in Seq(S), NEW t \in Seq(S)
  PROVE  /\ s \o t \in Seq(S) /\ Len(s \o t) = Len(s) + Len(t)
         /\ Len(s) \in Nat /\ Len(t) \in Nat
         /\ \A i \in 1..Len(s) : (s \o t)[i] = s[i]
         /\ \A i \in 1..Len(t) : (s \o t)[Len(s) + i] = t[i]
<1>1. /\ s \o t \in Seq(S) /\ Len(s \o t) = Len(s) + Len(t)
      /\ \A i \in 1..Len(s) + Len(t) :
           (s \o t)[i] = IF i <= Len(s) THEN s[i] ELSE t[i - Len(s)]
  BY ConcatProperties
<1>2. Len(s) \in Nat /\ Len(t) \in Nat
  BY AtIn
<1>3. ASSUME NEW i \in 1..Len(s) PROVE (s \o t)[i] = s[i]
  BY <1>1, <1>2
<1>4. ASSUME NEW i \in 1..Len(t) PROVE (s \o t)[Len(s) + i] = t[i]
  <2> DEFINE n == Len(s)
             m == Len(t)
  <2>1. n + i \in 1..(n + m) /\ ~(n + i <= n) /\ (n + i) - n = i
    BY <1>2
  <2>2. (s \o t)[n + i] = IF n + i <= n THEN s[n + i] ELSE t[(n + i) - n]
    BY <1>1, <2>1
  <2>3. QED
    BY <2>1, <2>2
<1>5. QED
  BY <1>1, <1>2, <1>3, <1>4

LEMMA AppendJoined ==
  ASSUME NEW S, NEW s \in Seq(S), NEW t \in Seq(S), NEW x \in S
  PROVE  s \o Append(t, x) = Append(s \o t, x)
<1>1. <<x>> \in Seq(S) /\ s \o t \in Seq(S)
  BY ConcatProperties
<1>2. Append(t, x) = t \o <<x>> /\ Append(s \o t, x) = (s \o t) \o <<x>>
  BY <1>1, AppendIsConcat
<1>3. (s \o t) \o <<x>> = s \o (t \o <<x>>)
  BY <1>1, ConcatAssociative
<1>4. QED
  BY <1>2, <1>3

LEMMA FirstOf ==
  ASSUME NEW S, NEW s \in Seq(S), NEW n \in Nat, n <= Len(s)
  PROVE  /\ SubSeq(s, 1, n) \in Seq(S) /\ Len(SubSeq(s, 1, n)) = n
         /\ \A i \in 1..n : SubSeq(s, 1, n)[i] = s[i]
<1>1. Len(s) \in Nat /\ \A i \in 1..n : s[i] \in S
  BY AtIn
<1>2. /\ SubSeq(s, 1, n) \in Seq(S)
      /\ Len(SubSeq(s, 1, n)) = IF 1 <= n THEN n - 1 + 1 ELSE 0
      /\ \A i \in 1..n - 1 + 1 : SubSeq(s, 1, n)[i] = s[1 + i - 1]
  BY <1>1, SubSeqProperties
<1>3. QED
  BY <1>2

LEMMA TailOf ==
  ASSUME NEW S, NEW s \in Seq(S), s # <<>>
  PROVE  /\ Tail(s) \in Seq(S) /\ Len(s) \in Nat \ {0}
         /\ Len(Tail(s)) = Len(s) - 1 /\ Head(s) = s[1]
         /\ \A i \in 1..Len(Tail(s)) : Tail(s)[i] = s[i + 1]
  BY HeadTailProperties

-----------------------------------------------------------------------------
(* The packets on their way, Packets, are in the order of their numbers.   *)
Sequences == \E S : toDevice \in Seq(S) /\ txData \in Seq(S)

Counted ==
  /\ number \in Nat /\ taken \in Nat /\ taken <= number
  /\ \A k \in 1..Len(Packets) :
       /\ Packets[k].number \in Nat
       /\ taken < Packets[k].number /\ Packets[k].number <= number

Sorted ==
  \A j, k \in 1..Len(Packets) : j < k => Packets[j].number < Packets[k].number

OrderInv == Sequences /\ Counted /\ Sorted

(* What a step does to them.                                               *)
Kept == UNCHANGED <<toDevice, txData, taken, number>>

HandedOver ==
  toDevice' = toDevice \o txData /\ txData' = <<>> /\ UNCHANGED <<taken, number>>

Queued ==
  \E e :
    /\ e.number = number + 1 /\ number' = number + 1 /\ taken' = taken
    /\ txData' = Append(txData, e) /\ toDevice' = toDevice

CutOff ==
  \E n \in 0..Len(toDevice) :
    toDevice' = SubSeq(toDevice, 1, n) /\ UNCHANGED <<txData, taken, number>>

FirstGone ==
  /\ toDevice # <<>> /\ toDevice' = Tail(toDevice)
  /\ taken' \in {taken, Head(toDevice).number}
  /\ UNCHANGED <<txData, number>>

LEMMA ControlSteps == ControlRender => Kept \/ HandedOver \/ Queued \/ CutOff
<1>1. Idle \/ Swap \/ Dispatch \/ AttachFails => Kept
  BY Zenon DEF Idle, Swap, Dispatch, AttachFails, device, counts, Kept
<1>2. Attach => Queued
  <2> SUFFICES ASSUME Attach PROVE Queued
    OBVIOUS
  <2> DEFINE e == Request(number + 1)
  <2>1. /\ txData' = Append(txData, e) /\ toDevice' = toDevice
        /\ number' = number + 1 /\ taken' = taken
    BY DEF Attach, Refresh, device
  <2>2. e.number = number + 1
    BY DEF Request
  <2>3. QED
    BY <2>1, <2>2 DEF Queued
<1>3. SendData => HandedOver
  BY DEF SendData, HandOver, TxAfterSend, device, counts, HandedOver
<1>4. Detach => CutOff
  BY DEF Detach, device, counts, CutOff
<1>5. QED
  BY <1>1, <1>2, <1>3, <1>4 DEF ControlRender

LEMMA LiveSteps == LiveRender => Kept \/ Queued
<1>a. LiveFrame => toDevice' = toDevice /\ taken' = taken
  BY DEF LiveFrame, device
<1>1. NoClick => Kept
  BY <1>a DEF NoClick, counts, Kept
<1>2. RefreshClick => Queued
  <2> SUFFICES ASSUME RefreshClick PROVE Queued
    OBVIOUS
  <2> DEFINE e == Request(number + 1)
  <2>1. /\ txData' = Append(txData, e) /\ toDevice' = toDevice
        /\ number' = number + 1 /\ taken' = taken
    BY <1>a DEF RefreshClick, Refresh
  <2>2. e.number = number + 1
    BY DEF Request
  <2>3. QED
    BY <2>1, <2>2 DEF Queued
<1>3. ASSUME NEW id, NEW v, Edit(id, v) PROVE Kept
  BY <1>a, <1>3 DEF Edit, Kept
<1>4. ASSUME NEW id, NEW ints, NEW floats, LiveFrame, SendModify(id, ints, floats)
      PROVE  Kept \/ Queued
  <2>1. CASE UNCHANGED <<number, txData>>
    BY <1>a, <1>4, <2>1 DEF Kept
  <2>2. CASE ~UNCHANGED <<number, txData>>
    <3> DEFINE t == Shown[id].valueType
               map == IF t = "float" THEN floats ELSE ints
               e == [type |-> "modify", number |-> number + 1, clicked |-> id,
                     packetID |-> PacketID(id), valueType |-> t,
                     value |-> map[PacketID(id)]]
    <3>1. txData' = Append(txData, e) /\ number' = number + 1
      BY <1>4, <2>2, Zenon DEF SendModify
    <3>2. e.number = number + 1
      BY Zenon
    <3> HIDE DEF e
    <3>3. QED
      BY <1>a, <1>4, <3>1, <3>2 DEF Queued
  <2>3. QED
    BY <2>1, <2>2
<1>5. ASSUME NEW id, Apply(id) \/ Toggle(id) PROVE Kept \/ Queued
  BY <1>4, <1>5, Zenon DEF Apply, Toggle
<1>6. QED
  BY <1>1, <1>2, <1>3, <1>5 DEF LiveRender

LEMMA DeviceSteps ==
  ASSUME Take \/ LosePacket \/ DeviceSends \/ \E r \in Registered : Register(r)
  PROVE  Kept \/ FirstGone
<1>1. TakeRequest => FirstGone
  BY Zenon DEF TakeRequest, Host, counts, FirstGone
<1>2. TakeModify => FirstGone
  BY Zenon DEF TakeModify, Host, counts, FirstGone
<1>3. LosePacket => FirstGone
  BY DEF LosePacket, Host, counts, FirstGone
<1>4. DeviceSends => Kept
  BY DEF DeviceSends, Host, counts, Kept
<1>5. ASSUME NEW r, Register(r) PROVE Kept
  BY <1>5, Zenon DEF Register, Host, counts, Kept
<1>6. QED
  BY <1>1, <1>2, <1>3, <1>4, <1>5 DEF Take

LEMMA OrderSteps ==
  ASSUME [Next]_vars
  PROVE  Kept \/ HandedOver \/ Queued \/ CutOff \/ FirstGone
<1>1. TelemetryRender => Kept
  BY Zenon DEF TelemetryRender, device, counts, Kept
<1>2. AlertRender => Kept
  BY Zenon DEF AlertRender, device, counts, Kept
<1>3. UNCHANGED vars => Kept
  BY DEF vars, device, counts, Kept
<1>4. QED
  BY <1>1, <1>2, <1>3, ControlSteps, LiveSteps, DeviceSteps DEF Next, Frame

-----------------------------------------------------------------------------
(* Packets that stay are in the order they were in.                        *)
LEMMA PacketsAt ==
  ASSUME NEW S, toDevice \in Seq(S), txData \in Seq(S)
  PROVE  /\ Packets \in Seq(S) /\ Len(Packets) = Len(toDevice) + Len(txData)
         /\ Len(toDevice) \in Nat /\ Len(txData) \in Nat /\ Len(Packets) \in Nat
         /\ \A i \in 1..Len(toDevice) : Packets[i] = toDevice[i]
         /\ \A i \in 1..Len(txData) : Packets[Len(toDevice) + i] = txData[i]
<1>1. QED
  BY JoinIn, AtIn DEF Packets

LEMMA SomeStay ==
  ASSUME OrderInv, Sequences', number' = number, Len(Packets') \in Nat,
         NEW skip \in Nat, NEW from \in Nat,
         \A k \in 1..Len(Packets') :
           LET o == IF k <= from THEN k ELSE k + skip
           IN o \in 1..Len(Packets) /\ Packets'[k] = Packets[o],
         \/ taken' = taken
         \/ from = 0 /\ skip > 0 /\ 1 \in 1..Len(Packets) /\ taken' = Packets[1].number
  PROVE  OrderInv'
<1> DEFINE o(k) == IF k <= from THEN k ELSE k + skip
<1>1. /\ number \in Nat /\ taken \in Nat /\ taken <= number
      /\ \A k \in 1..Len(Packets) :
            /\ Packets[k].number \in Nat
            /\ taken < Packets[k].number /\ Packets[k].number <= number
      /\ \A j, k \in 1..Len(Packets) : j < k => Packets[j].number < Packets[k].number
  BY DEF OrderInv, Counted, Sorted
<1>2. \A k \in 1..Len(Packets') : o(k) \in 1..Len(Packets) /\ Packets'[k] = Packets[o(k)]
  OBVIOUS
<1>3. Sorted'
  <2> SUFFICES ASSUME NEW j \in 1..Len(Packets'), NEW k \in 1..Len(Packets'), j < k
               PROVE  Packets'[j].number < Packets'[k].number
    BY DEF Sorted
  <2>1. o(j) < o(k)
    OBVIOUS
  <2>2. QED
    BY <1>1, <1>2, <2>1
<1>4. Counted'
  <2>1. taken' \in Nat /\ taken' <= number
    BY <1>1
  <2>2. ASSUME NEW k \in 1..Len(Packets')
        PROVE  /\ Packets'[k].number \in Nat
               /\ taken' < Packets'[k].number /\ Packets'[k].number <= number
    <3>1. CASE taken' = taken
      BY <1>1, <1>2, <3>1
    <3>2. CASE from = 0 /\ skip > 0 /\ 1 \in 1..Len(Packets) /\ taken' = Packets[1].number
      <4>1. 1 < o(k)
        BY <3>2
      <4>2. QED
        BY <1>1, <1>2, <3>2, <4>1
    <3>3. QED
      BY <3>1, <3>2
  <2>3. QED
    BY <1>1, <2>1, <2>2 DEF Counted
<1>5. QED
  BY <1>3, <1>4 DEF OrderInv

LEMMA OrderSame ==
  ASSUME OrderInv, Sequences', Packets' = Packets, UNCHANGED <<taken, number>>
  PROVE  OrderInv'
  BY DEF OrderInv, Counted, Sorted

LEMMA OrderQueued ==
  ASSUME OrderInv, Queued
  PROVE  OrderInv'
<1>1. PICK e : /\ e.number = number + 1 /\ number' = number + 1 /\ taken' = taken
               /\ txData' = Append(txData, e) /\ toDevice' = toDevice
  BY DEF Queued
<1>2. PICK R : toDevice \in Seq(R) /\ txData \in Seq(R)
  BY DEF OrderInv, Sequences
<1> DEFINE S == R \union {e}
<1>3. toDevice \in Seq(S) /\ txData \in Seq(S) /\ e \in S
  <2>1. Seq(R) \subseteq Seq(S)
    BY SeqMonotonic
  <2>2. QED
    BY <1>2, <2>1
<1> HIDE DEF S
<1>4. Packets \in Seq(S) /\ Append(txData, e) \in Seq(S)
  BY <1>3, PacketsAt, AppendIn
<1>5. Packets' = Append(Packets, e)
  <2>1. Packets' = toDevice \o Append(txData, e)
    BY <1>1 DEF Packets
  <2>2. QED
    BY <1>3, <2>1, AppendJoined DEF Packets
<1>6. Sequences'
  <2>1. toDevice' \in Seq(S) /\ txData' \in Seq(S)
    BY <1>1, <1>3, <1>4
  <2>2. QED
    BY <2>1 DEF Sequences
<1>7. /\ Len(Packets) \in Nat /\ Len(Packets') = Len(Packets) + 1
      /\ \A i \in 1..Len(Packets) : Packets'[i] = Packets[i]
      /\ Packets'[Len(Packets) + 1] = e
  BY <1>3, <1>4, <1>5, AppendIn
<1>8. /\ number \in Nat /\ taken \in Nat /\ taken <= number
      /\ \A k \in 1..Len(Packets) :
            /\ Packets[k].number \in Nat
            /\ taken < Packets[k].number /\ Packets[k].number <= number
  BY DEF OrderInv, Counted
<1>9. ASSUME NEW k \in 1..Len(Packets')
      PROVE  \/ k \in 1..Len(Packets) /\ Packets'[k] = Packets[k]
             \/ k = Len(Packets) + 1 /\ Packets'[k].number = number + 1
  BY <1>1, <1>7
<1>10. Counted'
  <2>1. ASSUME NEW k \in 1..Len(Packets')
        PROVE  /\ Packets'[k].number \in Nat
               /\ taken < Packets'[k].number /\ Packets'[k].number <= number + 1
    BY <1>8, <1>9
  <2>2. QED
    BY <1>1, <1>8, <2>1 DEF Counted
<1>11. Sorted'
  <2> SUFFICES ASSUME NEW j \in 1..Len(Packets'), NEW k \in 1..Len(Packets'), j < k
               PROVE  Packets'[j].number < Packets'[k].number
    BY DEF Sorted
  <2>1. j \in 1..Len(Packets) /\ Packets'[j] = Packets[j]
    BY <1>7
  <2>2. CASE k \in 1..Len(Packets) /\ Packets'[k] = Packets[k]
    BY <2>1, <2>2 DEF OrderInv, Sorted
  <2>3. CASE k = Len(Packets) + 1 /\ Packets'[k].number = number + 1
    BY <1>8, <2>1, <2>3
  <2>4. QED
    BY <1>9, <2>2, <2>3
<1>12. QED
  BY <1>6, <1>10, <1>11 DEF OrderInv

(* What Detach, and the loss or taking of a packet, leave.                 *)
LEMMA AfterCut ==
  ASSUME NEW S, toDevice \in Seq(S), txData \in Seq(S),
         NEW n \in 0..Len(toDevice), toDevice' = SubSeq(toDevice, 1, n), txData' = txData
  PROVE  /\ toDevice' \in Seq(S) /\ Len(Packets') = n + Len(txData)
         /\ \A k \in 1..Len(Packets') :
              LET o == IF k <= n THEN k ELSE k + (Len(toDevice) - n)
              IN o \in 1..Len(Packets) /\ Packets'[k] = Packets[o]
<1> DEFINE d == Len(toDevice)
           t == Len(txData)
<1>1. /\ Packets \in Seq(S) /\ Len(Packets) = d + t
      /\ d \in Nat /\ t \in Nat
      /\ \A i \in 1..d : Packets[i] = toDevice[i]
      /\ \A i \in 1..t : Packets[d + i] = txData[i]
  BY PacketsAt
<1>2. n \in Nat /\ n <= d
  BY <1>1
<1>3. /\ toDevice' \in Seq(S) /\ Len(toDevice') = n
      /\ \A i \in 1..n : toDevice'[i] = toDevice[i]
  BY <1>1, <1>2, FirstOf
<1>4. /\ Len(Packets') = n + t
      /\ \A i \in 1..n : Packets'[i] = toDevice[i]
      /\ \A i \in 1..t : Packets'[n + i] = txData[i]
  <2>1. txData' \in Seq(S)
    OBVIOUS
  <2>2. /\ Len(Packets') = Len(toDevice') + Len(txData')
        /\ \A i \in 1..Len(toDevice') : Packets'[i] = toDevice'[i]
        /\ \A i \in 1..Len(txData') : Packets'[Len(toDevice') + i] = txData'[i]
    BY <1>3, <2>1, JoinIn DEF Packets
  <2>3. QED
    BY <1>3, <2>2
<1>5. ASSUME NEW k \in 1..Len(Packets')
      PROVE  LET o == IF k <= n THEN k ELSE k + (d - n)
             IN o \in 1..Len(Packets) /\ Packets'[k] = Packets[o]
  <2>1. CASE k <= n
    <3>1. k \in 1..n /\ k \in 1..d /\ k \in 1..Len(Packets)
      BY <1>1, <1>2, <1>4, <2>1
    <3>2. QED
      BY <1>1, <1>4, <2>1, <3>1
  <2>2. CASE ~(k <= n)
    <3>1. /\ k - n \in 1..t /\ n + (k - n) = k
          /\ d + (k - n) = k + (d - n) /\ k + (d - n) \in 1..Len(Packets)
      BY <1>1, <1>2, <1>4, <2>2
    <3>2. Packets'[n + (k - n)] = txData[k - n]
          /\ Packets[d + (k - n)] = txData[k - n]
      BY <1>1, <1>4, <3>1
    <3>3. QED
      BY <2>2, <3>1, <3>2
  <2>3. QED
    BY <2>1, <2>2
<1>6. QED
  BY <1>3, <1>4, <1>5

LEMMA AfterFirst ==
  ASSUME NEW S, toDevice \in Seq(S), txData \in Seq(S), toDevice # <<>>,
         toDevice' = Tail(toDevice), txData' = txData
  PROVE  /\ toDevice' \in Seq(S) /\ Len(Packets') = Len(Packets) - 1
         /\ 1 \in 1..Len(Packets) /\ Packets[1] = Head(toDevice)
         /\ \A k \in 1..Len(Packets') :
              k + 1 \in 1..Len(Packets) /\ Packets'[k] = Packets[k + 1]
<1> DEFINE d == Len(toDevice)
           t == Len(txData)
<1>1. /\ Packets \in Seq(S) /\ Len(Packets) = d + t
      /\ d \in Nat /\ t \in Nat
      /\ \A i \in 1..d : Packets[i] = toDevice[i]
      /\ \A i \in 1..t : Packets[d + i] = txData[i]
  BY PacketsAt
<1>2. /\ toDevice' \in Seq(S) /\ Len(toDevice') = d - 1 /\ d > 0
      /\ Head(toDevice) = toDevice[1]
      /\ \A i \in 1..(d - 1) : toDevice'[i] = toDevice[i + 1]
  BY <1>1, TailOf
<1>3. /\ Len(Packets') = (d - 1) + t
      /\ \A i \in 1..(d - 1) : Packets'[i] = toDevice[i + 1]
      /\ \A i \in 1..t : Packets'[(d - 1) + i] = txData[i]
  <2>1. txData' \in Seq(S)
    OBVIOUS
  <2>2. /\ Len(Packets') = Len(toDevice') + Len(txData')
        /\ \A i \in 1..Len(toDevice') : Packets'[i] = toDevice'[i]
        /\ \A i \in 1..Len(txData') : Packets'[Len(toDevice') + i] = txData'[i]
    BY <1>2, <2>1, JoinIn DEF Packets
  <2>3. QED
    BY <1>1, <1>2, <2>2
<1>4. ASSUME NEW k \in 1..Len(Packets')
      PROVE  k + 1 \in 1..Len(Packets) /\ Packets'[k] = Packets[k + 1]
  <2>1. CASE k <= d - 1
    <3>1. k \in 1..(d - 1) /\ k + 1 \in 1..d /\ k + 1 \in 1..Len(Packets)
      BY <1>1, <1>2, <1>3, <2>1
    <3>2. QED
      BY <1>1, <1>3, <3>1
  <2>2. CASE ~(k <= d - 1)
    <3>1. /\ k - (d - 1) \in 1..t /\ (d - 1) + (k - (d - 1)) = k
          /\ d + (k - (d - 1)) = k + 1 /\ k + 1 \in 1..Len(Packets)
      BY <1>1, <1>2, <1>3, <2>2
    <3>2. Packets'[(d - 1) + (k - (d - 1))] = txData[k - (d - 1)]
          /\ Packets[d + (k - (d - 1))] = txData[k - (d - 1)]
      BY <1>1, <1>3, <3>1
    <3>3. QED
      BY <3>1, <3>2
  <2>3. QED
    BY <2>1, <2>2
<1>5. 1 \in 1..Len(Packets) /\ Packets[1] = Head(toDevice)
  BY <1>1, <1>2
<1>6. QED
  BY <1>1, <1>2, <1>3, <1>4, <1>5

LEMMA OrderNext == OrderInv /\ [Next]_vars => OrderInv'
<1> SUFFICES ASSUME OrderInv, [Next]_vars PROVE OrderInv'
  OBVIOUS
<1>1. PICK S : toDevice \in Seq(S) /\ txData \in Seq(S)
  BY DEF OrderInv, Sequences
<1>2. /\ Packets \in Seq(S) /\ Len(Packets) \in Nat
      /\ Len(toDevice) \in Nat /\ Len(txData) \in Nat
      /\ Len(Packets) = Len(toDevice) + Len(txData)
  BY <1>1, PacketsAt
<1>3. ASSUME toDevice' \in Seq(S), txData' \in Seq(S)
      PROVE  Sequences' /\ Len(Packets') \in Nat
  <2>1. Sequences'
    BY <1>3 DEF Sequences
  <2>2. Packets' \in Seq(S)
    BY <1>3, JoinIn DEF Packets
  <2>3. QED
    BY <2>1, <2>2, AtIn
<1>4. CASE Kept
  BY <1>4, OrderSame DEF Kept, Packets, OrderInv, Sequences
<1>5. CASE HandedOver
  <2>1. toDevice' = Packets /\ txData' = <<>> /\ UNCHANGED <<taken, number>>
    BY <1>5 DEF HandedOver, Packets
  <2>2. Packets' = Packets
    <3>1. Packets' = Packets \o <<>>
      BY <2>1 DEF Packets
    <3>2. QED
      BY <1>2, <3>1, ConcatEmptySeq
  <2>3. Sequences'
    BY <1>2, <1>3, <2>1, EmptySeq
  <2>4. QED
    BY <2>1, <2>2, <2>3, OrderSame
<1>6. CASE Queued
  BY <1>6, OrderQueued
<1>7. CASE CutOff
  <2>1. PICK n \in 0..Len(toDevice) : /\ toDevice' = SubSeq(toDevice, 1, n)
                                      /\ UNCHANGED <<txData, taken, number>>
    BY <1>7 DEF CutOff
  <2>2. /\ toDevice' \in Seq(S)
        /\ \A k \in 1..Len(Packets') :
             LET o == IF k <= n THEN k ELSE k + (Len(toDevice) - n)
             IN o \in 1..Len(Packets) /\ Packets'[k] = Packets[o]
    BY <1>1, <2>1, AfterCut
  <2>3. Sequences' /\ Len(Packets') \in Nat
    BY <1>1, <1>3, <2>1, <2>2
  <2>4. n \in Nat /\ Len(toDevice) - n \in Nat
    BY <1>2
  <2>5. PICK skip \in Nat : skip = Len(toDevice) - n
    BY <2>4
  <2>6. QED
    BY <2>1, <2>2, <2>3, <2>4, <2>5, SomeStay
<1>8. CASE FirstGone
  <2>1. /\ toDevice # <<>> /\ toDevice' = Tail(toDevice)
        /\ taken' \in {taken, Head(toDevice).number}
        /\ UNCHANGED <<txData, number>>
    BY <1>8 DEF FirstGone
  <2>2. /\ toDevice' \in Seq(S) /\ 1 \in 1..Len(Packets) /\ Packets[1] = Head(toDevice)
        /\ \A k \in 1..Len(Packets') :
             k + 1 \in 1..Len(Packets) /\ Packets'[k] = Packets[k + 1]
    BY <1>1, <2>1, AfterFirst
  <2>3. Sequences' /\ Len(Packets') \in Nat
    BY <1>1, <1>3, <2>1, <2>2
  <2>4. PICK skip \in Nat, from \in Nat : skip = 1 /\ from = 0
    OBVIOUS
  <2>5. ASSUME NEW k \in 1..Len(Packets')
        PROVE  LET o == IF k <= from THEN k ELSE k + skip
               IN o \in 1..Len(Packets) /\ Packets'[k] = Packets[o]
    BY <2>2, <2>3, <2>4
  <2>6. \/ taken' = taken
        \/ from = 0 /\ skip > 0 /\ 1 \in 1..Len(Packets) /\ taken' = Packets[1].number
    BY <2>1, <2>2, <2>4
  <2>7. number' = number
    BY <2>1
  <2>8. QED
    BY <2>3, <2>5, <2>6, <2>7, SomeStay
<1>9. QED
  BY <1>4, <1>5, <1>6, <1>7, <1>8, OrderSteps

LEMMA OrderInit == Init => OrderInv
<1> SUFFICES ASSUME Init PROVE OrderInv
  OBVIOUS
<1>1. toDevice = <<>> /\ txData = <<>> /\ number = 0 /\ taken = 0
  BY DEF Init
<1>2. <<>> \in Seq({}) /\ Len(<<>>) = 0
  BY EmptySeq
<1>3. Len(Packets) = 0 /\ Sequences
  <2>1. toDevice \in Seq({}) /\ txData \in Seq({})
    BY <1>1, <1>2
  <2>2. Len(Packets) = Len(toDevice) + Len(txData)
    BY <2>1, PacketsAt
  <2>3. QED
    BY <1>1, <1>2, <2>1, <2>2 DEF Sequences
<1>4. QED
  BY <1>1, <1>3 DEF OrderInv, Counted, Sorted

LEMMA OrderSeen == OrderInv => InOrderOnce
<1> SUFFICES ASSUME OrderInv PROVE InOrderOnce
  OBVIOUS
<1>1. PICK S : toDevice \in Seq(S) /\ txData \in Seq(S)
  BY DEF OrderInv, Sequences
<1> DEFINE d == Len(toDevice)
           t == Len(txData)
           a == [k \in DOMAIN toDevice |-> toDevice[k].number]
           b == [k \in DOMAIN txData |-> txData[k].number]
           s == <<taken>> \o a \o b
<1>2. /\ Len(Packets) = d + t /\ d \in Nat /\ t \in Nat
      /\ \A i \in 1..d : Packets[i] = toDevice[i]
      /\ \A i \in 1..t : Packets[d + i] = txData[i]
      /\ DOMAIN toDevice = 1..d /\ DOMAIN txData = 1..t
  BY <1>1, PacketsAt, AtIn
<1>3. /\ taken \in Nat
      /\ \A k \in 1..Len(Packets) :
           Packets[k].number \in Nat /\ taken < Packets[k].number
      /\ \A j, k \in 1..Len(Packets) : j < k => Packets[j].number < Packets[k].number
  BY DEF OrderInv, Counted, Sorted
<1>4. a \in Seq(Nat) /\ Len(a) = d /\ \A i \in 1..d : a[i] = Packets[i].number
  <2>1. \A i \in 1..d : i \in 1..Len(Packets)
    BY <1>2
  <2>2. \A i \in 1..d : a[i] = Packets[i].number /\ a[i] \in Nat
    BY <1>2, <1>3, <2>1
  <2>3. a \in [1..d -> Nat]
    BY <1>2, <2>2
  <2>4. QED
    BY <1>2, <2>2, <2>3
<1>5. b \in Seq(Nat) /\ Len(b) = t /\ \A i \in 1..t : b[i] = Packets[d + i].number
  <2>1. \A i \in 1..t : d + i \in 1..Len(Packets)
    BY <1>2
  <2>2. \A i \in 1..t : b[i] = Packets[d + i].number /\ b[i] \in Nat
    BY <1>2, <1>3, <2>1
  <2>3. b \in [1..t -> Nat]
    BY <1>2, <2>2
  <2>4. QED
    BY <1>2, <2>2, <2>3
<1> HIDE DEF a, b
<1>6. /\ <<taken>> \in Seq(Nat) /\ Len(<<taken>>) = 1 /\ <<taken>>[1] = taken
  BY <1>3
<1> DEFINE c == <<taken>> \o a
<1>7. /\ c \in Seq(Nat) /\ Len(c) = 1 + d /\ c[1] = taken
      /\ \A i \in 1..d : c[1 + i] = a[i]
  <2> DEFINE h == <<taken>>
  <2>1. h \in Seq(Nat) /\ Len(h) = 1 /\ h[1] = taken
    BY <1>6
  <2> HIDE DEF h
  <2>2. /\ h \o a \in Seq(Nat) /\ Len(h \o a) = Len(h) + Len(a)
        /\ \A i \in 1..Len(h) : (h \o a)[i] = h[i]
        /\ \A i \in 1..Len(a) : (h \o a)[Len(h) + i] = a[i]
    BY <1>4, <2>1, JoinIn
  <2>3. 1 \in 1..Len(h)
    BY <2>1
  <2>4. QED
    BY <1>4, <2>1, <2>2, <2>3 DEF h
<1> HIDE DEF c
<1>8. /\ c \o b \in Seq(Nat) /\ Len(c \o b) = 1 + d + t
      /\ \A i \in 1..(1 + d) : (c \o b)[i] = c[i]
      /\ \A i \in 1..t : (c \o b)[(1 + d) + i] = b[i]
  <2>1. /\ c \o b \in Seq(Nat) /\ Len(c \o b) = Len(c) + Len(b)
        /\ \A i \in 1..Len(c) : (c \o b)[i] = c[i]
        /\ \A i \in 1..Len(b) : (c \o b)[Len(c) + i] = b[i]
    <3>1. c \in Seq(Nat) /\ b \in Seq(Nat)
      BY <1>5, <1>7
    <3>2. QED
      BY <3>1, JoinIn
  <2>2. QED
    BY <1>5, <1>7, <2>1
<1>9. DOMAIN (c \o b) = 1..(1 + d + t)
  BY <1>8, AtIn
<1>10. (c \o b)[1] = taken
  BY <1>2, <1>7, <1>8
<1>11. ASSUME NEW i \in 2..(1 + d + t)
       PROVE  i - 1 \in 1..Len(Packets) /\ (c \o b)[i] = Packets[i - 1].number
  <2>1. CASE i <= 1 + d
    <3>1. i \in 1..(1 + d) /\ i - 1 \in 1..d /\ 1 + (i - 1) = i
      BY <1>2, <2>1
    <3>2. (c \o b)[i] = c[i] /\ c[1 + (i - 1)] = a[i - 1]
      BY <1>7, <1>8, <3>1
    <3>3. QED
      BY <1>2, <1>4, <3>1, <3>2
  <2>2. CASE ~(i <= 1 + d)
    <3>1. /\ i - 1 - d \in 1..t /\ (1 + d) + (i - 1 - d) = i
          /\ d + (i - 1 - d) = i - 1 /\ i - 1 \in 1..Len(Packets)
      BY <1>2, <2>2
    <3>2. (c \o b)[(1 + d) + (i - 1 - d)] = b[i - 1 - d]
      BY <1>8, <3>1
    <3>3. b[i - 1 - d] = Packets[d + (i - 1 - d)].number
      BY <1>5, <3>1
    <3>4. QED
      BY <3>1, <3>2, <3>3
  <2>3. QED
    BY <2>1, <2>2
<1>12. ASSUME NEW j \in DOMAIN (c \o b), NEW k \in DOMAIN (c \o b), j < k
       PROVE  (c \o b)[j] < (c \o b)[k]
  <2>1. k \in 2..(1 + d + t) /\ (j = 1 \/ j \in 2..(1 + d + t))
    BY <1>2, <1>9, <1>12
  <2>2. CASE j = 1
    BY <1>3, <1>10, <1>11, <2>1, <2>2
  <2>3. CASE j \in 2..(1 + d + t)
    <3>1. j - 1 < k - 1
      BY <1>2, <1>12, <2>1, <2>3
    <3>2. QED
      BY <1>3, <1>11, <2>1, <2>3, <3>1
  <2>4. QED
    BY <2>1, <2>2, <2>3
<1>13. s = c \o b
  BY DEF c
<1>14. QED
  BY <1>12, <1>13 DEF InOrderOnce, a, b

(* Packets reach the firmware in the order of the clicks, each at most     *)
(* once, over any number of sessions and losses.                           *)
THEOREM InOrderOnceAlways == Spec => []InOrderOnce
  BY OrderInit, OrderNext, OrderSeen, PTL DEF Spec

-----------------------------------------------------------------------------
(* What there is in the queues, on the panels and in the firmware, for the *)
(* variables m, the session s and the oldest open request o.               *)
VarIds == {r.packetID : r \in Registered}
Vals   == Values \union {0, 1}

MapsTo(D, R) == UNION {[E -> R] : E \in SUBSET D}

Variables == MapsTo(VarIds, [valueType : VarTypes, value : Vals])

(* contents the variables m had at some time: types never change, and a    *)
(* bool is 0 or 1                                                          *)
Snapshots(m) ==
  {x \in Variables :
     \A id \in DOMAIN x :
       /\ id \in DOMAIN m /\ x[id].valueType = m[id].valueType
       /\ x[id].valueType = "bool" => x[id].value \in {0, 1}}

Since(o) == {n \in Nat : n >= o}

Telemetries(s) == [type : {"telemetry"}, key : Keys, session : {s}]
Alerts(s)      == [type : {"alert"}, session : {s}]
Replies(m, s, o) ==
  [type : {"response"}, number : Since(o), session : {s}, live : Snapshots(m)]
Received(m, s, o) == Telemetries(s) \union Alerts(s) \union Replies(m, s, o)

Requests(o) == [type : {"request"}, number : Since(o)]
Modifies(m) ==
  {p \in [type : {"modify"}, number : Nat, clicked : VarIds, packetID : 0..(IdRange - 1),
          valueType : VarTypes, value : Vals] :
     /\ p.packetID \in DOMAIN m /\ p.packetID = PacketID(p.clicked)
     /\ p.valueType = "bool" /\ m[p.packetID].valueType = "bool" => p.value \in {0, 1}}
Sendable(m, o) == Requests(o) \union Modifies(m)

(* the fields agree with the panel and with the firmware's types           *)
FieldsFit(m, live, ints, floats) ==
  /\ ints \in MapsTo(VarIds, Vals) /\ floats \in MapsTo(VarIds, Vals)
  /\ DOMAIN live = DOMAIN ints \union DOMAIN floats
  /\ \A id \in DOMAIN live :
       /\ id \in DOMAIN m /\ live[id].valueType = m[id].valueType
       /\ id \in (IF live[id].valueType = "float" THEN DOMAIN floats ELSE DOMAIN ints)
  /\ \A id \in DOMAIN ints : m[id].valueType = "bool" => ints[id] \in {0, 1}

Entries(m, s, o)   == [valueType : VarTypes, from : Replies(m, s, o)]
LivePanel(m, s, o) == MapsTo(VarIds, Entries(m, s, o))

QueuesTyped(m, s, o, q) ==
  /\ DOMAIN q = Types
  /\ q["telemetry"] \in Seq(Telemetries(s))
  /\ q["alert"] \in Seq(Alerts(s))
  /\ q["response"] \in Seq(Replies(m, s, o))

Counters ==
  /\ pc \in {"control", "swap", "produce", "telemetry", "alerts", "live", "crashed"}
  /\ isEnable \in BOOLEAN /\ session \in 0..MaxSessions
  /\ number \in Nat /\ oldest \in 0..number

SentTyped ==
  /\ txData \in Seq(Sendable(memory, oldest))
  /\ toDevice \in Seq(Sendable(memory, oldest))

ReceivedTyped ==
  /\ rx \in Seq(Received(memory, session, oldest))
  /\ batch \in Seq(Received(memory, session, oldest))
  /\ QueuesTyped(memory, session, oldest, queue)

PanelsTyped ==
  /\ telemetryMap \in MapsTo(Keys, Telemetries(session))
  /\ alerts \in Seq(Alerts(session))

FieldsTyped ==
  /\ liveDataMap \in LivePanel(memory, session, oldest)
  /\ FieldsFit(memory, liveDataMap, intMap, floatMap)

(* before Attach and after Detach there is nothing                         *)
Closed ==
  ~isEnable => /\ pc \notin {"swap", "produce"} /\ rx = <<>> /\ queue = EmptyQ
               /\ DOMAIN telemetryMap = {} /\ alerts = <<>> /\ DOMAIN liveDataMap = {}

(* a panel's queue is empty from its render to the next produce            *)
Drained ==
  /\ pc # "produce" => batch = <<>>
  /\ pc \in {"control", "crashed"} => queue = EmptyQ
  /\ pc \in {"alerts", "live"} => queue["telemetry"] = <<>>
  /\ pc = "live" => queue["alert"] = <<>>

HoustonInv ==
  /\ Counters
  /\ memory \in Snapshots(memory) /\ SentTyped
  /\ ReceivedTyped /\ PanelsTyped /\ FieldsTyped
  /\ Closed /\ Drained

-----------------------------------------------------------------------------
LEMMA InMaps ==
  ASSUME NEW D, NEW R, NEW f
  PROVE  f \in MapsTo(D, R) <=> DOMAIN f \subseteq D /\ f \in [DOMAIN f -> R]
  BY DEF MapsTo

LEMMA EmptyMapIn ==
  ASSUME NEW D, NEW R
  PROVE  EmptyMap \in MapsTo(D, R) /\ DOMAIN EmptyMap = {}
<1>1. DOMAIN EmptyMap = {} /\ EmptyMap \in [{} -> R]
  BY DEF EmptyMap
<1>2. QED
  BY <1>1, InMaps

LEMMA OverIn ==
  ASSUME NEW D, NEW R, NEW f \in MapsTo(D, R), NEW g \in MapsTo(D, R)
  PROVE  /\ Over(f, g) \in MapsTo(D, R)
         /\ DOMAIN Over(f, g) = DOMAIN f \union DOMAIN g
<1>1. DOMAIN f \subseteq D /\ f \in [DOMAIN f -> R] /\ DOMAIN g \subseteq D /\ g \in [DOMAIN g -> R]
  BY InMaps
<1>2. Over(f, g) \in [DOMAIN f \union DOMAIN g -> R] /\ DOMAIN Over(f, g) = DOMAIN f \union DOMAIN g
  BY <1>1 DEF Over
<1>3. QED
  BY <1>1, <1>2, InMaps

LEMMA ChangedIn ==
  ASSUME NEW D, NEW R, NEW f \in MapsTo(D, R), NEW x, NEW v \in R
  PROVE  /\ [f EXCEPT ![x] = v] \in MapsTo(D, R)
         /\ DOMAIN [f EXCEPT ![x] = v] = DOMAIN f
         /\ \A y \in DOMAIN f : [f EXCEPT ![x] = v][y] = IF y = x THEN v ELSE f[y]
<1>1. DOMAIN f \subseteq D /\ f \in [DOMAIN f -> R]
  BY InMaps
<1>2. [f EXCEPT ![x] = v] \in [DOMAIN f -> R] /\ DOMAIN [f EXCEPT ![x] = v] = DOMAIN f
  BY <1>1
<1>3. QED
  BY <1>1, <1>2, InMaps

LEMMA SeqRetyped ==
  ASSUME NEW S, NEW T, NEW s \in Seq(S), \A i \in 1..Len(s) : s[i] \in T
  PROVE  s \in Seq(T)
  OBVIOUS

LEMMA RangeIn ==
  ASSUME NEW S, NEW s \in Seq(S)
  PROVE  /\ Range(s) \subseteq S
         /\ \A x : x \in Range(s) <=> \E i \in 1..Len(s) : x = s[i]
  BY AtIn DEF Range

(* Variables are added and their values change, their types never.         *)
Grows(m, n) ==
  \A id \in DOMAIN m : id \in DOMAIN n /\ n[id].valueType = m[id].valueType

LEMMA SetsGrow ==
  ASSUME NEW m, NEW n, NEW s, NEW o, Grows(m, n)
  PROVE  /\ Snapshots(m) \subseteq Snapshots(n)
         /\ Replies(m, s, o) \subseteq Replies(n, s, o)
         /\ Received(m, s, o) \subseteq Received(n, s, o)
         /\ Sendable(m, o) \subseteq Sendable(n, o)
<1>1. Snapshots(m) \subseteq Snapshots(n)
  BY DEF Snapshots, Grows
<1>2. Replies(m, s, o) \subseteq Replies(n, s, o)
  BY <1>1 DEF Replies
<1>3. Modifies(m) \subseteq Modifies(n)
  BY DEF Modifies, Grows
<1>4. QED
  BY <1>1, <1>2, <1>3 DEF Received, Sendable

LEMMA InvGrows ==
  ASSUME HoustonInv, memory' \in Snapshots(memory'), Grows(memory, memory'),
         UNCHANGED <<pc, sessions, txData, queue, panels, batch, number, oldest>>,
         rx' \in Seq(Received(memory, session, oldest)), ~isEnable => rx' = <<>>,
         toDevice' \in Seq(Sendable(memory, oldest))
  PROVE  HoustonInv'
<1>1. /\ Replies(memory, session, oldest) \subseteq Replies(memory', session, oldest)
      /\ Received(memory, session, oldest) \subseteq Received(memory', session, oldest)
      /\ Sendable(memory, oldest) \subseteq Sendable(memory', oldest)
  BY SetsGrow
<1>2. SentTyped'
  <2>1. txData' \in Seq(Sendable(memory, oldest)) /\ toDevice' \in Seq(Sendable(memory, oldest))
    BY DEF HoustonInv, SentTyped
  <2>2. Seq(Sendable(memory, oldest)) \subseteq Seq(Sendable(memory', oldest))
    BY <1>1, SeqMonotonic
  <2>3. QED
    BY <2>1, <2>2 DEF SentTyped
<1>3. ReceivedTyped'
  <2>1. /\ rx' \in Seq(Received(memory, session, oldest))
        /\ batch' \in Seq(Received(memory, session, oldest))
        /\ QueuesTyped(memory, session, oldest, queue)
    BY DEF HoustonInv, ReceivedTyped
  <2>2. Seq(Received(memory, session, oldest)) \subseteq Seq(Received(memory', session, oldest))
    BY <1>1, SeqMonotonic
  <2>3. Seq(Replies(memory, session, oldest)) \subseteq Seq(Replies(memory', session, oldest))
    BY <1>1, SeqMonotonic
  <2>4. QueuesTyped(memory', session, oldest, queue)
    BY <2>1, <2>3 DEF QueuesTyped
  <2>5. QED
    BY <2>1, <2>2, <2>4 DEF ReceivedTyped, sessions
<1>4. PanelsTyped'
  BY DEF HoustonInv, PanelsTyped, panels, sessions
<1>5. FieldsTyped'
  <2>1. liveDataMap \in LivePanel(memory, session, oldest) /\ FieldsFit(memory, liveDataMap, intMap, floatMap)
    BY DEF HoustonInv, FieldsTyped
  <2>2. liveDataMap \in LivePanel(memory', session, oldest)
    BY <1>1, <2>1 DEF LivePanel, MapsTo, Entries
  <2>3. FieldsFit(memory', liveDataMap, intMap, floatMap)
    BY <2>1 DEF FieldsFit, Grows
  <2>4. QED
    BY <2>2, <2>3 DEF FieldsTyped, panels, fields, sessions
<1>6. Closed' /\ Drained' /\ Counters'
  BY DEF HoustonInv, Closed, Drained, Counters, panels, fields, sessions
<1>7. QED
  BY <1>2, <1>3, <1>4, <1>5, <1>6 DEF HoustonInv

-----------------------------------------------------------------------------
(* Every nonempty set of numbers has a least one, and a greatest if it is  *)
(* bounded: what Min and Max are.                                          *)
Before == {ss \in Nat \X Nat : ss[1] < ss[2]}

LEMMA LeastOf ==
  ASSUME NEW T, T \subseteq Nat, T # {}
  PROVE  Min(T) \in T /\ \A y \in T : Min(T) <= y
<1>1. IsWellFoundedOn(Before, Nat)
  <2>1. OpToRel(<, Nat) = Before
    BY Zenon DEF OpToRel, Before
  <2>2. QED
    BY <2>1, NatLessThanWellFounded, Zenon
<1>2. PICK x \in T : \A y \in T : ~(<<y, x>> \in Before)
  BY <1>1, WFMin
<1>3. ASSUME NEW y \in T PROVE x <= y
  <2>1. x \in Nat /\ y \in Nat
    OBVIOUS
  <2>2. y < x => <<y, x>> \in Before
    BY <2>1 DEF Before
  <2>3. QED
    BY <1>2, <2>1, <2>2
<1>4. QED
  BY <1>3 DEF Min

LEMMA GreatestOf ==
  ASSUME NEW n \in Nat, NEW T, T \subseteq 0..n, T # {}
  PROVE  Max(T) \in T /\ \A y \in T : Max(T) >= y
<1> DEFINE U == {n - y : y \in T}
<1>1. U \subseteq Nat /\ U # {}
  <2>1. \A y \in T : y \in 0..n
    OBVIOUS
  <2>2. \A y \in T : n - y \in Nat
    BY <2>1
  <2>3. QED
    BY <2>2
<1>2. PICK u \in U : \A v \in U : u <= v
  <2>1. Min(U) \in U /\ \A y \in U : Min(U) <= y
    BY <1>1, LeastOf
  <2>2. QED
    BY <2>1
<1>3. PICK x \in T : u = n - x
  BY <1>2
<1>4. \A y \in T : x >= y
  <2>1. \A y \in T : n - y \in U /\ y \in 0..n
    OBVIOUS
  <2>2. QED
    BY <1>2, <1>3, <2>1
<1>5. QED
  BY <1>4 DEF Max

LEMMA LastWith ==
  ASSUME NEW S, NEW q \in Seq(S), NEW k, k \in {f.key : f \in Range(q)}
  PROVE  LastOf(q, k) \in 1..Len(q) /\ q[LastOf(q, k)].key = k
<1> DEFINE I == {i \in 1..Len(q) : q[i].key = k}
<1>1. I # {} /\ Len(q) \in Nat
  BY RangeIn, AtIn
<1>2. Max(I) \in I
  <2>1. I \subseteq 0..Len(q)
    BY <1>1
  <2>2. QED
    BY <1>1, <2>1, GreatestOf
<1>3. LastOf(q, k) = Max(I)
  BY <1>1 DEF LastOf, SelectLastInSeq
<1>4. QED
  BY <1>2, <1>3

LEMMA FirstReply ==
  ASSUME NEW R, queue["response"] \in Seq(R), NEW id \in Answered
  PROVE  FirstWith(id) \in R /\ id \in DOMAIN FirstWith(id).live
<1> DEFINE q == queue["response"]
           I == {i \in 1..Len(q) : id \in DOMAIN q[i].live}
<1>1. I # {}
  <2>1. PICK f \in Range(q) : id \in DOMAIN f.live
    BY DEF Answered, Responses
  <2>2. PICK i \in 1..Len(q) : f = q[i]
    BY <2>1, RangeIn
  <2>3. QED
    BY <2>1, <2>2
<1>2. Min(I) \in I
  <2>1. I \subseteq Nat
    OBVIOUS
  <2>2. QED
    BY <1>1, <2>1, LeastOf
<1>3. FirstWith(id) = q[Min(I)]
  BY <1>1 DEF FirstWith, Responses, SelectInSeq
<1>4. q[Min(I)] \in R
  BY <1>2, AtIn
<1>5. QED
  BY <1>2, <1>3, <1>4

-----------------------------------------------------------------------------
(* The fields                                                              *)
LEMMA FieldSet ==
  ASSUME NEW m, NEW live, NEW ints, NEW floats, FieldsFit(m, live, ints, floats),
         NEW id \in DOMAIN live, NEW v \in Vals
  PROVE  /\ (live[id].valueType = "bool" => v \in {0, 1})
              => FieldsFit(m, live, [ints EXCEPT ![id] = v], floats)
         /\ FieldsFit(m, live, ints, [floats EXCEPT ![id] = v])
<1>1. ints \in MapsTo(VarIds, Vals) /\ floats \in MapsTo(VarIds, Vals)
  BY DEF FieldsFit
<1> DEFINE i == [ints EXCEPT ![id] = v]
           f == [floats EXCEPT ![id] = v]
<1>2. /\ i \in MapsTo(VarIds, Vals) /\ DOMAIN i = DOMAIN ints
      /\ \A y \in DOMAIN ints : i[y] = IF y = id THEN v ELSE ints[y]
      /\ f \in MapsTo(VarIds, Vals) /\ DOMAIN f = DOMAIN floats
  BY <1>1, ChangedIn
<1> HIDE DEF i, f
<1>3. (live[id].valueType = "bool" => v \in {0, 1}) => FieldsFit(m, live, i, floats)
  BY <1>2 DEF FieldsFit
<1>4. FieldsFit(m, live, ints, f)
  BY <1>2 DEF FieldsFit
<1>5. QED
  BY <1>3, <1>4 DEF i, f

LEMMA ShownTyped ==
  ASSUME HoustonInv
  PROVE  /\ Shown \in LivePanel(memory, session, oldest)
         /\ FieldsFit(memory, Shown, IntFields, FloatFields)
         /\ ~isEnable => DOMAIN Shown = {}
<1> DEFINE R == Replies(memory, session, oldest)
           E == Entries(memory, session, oldest)
           new == [id \in New |-> [valueType |-> FirstWith(id).live[id].valueType,
                                   from |-> FirstWith(id)]]
           ints == FirstValues(New \ Floats)
           floats == FirstValues(Floats)
<1>1. /\ liveDataMap \in MapsTo(VarIds, E)
      /\ FieldsFit(memory, liveDataMap, intMap, floatMap)
      /\ intMap \in MapsTo(VarIds, Vals) /\ floatMap \in MapsTo(VarIds, Vals)
  BY DEF HoustonInv, FieldsTyped, LivePanel, FieldsFit
<1>2. queue["response"] \in Seq(R)
  BY DEF HoustonInv, ReceivedTyped, QueuesTyped
<1>3. ASSUME NEW id \in New
      PROVE  /\ id \in VarIds /\ id \in DOMAIN memory /\ id \notin DOMAIN liveDataMap
             /\ FirstWith(id) \in R
             /\ FirstWith(id).live[id].valueType \in VarTypes
             /\ FirstWith(id).live[id].valueType = memory[id].valueType
             /\ FirstWith(id).live[id].value \in Vals
             /\ memory[id].valueType = "bool" => FirstWith(id).live[id].value \in {0, 1}
  <2>1. FirstWith(id) \in R /\ id \in DOMAIN FirstWith(id).live /\ id \notin DOMAIN liveDataMap
    BY <1>2, FirstReply DEF New
  <2>2. FirstWith(id).live \in Snapshots(memory)
    BY <2>1 DEF Replies
  <2>3. PICK x : x = FirstWith(id).live
    OBVIOUS
  <2>4. /\ DOMAIN x \subseteq VarIds /\ x \in [DOMAIN x -> [valueType : VarTypes, value : Vals]]
        /\ id \in DOMAIN x /\ id \in DOMAIN memory /\ x[id].valueType = memory[id].valueType
        /\ x[id].valueType = "bool" => x[id].value \in {0, 1}
    <3>1. x \in Snapshots(memory) /\ id \in DOMAIN x
      BY <2>1, <2>2, <2>3
    <3>2. x \in Variables
      BY <3>1 DEF Snapshots
    <3>3. DOMAIN x \subseteq VarIds /\ x \in [DOMAIN x -> [valueType : VarTypes, value : Vals]]
      BY <3>2, InMaps DEF Variables
    <3>4. QED
      BY <3>1, <3>3 DEF Snapshots
  <2>5. x[id].valueType \in VarTypes /\ x[id].value \in Vals
    BY <2>4
  <2>6. QED
    BY <2>1, <2>3, <2>4, <2>5
<1>4. new \in MapsTo(VarIds, E) /\ DOMAIN new = New
  <2>1. new \in [New -> E] /\ New \subseteq VarIds
    BY <1>3 DEF Entries
  <2>2. QED
    BY <2>1, InMaps
<1>5. /\ ints \in MapsTo(VarIds, Vals) /\ DOMAIN ints = New \ Floats
      /\ floats \in MapsTo(VarIds, Vals) /\ DOMAIN floats = Floats /\ Floats \subseteq New
      /\ \A id \in New \ Floats : ints[id] = FirstWith(id).live[id].value
  <2>1. Floats \subseteq New
    BY DEF Floats
  <2>2. ints \in [New \ Floats -> Vals] /\ floats \in [Floats -> Vals] /\ New \subseteq VarIds
    BY <1>3, <2>1 DEF FirstValues
  <2>3. QED
    BY <2>1, <2>2, InMaps DEF FirstValues
<1>6. \A id \in New : new[id].valueType = memory[id].valueType /\ new[id].from = FirstWith(id)
  BY <1>3
<1>7. \A id \in New : id \in Floats <=> new[id].valueType = "float"
  BY <1>3 DEF Floats
<1>8. Shown = Over(liveDataMap, new) /\ IntFields = Over(intMap, ints)
      /\ FloatFields = Over(floatMap, floats)
  BY DEF Shown, IntFields, FloatFields
<1> HIDE DEF new, ints, floats, E, R
<1>9. /\ Shown \in MapsTo(VarIds, E) /\ DOMAIN Shown = DOMAIN liveDataMap \union New
      /\ \A id \in DOMAIN liveDataMap : Shown[id] = liveDataMap[id]
      /\ \A id \in New : Shown[id] = new[id]
  <2>1. Over(liveDataMap, new) \in MapsTo(VarIds, E)
    <3>1. liveDataMap \in MapsTo(VarIds, E) /\ new \in MapsTo(VarIds, E)
      BY <1>1, <1>4
    <3>2. QED
      BY <3>1, OverIn
  <2>2. QED
    BY <1>3, <1>4, <1>8, <2>1 DEF Over
<1>10. /\ IntFields \in MapsTo(VarIds, Vals)
       /\ DOMAIN IntFields = DOMAIN intMap \union (New \ Floats)
       /\ \A id \in DOMAIN intMap : IntFields[id] = intMap[id]
       /\ \A id \in New \ Floats : id \notin DOMAIN intMap => IntFields[id] = ints[id]
  <2>1. /\ Over(intMap, ints) \in MapsTo(VarIds, Vals)
        /\ DOMAIN Over(intMap, ints) = DOMAIN intMap \union DOMAIN ints
    <3>1. intMap \in MapsTo(VarIds, Vals) /\ ints \in MapsTo(VarIds, Vals)
      BY <1>1, <1>5
    <3>2. QED
      BY <3>1, OverIn
  <2>2. QED
    BY <1>5, <1>8, <2>1 DEF Over
<1>11. /\ FloatFields \in MapsTo(VarIds, Vals)
       /\ DOMAIN FloatFields = DOMAIN floatMap \union Floats
  <2>1. /\ Over(floatMap, floats) \in MapsTo(VarIds, Vals)
        /\ DOMAIN Over(floatMap, floats) = DOMAIN floatMap \union DOMAIN floats
    <3>1. floatMap \in MapsTo(VarIds, Vals) /\ floats \in MapsTo(VarIds, Vals)
      BY <1>1, <1>5
    <3>2. QED
      BY <3>1, OverIn
  <2>2. QED
    BY <1>5, <1>8, <2>1
<1>12. FieldsFit(memory, Shown, IntFields, FloatFields)
  <2>1. DOMAIN Shown = DOMAIN IntFields \union DOMAIN FloatFields
    BY <1>1, <1>5, <1>9, <1>10, <1>11 DEF FieldsFit
  <2>2. ASSUME NEW id \in DOMAIN Shown
        PROVE  /\ id \in DOMAIN memory /\ Shown[id].valueType = memory[id].valueType
               /\ id \in (IF Shown[id].valueType = "float" THEN DOMAIN FloatFields
                                                           ELSE DOMAIN IntFields)
    <3>1. CASE id \in DOMAIN liveDataMap
      BY <1>1, <1>9, <1>10, <1>11, <3>1 DEF FieldsFit
    <3>2. CASE id \in New
      BY <1>3, <1>6, <1>7, <1>9, <1>10, <1>11, <3>2
    <3>3. QED
      BY <1>9, <3>1, <3>2
  <2>3. ASSUME NEW id \in DOMAIN IntFields, memory[id].valueType = "bool"
        PROVE  IntFields[id] \in {0, 1}
    <3>1. CASE id \in DOMAIN intMap
      BY <1>1, <1>10, <2>3, <3>1 DEF FieldsFit
    <3>2. CASE id \in New \ Floats /\ id \notin DOMAIN intMap
      BY <1>3, <1>5, <1>10, <2>3, <3>2
    <3>3. QED
      BY <1>10, <3>1, <3>2
  <2>4. QED
    BY <1>10, <1>11, <2>1, <2>2, <2>3 DEF FieldsFit
<1>13. ~isEnable => DOMAIN Shown = {}
  <2>1. ASSUME ~isEnable PROVE DOMAIN liveDataMap = {} /\ New = {}
    <3>1. queue = EmptyQ /\ DOMAIN liveDataMap = {}
      BY <2>1 DEF HoustonInv, Closed
    <3>2. queue["response"] = <<>>
      BY <3>1 DEF EmptyQ, Types
    <3>3. Range(queue["response"]) = {}
      BY <3>2 DEF Range
    <3>4. QED
      BY <3>1, <3>3 DEF New, Answered, Responses
  <2>2. QED
    BY <1>9, <2>1
<1>14. QED
  BY <1>9, <1>12, <1>13 DEF LivePanel, E, R

-----------------------------------------------------------------------------
(* LiveDataPanel::render                                                   *)
LEMMA QueueDrained ==
  ASSUME HoustonInv, pc = "live"
  PROVE  [queue EXCEPT !["response"] = <<>>] = EmptyQ
<1>1. DOMAIN queue = Types /\ queue["telemetry"] = <<>> /\ queue["alert"] = <<>>
  BY DEF HoustonInv, ReceivedTyped, QueuesTyped, Drained
<1>2. QED
  BY <1>1 DEF EmptyQ, Types

LEMMA EmptyQTyped ==
  ASSUME NEW m, NEW s, NEW o
  PROVE  QueuesTyped(m, s, o, EmptyQ)
<1>1. /\ DOMAIN EmptyQ = Types /\ EmptyQ["telemetry"] = <<>>
      /\ EmptyQ["alert"] = <<>> /\ EmptyQ["response"] = <<>>
  BY DEF EmptyQ, Types
<1>2. QED
  BY <1>1, EmptySeq DEF QueuesTyped

LEMMA InvRendered ==
  ASSUME HoustonInv, LiveFrame, NEW ints, NEW floats, Rendered(ints, floats),
         FieldsFit(memory, Shown, ints, floats), pc' \in {"control", "crashed"},
         txData' \in Seq(Sendable(memory, oldest)),
         number' \in Nat, number' >= number, oldest' = oldest
  PROVE  HoustonInv'
<1>1. /\ pc = "live" /\ queue' = EmptyQ
      /\ UNCHANGED <<isEnable, session, telemetryMap, alerts, rx, batch, toDevice, memory>>
  BY QueueDrained DEF LiveFrame, sessions, incoming, device
<1>2. liveDataMap' = Shown /\ intMap' = ints /\ floatMap' = floats
  BY DEF Rendered
<1>3. FieldsTyped'
  BY <1>1, <1>2, ShownTyped DEF FieldsTyped
<1>4. SentTyped' /\ PanelsTyped' /\ memory' \in Snapshots(memory')
  BY <1>1 DEF HoustonInv, SentTyped, PanelsTyped
<1>5. ReceivedTyped'
  BY <1>1, EmptyQTyped DEF HoustonInv, ReceivedTyped
<1>6. Counters'
  BY <1>1 DEF HoustonInv, Counters
<1>7. Closed'
  BY <1>1, <1>2, ShownTyped DEF HoustonInv, Closed
<1>8. Drained'
  BY <1>1 DEF HoustonInv, Drained
<1>9. QED
  BY <1>3, <1>4, <1>5, <1>6, <1>7, <1>8 DEF HoustonInv

LEMMA InvSendModify ==
  ASSUME HoustonInv, NEW id \in DOMAIN Shown, NEW ints, NEW floats, LiveFrame,
         FieldsFit(memory, Shown, ints, floats), SendModify(id, ints, floats)
  PROVE  HoustonInv'
<1>1. Rendered(ints, floats) /\ oldest' = oldest /\ pc' \in {"control", "crashed"}
  BY DEF SendModify
<1>2. txData \in Seq(Sendable(memory, oldest)) /\ number \in Nat
  BY DEF HoustonInv, SentTyped, Counters
<1>3. CASE UNCHANGED <<number, txData>>
  BY <1>1, <1>2, <1>3, InvRendered
<1>4. CASE ~UNCHANGED <<number, txData>>
  <2> DEFINE t == Shown[id].valueType
             map == IF t = "float" THEN floats ELSE ints
             e == [type |-> "modify", number |-> number + 1, clicked |-> id,
                   packetID |-> PacketID(id), valueType |-> t, value |-> map[PacketID(id)]]
  <2>1. /\ txData' = Append(txData, e) /\ number' = number + 1
        /\ PacketID(id) \in DOMAIN map
    BY <1>4, Zenon DEF SendModify
  <2>2. id \in VarIds /\ id \in Nat /\ t \in VarTypes
    <3>1. Shown \in MapsTo(VarIds, Entries(memory, session, oldest))
      BY ShownTyped DEF LivePanel
    <3>2. DOMAIN Shown \subseteq VarIds /\ Shown[id] \in Entries(memory, session, oldest)
      BY <3>1, InMaps
    <3>3. VarIds \subseteq Nat
      BY HoustonAssumption DEF VarIds
    <3>4. QED
      BY <3>2, <3>3 DEF Entries
  <2>3. PacketID(id) \in 0..(IdRange - 1)
    BY <2>2, HoustonAssumption DEF PacketID
  <2>4. /\ map[PacketID(id)] \in Vals /\ PacketID(id) \in DOMAIN memory
        /\ t = "bool" /\ memory[PacketID(id)].valueType = "bool"
             => map[PacketID(id)] \in {0, 1}
    <3>1. ints \in [DOMAIN ints -> Vals] /\ floats \in [DOMAIN floats -> Vals]
      BY InMaps DEF FieldsFit
    <3>2. QED
      BY <2>1, <3>1 DEF FieldsFit
  <2>5. e \in Modifies(memory)
    BY <1>2, <2>2, <2>3, <2>4 DEF Modifies
  <2> HIDE DEF e
  <2>6. txData' \in Seq(Sendable(memory, oldest))
    BY <1>2, <2>1, <2>5, AppendIn DEF Sendable
  <2>7. QED
    BY <1>1, <1>2, <2>1, <2>6, InvRendered
<1>5. QED
  BY <1>3, <1>4

LEMMA InvNoRefresh ==
  ASSUME HoustonInv,
         NoClick \/ \E id \in DOMAIN Shown :
                      Apply(id) \/ Toggle(id) \/ \E v \in Values : Edit(id, v)
  PROVE  HoustonInv'
<1>1. FieldsFit(memory, Shown, IntFields, FloatFields)
  BY ShownTyped
<1>2. txData \in Seq(Sendable(memory, oldest)) /\ number \in Nat
  BY DEF HoustonInv, SentTyped, Counters
<1>3. CASE NoClick
  <2>1. /\ LiveFrame /\ Rendered(IntFields, FloatFields) /\ pc' = "control"
        /\ UNCHANGED <<txData, number, oldest>>
    BY <1>3 DEF NoClick, counts
  <2>2. QED
    BY <1>1, <1>2, <2>1, InvRendered
<1>4. ASSUME NEW id \in DOMAIN Shown, Apply(id) PROVE HoustonInv'
  BY <1>1, <1>4, InvSendModify DEF Apply
<1>5. ASSUME NEW id \in DOMAIN Shown, Toggle(id) PROVE HoustonInv'
  <2> DEFINE ints == [IntFields EXCEPT ![id] = 1 - @]
  <2>1. LiveFrame /\ SendModify(id, ints, FloatFields) /\ Shown[id].valueType = "bool"
    BY <1>5 DEF Toggle
  <2>2. FieldsFit(memory, Shown, ints, FloatFields)
    <3>1. IntFields[id] \in {0, 1}
      BY <1>1, <2>1 DEF FieldsFit
    <3>2. 1 - IntFields[id] \in {0, 1} /\ 1 - IntFields[id] \in Vals
      BY <3>1 DEF Vals
    <3>3. FieldsFit(memory, Shown, [IntFields EXCEPT ![id] = 1 - IntFields[id]], FloatFields)
      BY <1>1, <3>2, FieldSet
    <3>4. QED
      BY <3>3
  <2>3. QED
    BY <2>1, <2>2, InvSendModify
<1>6. ASSUME NEW id \in DOMAIN Shown, NEW v \in Values, Edit(id, v) PROVE HoustonInv'
  <2> DEFINE ints == [IntFields EXCEPT ![id] = v]
             floats == [FloatFields EXCEPT ![id] = v]
  <2>1. /\ LiveFrame /\ pc' = "control" /\ UNCHANGED <<txData, number, oldest>>
        /\ Shown[id].valueType # "bool"
        /\ Rendered(IntFields, floats) \/ Rendered(ints, FloatFields)
    BY <1>6, Zenon DEF Edit
  <2>2. FieldsFit(memory, Shown, ints, FloatFields) /\ FieldsFit(memory, Shown, IntFields, floats)
    <3>1. v \in Vals
      BY DEF Vals
    <3>2. QED
      BY <1>1, <2>1, <3>1, FieldSet
  <2> HIDE DEF ints, floats
  <2>3. QED
    BY <1>1, <1>2, <2>1, <2>2, InvRendered
<1>7. QED
  BY <1>3, <1>4, <1>5, <1>6

-----------------------------------------------------------------------------
(* The oldest open request                                                 *)
LEMMA OpenKnown ==
  ASSUME HoustonInv
  PROVE  /\ InQueues(txData, "request") \subseteq Nat /\ InQueues(toDevice, "request") \subseteq Nat
         /\ InQueues(rx, "response") \subseteq Nat /\ InQueues(batch, "response") \subseteq Nat
         /\ InQueues(queue["response"], "response") \subseteq Nat
<1>1. ASSUME NEW s \in Seq(Sendable(memory, oldest)) PROVE InQueues(s, "request") \subseteq Nat
  <2>1. \A k \in DOMAIN s : s[k] \in Sendable(memory, oldest)
    BY AtIn
  <2>2. \A p \in Sendable(memory, oldest) : p.number \in Nat
    BY DEF Sendable, Requests, Modifies, Since
  <2>3. QED
    BY <2>1, <2>2 DEF InQueues
<1>2. ASSUME NEW s \in Seq(Received(memory, session, oldest))
      PROVE  InQueues(s, "response") \subseteq Nat
  <2>1. \A k \in DOMAIN s : s[k] \in Received(memory, session, oldest)
    BY AtIn
  <2>2. \A f \in Received(memory, session, oldest) : f.type = "response" => f.number \in Nat
    BY DEF Received, Telemetries, Alerts, Replies, Since
  <2>3. QED
    BY <2>1, <2>2 DEF InQueues
<1>3. queue["response"] \in Seq(Received(memory, session, oldest))
  <2>1. Seq(Replies(memory, session, oldest)) \subseteq Seq(Received(memory, session, oldest))
    BY SeqMonotonic DEF Received
  <2>2. QED
    BY <2>1 DEF HoustonInv, ReceivedTyped, QueuesTyped
<1>4. QED
  BY <1>1, <1>2, <1>3 DEF HoustonInv, SentTyped, ReceivedTyped

LEMMA OldestOf ==
  ASSUME NEW T, T \subseteq Nat, number \in Nat, oldest' = Min(T \union {number + 1})
  PROVE  oldest' \in 0..(number + 1) /\ \A n \in T : oldest' <= n
<1>1. T \union {number + 1} \subseteq Nat
  OBVIOUS
<1>2. /\ oldest' \in T \union {number + 1}
      /\ \A n \in T \union {number + 1} : oldest' <= n
  BY <1>1, LeastOf
<1>3. QED
  BY <1>1, <1>2

(* What waits is not older than a lower bound of the open requests.        *)
LEMMA SentSince ==
  ASSUME NEW m, NEW o, NEW p \in Nat, NEW s \in Seq(Sendable(m, o)),
         \A n \in InQueues(s, "request") : p <= n
  PROVE  s \in Seq(Sendable(m, p))
<1>1. ASSUME NEW i \in 1..Len(s) PROVE s[i] \in Sendable(m, p)
  <2>1. s[i] \in Sendable(m, o) /\ i \in DOMAIN s
    BY AtIn
  <2>2. s[i].type = "request" => p <= s[i].number
    BY <2>1 DEF InQueues
  <2>3. QED
    BY <2>1, <2>2 DEF Sendable, Requests, Modifies, Since
<1>2. QED
  BY <1>1, SeqRetyped

LEMMA ReceivedSince ==
  ASSUME NEW m, NEW e, NEW o, NEW p \in Nat, NEW s \in Seq(Received(m, e, o)),
         \A n \in InQueues(s, "response") : p <= n
  PROVE  s \in Seq(Received(m, e, p))
<1>1. ASSUME NEW i \in 1..Len(s) PROVE s[i] \in Received(m, e, p)
  <2>1. s[i] \in Received(m, e, o) /\ i \in DOMAIN s
    BY AtIn
  <2>2. s[i].type = "response" => p <= s[i].number
    BY <2>1 DEF InQueues
  <2>3. QED
    BY <2>1, <2>2 DEF Received, Telemetries, Alerts, Replies, Since
<1>2. QED
  BY <1>1, SeqRetyped

LEMMA EmptyFields ==
  ASSUME NEW m, NEW s, NEW o
  PROVE  /\ EmptyMap \in LivePanel(m, s, o) /\ DOMAIN EmptyMap = {}
         /\ FieldsFit(m, EmptyMap, EmptyMap, EmptyMap)
  BY EmptyMapIn DEF LivePanel, FieldsFit

(* Refresh, of the panel or of Attach: the request and what waits.         *)
LEMMA RefreshTyped ==
  ASSUME HoustonInv, Refresh, txData' = Append(txData, Request(number + 1)),
         toDevice' = toDevice, memory' = memory, oldest' \in 0..number',
         \A n \in InQueues(txData, "request") \union InQueues(toDevice, "request") : oldest' <= n
  PROVE  number' \in Nat /\ SentTyped' /\ FieldsTyped'
<1>1. number' = number + 1 /\ number \in Nat /\ number' \in Nat /\ oldest' \in Nat
  BY DEF Refresh, HoustonInv, Counters
<1>2. liveDataMap' = EmptyMap /\ intMap' = EmptyMap /\ floatMap' = EmptyMap
  BY DEF Refresh, ClearedMap
<1>3. FieldsTyped'
  BY <1>2, EmptyFields DEF FieldsTyped
<1>4. /\ txData \in Seq(Sendable(memory, oldest'))
      /\ toDevice \in Seq(Sendable(memory, oldest'))
  BY <1>1, SentSince DEF HoustonInv, SentTyped
<1>5. Request(number + 1) \in Sendable(memory, oldest')
  BY <1>1 DEF Request, Sendable, Requests, Since
<1>6. SentTyped'
  BY <1>4, <1>5, AppendIn DEF SentTyped
<1>7. QED
  BY <1>1, <1>3, <1>6

LEMMA InvRefreshClick == HoustonInv /\ RefreshClick => HoustonInv'
<1> SUFFICES ASSUME HoustonInv, RefreshClick PROVE HoustonInv'
  OBVIOUS
<1>1. /\ pc = "live" /\ pc' = "control" /\ queue' = EmptyQ /\ Refresh
      /\ txData' = Append(txData, Request(number + 1))
      /\ oldest' = Min(OpenAfterPop \union {number + 1})
      /\ UNCHANGED <<isEnable, session, telemetryMap, alerts, rx, batch, toDevice, memory>>
  BY QueueDrained DEF RefreshClick, LiveFrame, sessions, incoming, device
<1>2. number \in Nat /\ number' = number + 1 /\ liveDataMap' = EmptyMap
  BY <1>1 DEF HoustonInv, Counters, Refresh, ClearedMap
<1>3. OpenAfterPop \subseteq Nat
  BY OpenKnown DEF OpenAfterPop
<1>4. oldest' \in 0..number' /\ \A n \in OpenAfterPop : oldest' <= n
  BY <1>1, <1>2, <1>3, OldestOf
<1>5. number' \in Nat /\ SentTyped' /\ FieldsTyped'
  BY <1>1, <1>4, RefreshTyped DEF OpenAfterPop
<1>6. ReceivedTyped'
  <2>1. oldest' \in Nat
    BY <1>4, <1>5
  <2>2. rx \in Seq(Received(memory, session, oldest')) /\ batch \in Seq(Received(memory, session, oldest'))
    BY <1>4, <2>1, ReceivedSince DEF HoustonInv, ReceivedTyped, OpenAfterPop
  <2>3. QED
    BY <1>1, <2>2, EmptyQTyped DEF ReceivedTyped
<1>7. Counters' /\ PanelsTyped' /\ memory' \in Snapshots(memory')
  BY <1>1, <1>4, <1>5 DEF HoustonInv, Counters, PanelsTyped
<1>8. Closed' /\ Drained'
  BY <1>1, <1>2, EmptyFields DEF HoustonInv, Closed, Drained
<1>9. QED
  BY <1>5, <1>6, <1>7, <1>8 DEF HoustonInv

LEMMA InvAttach == HoustonInv /\ Attach => HoustonInv'
<1> SUFFICES ASSUME HoustonInv, Attach PROVE HoustonInv'
  OBVIOUS
<1>1. /\ pc = "control" /\ pc' = "swap" /\ ~isEnable /\ isEnable'
      /\ session < MaxSessions /\ session' = session + 1
      /\ batch' = batch /\ rx' = rx /\ queue' = queue /\ Refresh
      /\ telemetryMap' = EmptyMap /\ alerts' = alerts
      /\ txData' = Append(txData, Request(number + 1))
      /\ oldest' = Min(Open \union {number + 1})
      /\ UNCHANGED <<toDevice, memory>>
  BY DEF Attach, incoming, device, HoustonInv, Counters
<1>2. rx = <<>> /\ batch = <<>> /\ queue = EmptyQ /\ alerts = <<>>
  BY <1>1 DEF HoustonInv, Closed, Drained
<1>3. number \in Nat /\ number' = number + 1 /\ liveDataMap' = EmptyMap
  BY <1>1 DEF HoustonInv, Counters, Refresh, ClearedMap
<1>4. Open \subseteq Nat
  BY OpenKnown DEF Open
<1>5. oldest' \in 0..number' /\ \A n \in Open : oldest' <= n
  BY <1>1, <1>3, <1>4, OldestOf
<1>6. number' \in Nat /\ SentTyped' /\ FieldsTyped'
  BY <1>1, <1>5, RefreshTyped DEF Open
<1>7. ReceivedTyped'
  BY <1>1, <1>2, EmptyQTyped, EmptySeq DEF ReceivedTyped
<1>8. PanelsTyped'
  BY <1>1, <1>2, EmptyMapIn, EmptySeq DEF PanelsTyped
<1>9. Counters' /\ memory' \in Snapshots(memory')
  BY <1>1, <1>5, <1>6, HoustonAssumption DEF HoustonInv, Counters
<1>10. Closed' /\ Drained'
  BY <1>1, <1>2 DEF Closed, Drained
<1>11. QED
  BY <1>6, <1>7, <1>8, <1>9, <1>10 DEF HoustonInv

-----------------------------------------------------------------------------
(* ControlPanel::render                                                    *)
LEMMA InvIdle == HoustonInv /\ (Idle \/ AttachFails) => HoustonInv'
<1> SUFFICES ASSUME HoustonInv, Idle \/ AttachFails PROVE HoustonInv'
  OBVIOUS
<1>1. /\ pc = "control" /\ pc' \in {"swap", "telemetry"}
      /\ pc' = "swap" => isEnable
      /\ UNCHANGED <<isEnable, session, txData, queue, telemetryMap, alerts, liveDataMap,
                     intMap, floatMap, rx, batch, toDevice, memory, number, oldest>>
  BY DEF Idle, AttachFails, sessions, panels, fields, incoming, device, counts
<1>2. /\ Counters' /\ memory' \in Snapshots(memory') /\ SentTyped' /\ ReceivedTyped'
      /\ PanelsTyped' /\ FieldsTyped'
  BY <1>1 DEF HoustonInv, Counters, SentTyped, ReceivedTyped, PanelsTyped, FieldsTyped
<1>3. Closed' /\ Drained'
  BY <1>1 DEF HoustonInv, Closed, Drained
<1>4. QED
  BY <1>2, <1>3 DEF HoustonInv

LEMMA InvSwap == HoustonInv /\ Swap => HoustonInv'
<1> SUFFICES ASSUME HoustonInv, Swap PROVE HoustonInv'
  OBVIOUS
<1>1. /\ pc = "swap" /\ pc' = "produce" /\ batch' = rx /\ rx' = <<>>
      /\ UNCHANGED <<isEnable, session, txData, queue, telemetryMap, alerts, liveDataMap,
                     intMap, floatMap, toDevice, memory, number, oldest>>
  BY DEF Swap, sessions, panels, fields, device, counts
<1>2. ReceivedTyped'
  BY <1>1, EmptySeq DEF HoustonInv, ReceivedTyped
<1>3. Counters' /\ memory' \in Snapshots(memory') /\ SentTyped' /\ PanelsTyped' /\ FieldsTyped'
  BY <1>1 DEF HoustonInv, Counters, SentTyped, PanelsTyped, FieldsTyped
<1>4. Closed' /\ Drained'
  BY <1>1 DEF HoustonInv, Closed, Drained
<1>5. QED
  BY <1>2, <1>3, <1>4 DEF HoustonInv

LEMMA InvDispatch == HoustonInv /\ Dispatch => HoustonInv'
<1> SUFFICES ASSUME HoustonInv, Dispatch PROVE HoustonInv'
  OBVIOUS
<1> DEFINE f == Head(batch)
<1>1. /\ pc = "produce" /\ batch # <<>> /\ batch' = Tail(batch)
      /\ queue' = [queue EXCEPT ![f.type] = Append(@, f)]
      /\ UNCHANGED <<pc, isEnable, session, txData, telemetryMap, alerts, liveDataMap,
                     intMap, floatMap, rx, toDevice, memory, number, oldest>>
  BY DEF Dispatch, sessions, panels, fields, device, counts
<1>2. f \in Received(memory, session, oldest)
      /\ batch' \in Seq(Received(memory, session, oldest))
  <2>1. batch \in Seq(Received(memory, session, oldest))
    BY DEF HoustonInv, ReceivedTyped
  <2>2. QED
    BY <1>1, <2>1, TailOf, AtIn
<1>3. /\ DOMAIN queue = Types /\ queue["telemetry"] \in Seq(Telemetries(session))
      /\ queue["alert"] \in Seq(Alerts(session))
      /\ queue["response"] \in Seq(Replies(memory, session, oldest))
  BY DEF HoustonInv, ReceivedTyped, QueuesTyped
<1> HIDE DEF f
<1>4. QueuesTyped(memory, session, oldest, queue')
  <2>1. CASE f \in Telemetries(session)
    <3>1. f.type = "telemetry"
      BY <2>1 DEF Telemetries
    <3>2. Append(queue["telemetry"], f) \in Seq(Telemetries(session))
      BY <1>3, <2>1, AppendIn
    <3>3. QED
      BY <1>1, <1>3, <3>1, <3>2 DEF QueuesTyped, Types
  <2>2. CASE f \in Alerts(session)
    <3>1. f.type = "alert"
      BY <2>2 DEF Alerts
    <3>2. Append(queue["alert"], f) \in Seq(Alerts(session))
      BY <1>3, <2>2, AppendIn
    <3>3. QED
      BY <1>1, <1>3, <3>1, <3>2 DEF QueuesTyped, Types
  <2>3. CASE f \in Replies(memory, session, oldest)
    <3>1. f.type = "response"
      BY <2>3 DEF Replies
    <3>2. Append(queue["response"], f) \in Seq(Replies(memory, session, oldest))
      BY <1>3, <2>3, AppendIn
    <3>3. QED
      BY <1>1, <1>3, <3>1, <3>2 DEF QueuesTyped, Types
  <2>4. QED
    BY <1>2, <2>1, <2>2, <2>3 DEF Received
<1>5. ReceivedTyped'
  BY <1>1, <1>2, <1>4 DEF HoustonInv, ReceivedTyped
<1>6. Counters' /\ memory' \in Snapshots(memory') /\ SentTyped' /\ PanelsTyped' /\ FieldsTyped'
  BY <1>1 DEF HoustonInv, Counters, SentTyped, PanelsTyped, FieldsTyped
<1>7. Closed' /\ Drained'
  BY <1>1 DEF HoustonInv, Closed, Drained
<1>8. QED
  BY <1>5, <1>6, <1>7 DEF HoustonInv

LEMMA InvSendData == HoustonInv /\ SendData => HoustonInv'
<1> SUFFICES ASSUME HoustonInv, SendData PROVE HoustonInv'
  OBVIOUS
<1>1. /\ pc = "produce" /\ batch = <<>> /\ pc' = "telemetry"
      /\ toDevice' = toDevice \o txData /\ txData' = <<>>
  BY DEF SendData, HandOver, TxAfterSend
<1>2. UNCHANGED <<isEnable, session, queue, telemetryMap, alerts, liveDataMap,
                  intMap, floatMap, rx, batch, memory, number, oldest>>
  BY DEF SendData, sessions, panels, fields, incoming, device, counts
<1>3. SentTyped'
  BY <1>1, <1>2, JoinIn, EmptySeq DEF HoustonInv, SentTyped
<1>4. Counters' /\ memory' \in Snapshots(memory') /\ ReceivedTyped' /\ PanelsTyped' /\ FieldsTyped'
  BY <1>1, <1>2 DEF HoustonInv, Counters, ReceivedTyped, PanelsTyped, FieldsTyped
<1>5. Closed' /\ Drained'
  BY <1>1, <1>2 DEF HoustonInv, Closed, Drained
<1>6. QED
  BY <1>3, <1>4, <1>5 DEF HoustonInv

LEMMA InvDetach == HoustonInv /\ Detach => HoustonInv'
<1> SUFFICES ASSUME HoustonInv, Detach PROVE HoustonInv'
  OBVIOUS
<1>1. /\ pc = "control" /\ pc' = "telemetry" /\ isEnable' = FALSE /\ rx' = <<>>
      /\ telemetryMap' = EmptyMap /\ alerts' = <<>>
      /\ liveDataMap' = EmptyMap /\ intMap' = EmptyMap /\ floatMap' = EmptyMap
      /\ UNCHANGED <<session, txData, queue, batch, memory, number, oldest>>
  BY DEF Detach, AlertsAfterStop, device, counts
<1>2. PICK n \in 0..Len(toDevice) : toDevice' = SubSeq(toDevice, 1, n)
  BY DEF Detach
<1>3. queue = EmptyQ
  BY <1>1 DEF HoustonInv, Drained
<1>4. SentTyped'
  <2>1. toDevice \in Seq(Sendable(memory, oldest)) /\ txData \in Seq(Sendable(memory, oldest))
    BY DEF HoustonInv, SentTyped
  <2>2. n \in Nat /\ n <= Len(toDevice)
    BY <2>1, AtIn
  <2>3. toDevice' \in Seq(Sendable(memory, oldest))
    BY <1>2, <2>1, <2>2, FirstOf
  <2>4. QED
    BY <1>1, <2>1, <2>3 DEF SentTyped
<1>5. ReceivedTyped'
  BY <1>1, EmptySeq DEF HoustonInv, ReceivedTyped
<1>6. PanelsTyped' /\ FieldsTyped' /\ DOMAIN EmptyMap = {}
  BY <1>1, EmptyMapIn, EmptyFields, EmptySeq DEF PanelsTyped, FieldsTyped
<1>7. Counters' /\ memory' \in Snapshots(memory')
  BY <1>1 DEF HoustonInv, Counters
<1>8. Closed' /\ Drained'
  BY <1>1, <1>3, <1>6 DEF HoustonInv, Closed, Drained
<1>9. QED
  BY <1>4, <1>5, <1>6, <1>7, <1>8 DEF HoustonInv

-----------------------------------------------------------------------------
(* TelemetryPanel::render and AlertPanel::render                           *)
LEMMA InvTelemetryRender == HoustonInv /\ TelemetryRender => HoustonInv'
<1> SUFFICES ASSUME HoustonInv, TelemetryRender PROVE HoustonInv'
  OBVIOUS
<1> DEFINE q == queue["telemetry"]
           new == [k \in {f.key : f \in Range(q)} |-> q[LastOf(q, k)]]
           T == Telemetries(session)
<1>1. /\ pc = "telemetry" /\ pc' = "alerts" /\ telemetryMap' = Over(new, telemetryMap)
      /\ queue' = [queue EXCEPT !["telemetry"] = <<>>]
      /\ UNCHANGED <<isEnable, session, txData, alerts, liveDataMap, intMap, floatMap,
                     rx, batch, toDevice, memory, number, oldest>>
  BY DEF TelemetryRender, sessions, fields, incoming, device, counts
<1>2. /\ DOMAIN queue = Types /\ q \in Seq(T)
      /\ queue["alert"] \in Seq(Alerts(session))
      /\ queue["response"] \in Seq(Replies(memory, session, oldest))
      /\ telemetryMap \in MapsTo(Keys, T)
  BY DEF HoustonInv, ReceivedTyped, QueuesTyped, PanelsTyped
<1>3. new \in MapsTo(Keys, T)
  <2>1. Range(q) \subseteq T
    BY <1>2, RangeIn
  <2>2. {f.key : f \in Range(q)} \subseteq Keys
    BY <2>1 DEF Telemetries
  <2>3. ASSUME NEW k \in {f.key : f \in Range(q)} PROVE q[LastOf(q, k)] \in T
    BY <1>2, LastWith, AtIn
  <2>4. new \in [DOMAIN new -> T] /\ DOMAIN new \subseteq Keys
    BY <2>2, <2>3
  <2>5. QED
    BY <2>4, InMaps
<1>4. ~isEnable => DOMAIN new = {} /\ queue' = EmptyQ
  <2>1. ASSUME ~isEnable PROVE DOMAIN new = {} /\ queue' = EmptyQ
    <3>1. queue = EmptyQ
      BY <2>1 DEF HoustonInv, Closed
    <3>2. q = <<>> /\ [queue EXCEPT !["telemetry"] = <<>>] = EmptyQ
      BY <3>1 DEF EmptyQ, Types
    <3>3. Range(q) = {}
      BY <3>2 DEF Range
    <3>4. QED
      BY <1>1, <3>2, <3>3
  <2>2. QED
    BY <2>1
<1> HIDE DEF new, T
<1>5. /\ telemetryMap' \in MapsTo(Keys, T)
      /\ DOMAIN telemetryMap' = DOMAIN new \union DOMAIN telemetryMap
  <2>1. new \in MapsTo(Keys, T) /\ telemetryMap \in MapsTo(Keys, T)
    BY <1>2, <1>3
  <2>2. Over(new, telemetryMap) \in MapsTo(Keys, T)
    BY <2>1, OverIn
  <2>3. QED
    BY <1>1, <2>2 DEF Over
<1>6. PanelsTyped'
  BY <1>1, <1>5 DEF HoustonInv, PanelsTyped, T
<1>7. ReceivedTyped'
  <2>1. QueuesTyped(memory, session, oldest, queue')
    BY <1>1, <1>2, EmptySeq DEF QueuesTyped, Types
  <2>2. QED
    BY <1>1, <2>1 DEF HoustonInv, ReceivedTyped
<1>8. Counters' /\ memory' \in Snapshots(memory') /\ SentTyped' /\ FieldsTyped'
  BY <1>1 DEF HoustonInv, Counters, SentTyped, FieldsTyped
<1>9. Closed' /\ Drained'
  <2>1. queue'["telemetry"] = <<>>
    BY <1>1, <1>2 DEF Types
  <2>2. QED
    BY <1>1, <1>4, <1>5, <2>1 DEF HoustonInv, Closed, Drained
<1>10. QED
  BY <1>6, <1>7, <1>8, <1>9 DEF HoustonInv

LEMMA InvAlertRender == HoustonInv /\ AlertRender => HoustonInv'
<1> SUFFICES ASSUME HoustonInv, AlertRender PROVE HoustonInv'
  OBVIOUS
<1>1. /\ pc = "alerts" /\ pc' = "live"
      /\ alerts' \in {<<>>, alerts \o queue["alert"]}
      /\ queue' = [queue EXCEPT !["alert"] = <<>>]
      /\ UNCHANGED <<isEnable, session, txData, telemetryMap, liveDataMap, intMap, floatMap,
                     rx, batch, toDevice, memory, number, oldest>>
  BY DEF AlertRender, sessions, fields, incoming, device, counts
<1>2. /\ DOMAIN queue = Types /\ queue["telemetry"] \in Seq(Telemetries(session))
      /\ queue["alert"] \in Seq(Alerts(session))
      /\ queue["response"] \in Seq(Replies(memory, session, oldest))
      /\ alerts \in Seq(Alerts(session))
  BY DEF HoustonInv, ReceivedTyped, QueuesTyped, PanelsTyped
<1>3. alerts' \in Seq(Alerts(session))
  <2>1. alerts \o queue["alert"] \in Seq(Alerts(session))
    BY <1>2, ConcatProperties
  <2>2. QED
    BY <1>1, <2>1, EmptySeq
<1>4. ~isEnable => queue' = EmptyQ /\ alerts' = <<>>
  <2>1. ASSUME ~isEnable PROVE queue' = EmptyQ /\ alerts' = <<>>
    <3>1. queue = EmptyQ /\ alerts = <<>>
      BY <2>1 DEF HoustonInv, Closed
    <3>2. queue["alert"] = <<>> /\ [queue EXCEPT !["alert"] = <<>>] = EmptyQ
      BY <3>1 DEF EmptyQ, Types
    <3>3. alerts \o queue["alert"] = <<>>
      BY <1>2, <3>1, <3>2, ConcatEmptySeq
    <3>4. QED
      BY <1>1, <3>2, <3>3
  <2>2. QED
    BY <2>1
<1>5. PanelsTyped'
  BY <1>1, <1>3 DEF HoustonInv, PanelsTyped
<1>6. ReceivedTyped'
  <2>1. QueuesTyped(memory, session, oldest, queue')
    BY <1>1, <1>2, EmptySeq DEF QueuesTyped, Types
  <2>2. QED
    BY <1>1, <2>1 DEF HoustonInv, ReceivedTyped
<1>7. Counters' /\ memory' \in Snapshots(memory') /\ SentTyped' /\ FieldsTyped'
  BY <1>1 DEF HoustonInv, Counters, SentTyped, FieldsTyped
<1>8. Closed' /\ Drained'
  <2>1. queue'["alert"] = <<>> /\ queue'["telemetry"] = queue["telemetry"]
    BY <1>1, <1>2 DEF Types
  <2>2. QED
    BY <1>1, <1>4, <2>1 DEF HoustonInv, Closed, Drained
<1>9. QED
  BY <1>5, <1>6, <1>7, <1>8 DEF HoustonInv

-----------------------------------------------------------------------------
(* The firmware and the line                                               *)
LEMMA GrowsSame == Grows(memory, memory)
  BY DEF Grows

LEMMA FirstTaken ==
  ASSUME HoustonInv, toDevice # <<>>
  PROVE  /\ Tail(toDevice) \in Seq(Sendable(memory, oldest))
         /\ Head(toDevice) \in Sendable(memory, oldest)
<1>1. toDevice \in Seq(Sendable(memory, oldest))
  BY DEF HoustonInv, SentTyped
<1>2. QED
  BY <1>1, TailOf, AtIn

(* A frame that arrives, whatever becomes of it                            *)
LEMMA Arrived ==
  ASSUME HoustonInv, NEW f \in Received(memory, session, oldest), Arrives(f)
  PROVE  /\ rx' \in Seq(Received(memory, session, oldest))
         /\ ~isEnable => rx' = <<>>
<1>1. rx \in Seq(Received(memory, session, oldest)) /\ (~isEnable => rx = <<>>)
  BY DEF HoustonInv, ReceivedTyped, Closed
<1>2. Append(rx, f) \in Seq(Received(memory, session, oldest))
  BY <1>1, AppendIn
<1>3. QED
  BY <1>1, <1>2 DEF Arrives

LEMMA Unread ==
  ASSUME HoustonInv
  PROVE  /\ rx \in Seq(Received(memory, session, oldest))
         /\ ~isEnable => rx = <<>>
         /\ toDevice \in Seq(Sendable(memory, oldest))
         /\ memory \in Snapshots(memory)
  BY DEF HoustonInv, ReceivedTyped, Closed, SentTyped

LEMMA InvTakeRequest == HoustonInv /\ TakeRequest => HoustonInv'
<1> SUFFICES ASSUME HoustonInv, TakeRequest PROVE HoustonInv'
  OBVIOUS
<1> DEFINE f == [type |-> "response", number |-> Head(toDevice).number,
                 session |-> session, live |-> memory]
<1>1. /\ toDevice # <<>> /\ Head(toDevice).type = "request" /\ Arrives(f)
      /\ toDevice' = Tail(toDevice) /\ memory' = memory
      /\ UNCHANGED <<pc, sessions, txData, queue, panels, batch, number, oldest>>
  BY DEF TakeRequest, Host, counts
<1>2. Head(toDevice).number \in Since(oldest)
  BY <1>1, FirstTaken DEF Sendable, Requests, Modifies
<1>3. f \in Received(memory, session, oldest)
  BY <1>2, Unread DEF Received, Replies
<1> HIDE DEF f
<1>4. rx' \in Seq(Received(memory, session, oldest)) /\ (~isEnable => rx' = <<>>)
  BY <1>1, <1>3, Arrived
<1>5. QED
  BY <1>1, <1>4, Unread, FirstTaken, GrowsSame, InvGrows

LEMMA InvTakeModify == HoustonInv /\ TakeModify => HoustonInv'
<1> SUFFICES ASSUME HoustonInv, TakeModify PROVE HoustonInv'
  OBVIOUS
<1> DEFINE p == Head(toDevice)
<1>1. /\ toDevice # <<>> /\ p.type = "modify" /\ toDevice' = Tail(toDevice)
      /\ memory' = IF p.packetID \in DOMAIN memory /\ memory[p.packetID].valueType = p.valueType
                   THEN [memory EXCEPT ![p.packetID].value = p.value] ELSE memory
      /\ UNCHANGED <<pc, sessions, txData, queue, panels, batch, number, oldest, rx>>
  BY DEF TakeModify, Host, counts
<1>2. p \in Modifies(memory)
  BY <1>1, FirstTaken DEF Sendable, Requests
<1> HIDE DEF p
<1>3. /\ p.value \in Vals
      /\ p.valueType = "bool" /\ memory[p.packetID].valueType = "bool" => p.value \in {0, 1}
  BY <1>2 DEF Modifies
<1>4. /\ DOMAIN memory \subseteq VarIds
      /\ memory \in [DOMAIN memory -> [valueType : VarTypes, value : Vals]]
      /\ \A id \in DOMAIN memory :
           memory[id].valueType = "bool" => memory[id].value \in {0, 1}
  BY Unread, InMaps DEF Snapshots, Variables
<1>5. memory' \in Snapshots(memory') /\ Grows(memory, memory')
  <2>1. CASE memory' = memory
    BY <2>1, Unread, GrowsSame
  <2>2. CASE /\ p.packetID \in DOMAIN memory /\ memory[p.packetID].valueType = p.valueType
             /\ memory' = [memory EXCEPT ![p.packetID].value = p.value]
    <3> DEFINE v == [memory[p.packetID] EXCEPT !.value = p.value]
    <3>1. /\ v \in [valueType : VarTypes, value : Vals]
          /\ v.valueType = memory[p.packetID].valueType /\ v.value = p.value
      BY <1>3, <1>4, <2>2
    <3>2. memory' = [memory EXCEPT ![p.packetID] = v]
      BY <1>4, <2>2
    <3> HIDE DEF v
    <3>3. /\ memory' \in [DOMAIN memory -> [valueType : VarTypes, value : Vals]]
          /\ DOMAIN memory' = DOMAIN memory
          /\ \A id \in DOMAIN memory : memory'[id] = IF id = p.packetID THEN v ELSE memory[id]
      BY <1>4, <3>1, <3>2
    <3>4. memory' \in Variables
      BY <1>4, <3>3, InMaps DEF Variables
    <3>5. QED
      BY <1>3, <1>4, <2>2, <3>1, <3>3, <3>4 DEF Snapshots, Grows
  <2>3. QED
    BY <1>1, <2>1, <2>2
<1>6. QED
  BY <1>1, <1>5, Unread, FirstTaken, InvGrows

LEMMA InvLine == HoustonInv /\ (LosePacket \/ DeviceSends) => HoustonInv'
<1> SUFFICES ASSUME HoustonInv, LosePacket \/ DeviceSends PROVE HoustonInv'
  OBVIOUS
<1>1. /\ memory' = memory
      /\ UNCHANGED <<pc, sessions, txData, queue, panels, batch, number, oldest>>
  BY DEF LosePacket, DeviceSends, Host, counts
<1>2. CASE LosePacket
  <2>1. toDevice # <<>> /\ toDevice' = Tail(toDevice) /\ rx' = rx
    BY <1>2 DEF LosePacket
  <2>2. QED
    BY <1>1, <2>1, Unread, FirstTaken, GrowsSame, InvGrows
<1>3. CASE DeviceSends
  <2>1. toDevice' = toDevice
    BY <1>3 DEF DeviceSends
  <2>2. PICK f \in Received(memory, session, oldest) : Arrives(f)
    <3>1. CASE Arrives([type |-> "alert", session |-> session])
      BY <3>1 DEF Received, Alerts
    <3>2. ASSUME NEW k \in Keys,
                 Arrives([type |-> "telemetry", key |-> k, session |-> session])
          PROVE  \E f \in Received(memory, session, oldest) : Arrives(f)
      BY <3>2 DEF Received, Telemetries
    <3>3. QED
      BY <1>3, <3>1, <3>2 DEF DeviceSends
  <2>3. rx' \in Seq(Received(memory, session, oldest)) /\ (~isEnable => rx' = <<>>)
    BY <2>2, Arrived
  <2>4. QED
    BY <1>1, <2>1, <2>3, Unread, GrowsSame, InvGrows
<1>4. QED
  BY <1>2, <1>3

LEMMA InvRegister ==
  ASSUME HoustonInv, NEW r \in Registered, Register(r)
  PROVE  HoustonInv'
<1> DEFINE new == [id \in {r.packetID} |-> [valueType |-> r.valueType, value |-> 0]]
           V == [valueType : VarTypes, value : Vals]
<1>1. /\ r.packetID \notin DOMAIN memory /\ memory' = Over(memory, new)
      /\ UNCHANGED <<pc, sessions, txData, queue, panels, batch, number, oldest, rx, toDevice>>
  BY DEF Register, Host, counts
<1>2. /\ DOMAIN memory \subseteq VarIds /\ memory \in [DOMAIN memory -> V]
      /\ \A id \in DOMAIN memory :
           memory[id].valueType = "bool" => memory[id].value \in {0, 1}
  BY Unread, InMaps DEF Snapshots, Variables
<1>3. r.packetID \in VarIds /\ [valueType |-> r.valueType, value |-> 0] \in V
  BY DEF VarIds, VarTypes, Vals
<1>4. /\ DOMAIN memory' = DOMAIN memory \union {r.packetID}
      /\ \A id \in DOMAIN memory : memory'[id] = memory[id]
      /\ memory'[r.packetID] = [valueType |-> r.valueType, value |-> 0]
      /\ memory' \in [DOMAIN memory' -> V]
  BY <1>1, <1>2, <1>3 DEF Over
<1>5. memory' \in Variables
  BY <1>2, <1>3, <1>4, InMaps DEF Variables
<1>6. memory' \in Snapshots(memory') /\ Grows(memory, memory')
  BY <1>1, <1>2, <1>4, <1>5 DEF Snapshots, Grows
<1>7. QED
  BY <1>1, <1>6, Unread, InvGrows

-----------------------------------------------------------------------------
LEMMA InvInit == Init => HoustonInv
<1> SUFFICES ASSUME Init PROVE HoustonInv
  OBVIOUS
<1>1. Counters /\ Closed /\ Drained
  <2>1. DOMAIN EmptyMap = {}
    BY DEF EmptyMap
  <2>2. Counters
    <3>1. pc = "control" /\ isEnable = FALSE /\ session = 0 /\ number = 0 /\ oldest = 0
      BY DEF Init
    <3>2. MaxSessions \in Nat
      BY HoustonAssumption
    <3>3. session \in 0..MaxSessions /\ number \in Nat /\ oldest \in 0..number
      BY <3>1, <3>2
    <3>4. isEnable \in BOOLEAN
      BY <3>1
    <3>5. pc \in {"control", "swap", "produce", "telemetry", "alerts", "live", "crashed"}
      BY <3>1
    <3>6. QED
      BY <3>3, <3>4, <3>5, Zenon DEF Counters
  <2>3. Closed /\ Drained
    BY <2>1 DEF Init, Closed, Drained
  <2>4. QED
    BY <2>2, <2>3
<1>2. memory \in Snapshots(memory)
  BY EmptyMapIn DEF Init, Snapshots, Variables
<1>3. SentTyped /\ ReceivedTyped
  BY EmptySeq, EmptyQTyped DEF Init, SentTyped, ReceivedTyped
<1>4. PanelsTyped /\ FieldsTyped
  BY EmptySeq, EmptyMapIn, EmptyFields DEF Init, PanelsTyped, FieldsTyped
<1>5. QED
  BY <1>1, <1>2, <1>3, <1>4 DEF HoustonInv

LEMMA InvNext == HoustonInv /\ [Next]_vars => HoustonInv'
<1> SUFFICES ASSUME HoustonInv, [Next]_vars PROVE HoustonInv'
  OBVIOUS
<1>1. CASE UNCHANGED vars
  BY <1>1, Unread, GrowsSame, InvGrows DEF vars, incoming, device, counts
<1>2. CASE ControlRender
  BY <1>2, InvIdle, InvAttach, InvDetach, InvSwap, InvDispatch, InvSendData DEF ControlRender
<1>3. CASE LiveRender
  BY <1>3, InvNoRefresh, InvRefreshClick DEF LiveRender
<1>4. QED
  BY <1>1, <1>2, <1>3, InvTelemetryRender, InvAlertRender, InvTakeRequest, InvTakeModify,
     InvLine, InvRegister DEF Next, Frame, Take

-----------------------------------------------------------------------------
(* What the invariant says of the panels                                   *)
LEMMA InvTyped ==
  ASSUME HoustonInv, taken \in 0..number
  PROVE  TypeOK
<1>1. /\ telemetryMap \in MapsTo(Keys, Telemetries(session))
      /\ memory \in MapsTo(VarIds, [valueType : VarTypes, value : Vals])
  BY DEF HoustonInv, PanelsTyped, Snapshots, Variables
<1>2. DOMAIN telemetryMap \subseteq Keys /\ DOMAIN memory \subseteq VarIds
  BY <1>1, InMaps
<1>3. DOMAIN queue = Types /\ FieldsFit(memory, liveDataMap, intMap, floatMap)
  BY DEF HoustonInv, ReceivedTyped, QueuesTyped, FieldsTyped
<1>4. Counters
  BY DEF HoustonInv
<1>5. QED
  BY <1>2, <1>3, <1>4 DEF TypeOK, Counters, FieldsFit, VarIds

LEMMA InvSession == HoustonInv => ShownThisSession
<1> SUFFICES ASSUME HoustonInv, NEW f \in Held PROVE isEnable /\ f.session = session
  BY DEF ShownThisSession
<1>1. /\ telemetryMap \in MapsTo(Keys, Telemetries(session)) /\ alerts \in Seq(Alerts(session))
      /\ liveDataMap \in MapsTo(VarIds, Entries(memory, session, oldest))
      /\ rx \in Seq(Received(memory, session, oldest))
      /\ batch \in Seq(Received(memory, session, oldest))
      /\ queue["telemetry"] \in Seq(Telemetries(session))
      /\ queue["alert"] \in Seq(Alerts(session))
      /\ queue["response"] \in Seq(Replies(memory, session, oldest))
  BY DEF HoustonInv, PanelsTyped, FieldsTyped, LivePanel, ReceivedTyped, QueuesTyped
<1>2. \A x \in Received(memory, session, oldest) : x.session = session
  BY DEF Received, Telemetries, Alerts, Replies
<1>3. \/ f \in Range(telemetryMap) \/ f \in Range(alerts)
      \/ \E id \in DOMAIN liveDataMap : f = liveDataMap[id].from
      \/ \E t \in Types : f \in Range(queue[t])
      \/ f \in Range(rx) \/ f \in Range(batch)
  BY DEF Held
<1>4. f.session = session
  <2>1. CASE f \in Range(telemetryMap)
    <3>1. telemetryMap \in [DOMAIN telemetryMap -> Telemetries(session)]
      BY <1>1, InMaps
    <3>2. f \in Telemetries(session)
      BY <2>1, <3>1 DEF Range
    <3>3. QED
      BY <1>2, <3>2 DEF Received
  <2>2. CASE f \in Range(alerts)
    BY <1>1, <1>2, <2>2, RangeIn DEF Received
  <2>3. CASE \E id \in DOMAIN liveDataMap : f = liveDataMap[id].from
    <3>1. liveDataMap \in [DOMAIN liveDataMap -> Entries(memory, session, oldest)]
      BY <1>1, InMaps
    <3>2. f \in Replies(memory, session, oldest)
      BY <2>3, <3>1 DEF Entries
    <3>3. QED
      BY <1>2, <3>2 DEF Received
  <2>4. CASE \E t \in Types : f \in Range(queue[t])
    <3>1. \/ f \in Telemetries(session) \/ f \in Alerts(session)
          \/ f \in Replies(memory, session, oldest)
      BY <1>1, <2>4, RangeIn DEF Types
    <3>2. QED
      BY <1>2, <3>1 DEF Received
  <2>5. CASE f \in Range(rx) \/ f \in Range(batch)
    BY <1>1, <1>2, <2>5, RangeIn
  <2>6. QED
    BY <1>3, <2>1, <2>2, <2>3, <2>4, <2>5
<1>5. isEnable
  <2> SUFFICES ASSUME ~isEnable PROVE FALSE
    OBVIOUS
  <2>1. /\ rx = <<>> /\ alerts = <<>> /\ batch = <<>> /\ queue = EmptyQ
        /\ DOMAIN telemetryMap = {} /\ DOMAIN liveDataMap = {}
    BY DEF HoustonInv, Closed, Drained
  <2>2. Range(<<>>) = {} /\ \A t \in Types : EmptyQ[t] = <<>>
    BY DEF Range, EmptyQ
  <2>3. Range(telemetryMap) = {}
    BY <2>1 DEF Range
  <2>4. QED
    BY <1>3, <2>1, <2>2, <2>3
<1>6. QED
  BY <1>4, <1>5

LEMMA InvRefresh == HoustonInv => RefreshForgets
<1> SUFFICES ASSUME HoustonInv, NEW id \in DOMAIN liveDataMap
             PROVE  liveDataMap[id].from.number >= oldest
  BY DEF RefreshForgets
<1>1. liveDataMap \in MapsTo(VarIds, Entries(memory, session, oldest))
  BY DEF HoustonInv, FieldsTyped, LivePanel
<1>2. liveDataMap \in [DOMAIN liveDataMap -> Entries(memory, session, oldest)]
  BY <1>1, InMaps
<1>3. liveDataMap[id].from \in Replies(memory, session, oldest)
  BY <1>2 DEF Entries
<1>4. QED
  BY <1>3 DEF Replies, Since

(* What the firmware registered has ids that a byte holds.                 *)
IdsFit == \A r \in Registered : r.packetID < IdRange

LEMMA NoCrashNext ==
  ASSUME IdsFit, HoustonInv, NoCrash, [Next]_vars
  PROVE  NoCrash'
<1> SUFFICES ASSUME pc' = "crashed", pc # "crashed" PROVE FALSE
  BY DEF NoCrash
<1>1. PICK id \in DOMAIN Shown : Apply(id) \/ Toggle(id)
  <2>1. ~UNCHANGED vars /\ ~Take /\ ~LosePacket /\ ~DeviceSends
        /\ ~(\E r \in Registered : Register(r))
    BY Zenon DEF vars, Take, TakeRequest, TakeModify, LosePacket, DeviceSends, Register, Host
  <2>2. ~ControlRender /\ ~TelemetryRender /\ ~AlertRender
    BY DEF ControlRender, Idle, Attach, AttachFails, Detach, Swap, Dispatch, SendData, TelemetryRender,
           AlertRender
  <2>3. ~NoClick /\ ~RefreshClick /\ \A i \in DOMAIN Shown, v \in Values : ~Edit(i, v)
    BY DEF NoClick, RefreshClick, Edit
  <2>4. QED
    BY <2>1, <2>2, <2>3 DEF Next, Frame, LiveRender
<1>2. PICK ints, floats : /\ SendModify(id, ints, floats) /\ DOMAIN ints = DOMAIN IntFields
                          /\ DOMAIN floats = DOMAIN FloatFields
  <2>1. DOMAIN [IntFields EXCEPT ![id] = 1 - @] = DOMAIN IntFields
    OBVIOUS
  <2>2. QED
    BY <1>1, <2>1 DEF Apply, Toggle
<1>3. /\ Shown \in MapsTo(VarIds, Entries(memory, session, oldest))
      /\ FieldsFit(memory, Shown, IntFields, FloatFields)
  BY ShownTyped DEF LivePanel
<1>4. id \in VarIds
  BY <1>3, InMaps
<1>5. PacketID(id) = id
  <2>1. id \in 0..(IdRange - 1)
    BY <1>4, HoustonAssumption DEF VarIds, IdsFit
  <2>2. QED
    BY <2>1, HoustonAssumption DEF PacketID
<1>6. id \in DOMAIN (IF Shown[id].valueType = "float" THEN floats ELSE ints)
  BY <1>2, <1>3 DEF FieldsFit
<1>7. QED
  BY <1>2, <1>5, <1>6 DEF SendModify

-----------------------------------------------------------------------------
(* What follows from the two                                               *)

(* The types, the panel's fields among them: of every variable shown there *)
(* is the field that its type needs.                                       *)
THEOREM TypeCorrect == Spec => []TypeOK
<1>1. OrderInv /\ HoustonInv => TypeOK
  <2>1. OrderInv /\ HoustonInv => taken \in 0..number
    BY DEF OrderInv, Counted
  <2>2. QED
    BY <2>1, InvTyped
<1>2. QED
  BY <1>1, OrderInit, OrderNext, InvInit, InvNext, PTL DEF Spec

(* Nothing of a closed session is on a panel or waits in a consumer.       *)
THEOREM ShownThisSessionAlways == Spec => []ShownThisSession
  BY InvInit, InvNext, InvSession, PTL DEF Spec

(* A refresh forgets what was shown, whatever responses were under way.    *)
THEOREM RefreshForgetsAlways == Spec => []RefreshForgets
  BY InvInit, InvNext, InvRefresh, PTL DEF Spec

(* If a byte holds every registered id, no click finds a field missing.    *)
THEOREM NoCrashAlways == IdsFit => (Spec => []NoCrash)
<1>1. Init => NoCrash
  BY DEF Init, NoCrash
<1>2. IdsFit => []IdsFit
  <2>1. IdsFit => IdsFit'
    BY DEF IdsFit
  <2>2. QED
    BY <2>1, PTL
<1>3. IdsFit /\ HoustonInv /\ NoCrash /\ [Next]_vars => NoCrash'
  BY NoCrashNext
<1>4. QED
  BY <1>1, <1>2, <1>3, InvInit, InvNext, PTL DEF Spec

LEMMA ClickedNamed == IdsFit /\ HoustonInv => NamesVariable
<1> SUFFICES ASSUME IdsFit, HoustonInv, NEW p \in Range(txData) \union Range(toDevice),
                    p.type = "modify"
             PROVE  p.packetID = p.clicked
  BY DEF NamesVariable
<1>1. p \in Modifies(memory)
  <2>1. txData \in Seq(Sendable(memory, oldest)) /\ toDevice \in Seq(Sendable(memory, oldest))
    BY DEF HoustonInv, SentTyped
  <2>2. p \in Sendable(memory, oldest)
    BY <2>1, RangeIn
  <2>3. QED
    BY <2>2 DEF Sendable, Requests
<1>2. p.clicked \in 0..(IdRange - 1) /\ p.packetID = PacketID(p.clicked)
  BY <1>1, HoustonAssumption DEF Modifies, VarIds, IdsFit
<1>3. QED
  BY <1>2, HoustonAssumption DEF PacketID

(* ... and every packet names the variable that was clicked, in however    *)
(* many sessions.                                                          *)
THEOREM NamesVariableAlways == IdsFit => (Spec => []NamesVariable)
<1>1. IdsFit => []IdsFit
  <2>1. IdsFit => IdsFit'
    BY DEF IdsFit
  <2>2. QED
    BY <2>1, PTL
<1>2. QED
  BY <1>1, ClickedNamed, InvInit, InvNext, PTL DEF Spec

-----------------------------------------------------------------------------
(* The abstract receiver's variables, as the host's state gives them.      *)
Mapped(s) == [k \in DOMAIN s |-> AsPacket(s[k])]
Pending   == Mapped(Packets)
Cells     == [id \in DOMAIN memory |->
                [packetID |-> id, valueType |-> memory[id].valueType,
                 value |-> memory[id].value]]

LEMMA MappedIn ==
  ASSUME NEW S, NEW s \in Seq(S)
  PROVE  /\ Mapped(s) \in Seq({AsPacket(x) : x \in S})
         /\ Len(s) \in Nat /\ Len(Mapped(s)) = Len(s) /\ DOMAIN Mapped(s) = 1..Len(s)
         /\ \A i \in 1..Len(s) : Mapped(s)[i] = AsPacket(s[i])
<1> DEFINE P == {AsPacket(x) : x \in S}
<1>1. Len(s) \in Nat /\ DOMAIN s = 1..Len(s) /\ \A i \in 1..Len(s) : s[i] \in S
  BY AtIn
<1>2. Mapped(s) = [i \in 1..Len(s) |-> AsPacket(s[i])]
  BY <1>1 DEF Mapped
<1>3. \A i \in 1..Len(s) : AsPacket(s[i]) \in P
  BY <1>1
<1> HIDE DEF P
<1>4. Mapped(s) \in [1..Len(s) -> P]
  BY <1>2, <1>3
<1>5. Mapped(s) \in Seq(P)
  BY <1>1, <1>4
<1>6. Len(Mapped(s)) = Len(s)
  BY <1>1, <1>4
<1>7. QED
  BY <1>1, <1>2, <1>5, <1>6 DEF P

LEMMA MappedAppend ==
  ASSUME NEW S, NEW s \in Seq(S), NEW e \in S
  PROVE  Mapped(Append(s, e)) = Append(Mapped(s), AsPacket(e))
<1> DEFINE P == {AsPacket(x) : x \in S}
           t == Append(s, e)
           n == Len(s)
           u == Append(Mapped(s), AsPacket(e))
<1>1. /\ t \in Seq(S) /\ n \in Nat /\ Len(t) = n + 1
      /\ \A i \in 1..n : t[i] = s[i]
      /\ t[n + 1] = e
  BY AppendIn
<1>2. /\ Mapped(s) \in Seq(P) /\ Len(Mapped(s)) = n
      /\ \A i \in 1..n : Mapped(s)[i] = AsPacket(s[i])
  BY MappedIn
<1>3. /\ Mapped(t) \in Seq(P) /\ Len(Mapped(t)) = n + 1
      /\ \A i \in 1..(n + 1) : Mapped(t)[i] = AsPacket(t[i])
  <2> HIDE DEF t
  <2>1. QED
    BY <1>1, MappedIn
<1>4. AsPacket(e) \in P
  OBVIOUS
<1> HIDE DEF P, t
<1>5. /\ u \in Seq(P) /\ Len(u) = n + 1
      /\ \A i \in 1..n : u[i] = Mapped(s)[i]
      /\ u[n + 1] = AsPacket(e)
  BY <1>2, <1>4, AppendIn
<1> HIDE DEF u
<1>6. ASSUME NEW i \in 1..(n + 1) PROVE Mapped(t)[i] = u[i]
  <2>1. CASE i \in 1..n
    BY <1>1, <1>2, <1>3, <1>5, <2>1
  <2>2. CASE i = n + 1
    BY <1>1, <1>3, <1>5, <2>2
  <2>3. QED
    BY <1>1, <2>1, <2>2
<1>7. Mapped(t) = u
  BY <1>3, <1>5, <1>6, SeqEqual
<1>8. QED
  BY <1>7 DEF t, u

(* t is s without the "skip" elements that follow the first "from".        *)
Without(s, t, from, skip) ==
  /\ from + skip <= Len(s) /\ Len(t) = Len(s) - skip
  /\ \A k \in 1..Len(t) : t[k] = s[IF k <= from THEN k ELSE k + skip]

LEMMA MappedCut ==
  ASSUME NEW S, NEW s \in Seq(S), NEW t \in Seq(S), NEW from \in Nat, NEW skip \in Nat,
         Without(s, t, from, skip)
  PROVE  Mapped(t) = SubSeq(Mapped(s), 1, from)
                       \o SubSeq(Mapped(s), from + skip + 1, Len(Mapped(s)))
<1> DEFINE P == {AsPacket(x) : x \in S}
           n == Len(s)
           m == Len(t)
           M == Mapped(s)
           a == SubSeq(M, 1, from)
           b == SubSeq(M, from + skip + 1, n)
<1>1. /\ M \in Seq(P) /\ Len(M) = n /\ n \in Nat
      /\ \A i \in 1..n : M[i] = AsPacket(s[i])
  BY MappedIn
<1>2. /\ Mapped(t) \in Seq(P) /\ Len(Mapped(t)) = m /\ m \in Nat
      /\ \A i \in 1..m : Mapped(t)[i] = AsPacket(t[i])
  BY MappedIn
<1>3. m = n - skip /\ from <= m
  BY <1>1, <1>2 DEF Without
<1>0. \A k \in 1..m : /\ k <= from => t[k] = s[k]
                      /\ ~(k <= from) => t[k] = s[k + skip]
  BY DEF Without
<1> HIDE DEF P, M
<1>4. a \in Seq(P) /\ Len(a) = from /\ \A i \in 1..from : a[i] = M[i]
  <2>1. from <= Len(M)
    BY <1>1, <1>3
  <2>2. QED
    BY <1>1, <2>1, FirstOf
<1>5. /\ b \in Seq(P) /\ Len(b) = m - from
      /\ \A i \in 1..(m - from) : b[i] = M[from + skip + i]
  <2>1. \A i \in (from + skip + 1)..n : M[i] \in P
    <3>1. \A i \in 1..n : M[i] \in P
      BY <1>1, AtIn
    <3>2. QED
      BY <1>1, <3>1
  <2>2. PICK f \in Nat : f = from + skip + 1
    BY <1>1
  <2>3. /\ SubSeq(M, f, n) \in Seq(P)
        /\ Len(SubSeq(M, f, n)) = IF f <= n THEN n - f + 1 ELSE 0
        /\ \A i \in 1..(n - f + 1) : SubSeq(M, f, n)[i] = M[f + i - 1]
    BY <1>1, <2>1, <2>2, SubSeqProperties
  <2>4. n - f + 1 = m - from /\ \A i \in Nat : f + i - 1 = from + skip + i
    BY <1>1, <1>3, <2>2
  <2>5. QED
    BY <1>1, <1>3, <2>2, <2>3, <2>4
<1> HIDE DEF a, b, n, m
<1>6. /\ a \o b \in Seq(P) /\ Len(a \o b) = m
      /\ \A i \in 1..from : (a \o b)[i] = a[i]
      /\ \A i \in 1..(m - from) : (a \o b)[from + i] = b[i]
  <2>1. /\ a \o b \in Seq(P) /\ Len(a \o b) = Len(a) + Len(b)
        /\ \A i \in 1..Len(a) : (a \o b)[i] = a[i]
        /\ \A i \in 1..Len(b) : (a \o b)[Len(a) + i] = b[i]
    <3>1. a \in Seq(P) /\ b \in Seq(P)
      BY <1>4, <1>5
    <3>2. QED
      BY <3>1, JoinIn
  <2>2. QED
    BY <1>2, <1>3, <1>4, <1>5, <2>1
<1>7. ASSUME NEW k \in 1..m PROVE Mapped(t)[k] = (a \o b)[k]
  <2>1. CASE k <= from
    <3>1. k \in 1..from /\ k \in 1..n /\ t[k] = s[k]
      BY <1>0, <1>1, <1>2, <1>3, <2>1
    <3>2. QED
      BY <1>1, <1>2, <1>4, <1>6, <3>1
  <2>2. CASE ~(k <= from)
    <3>1. /\ k - from \in 1..(m - from) /\ from + (k - from) = k
          /\ from + skip + (k - from) = k + skip /\ k + skip \in 1..n
          /\ t[k] = s[k + skip]
      BY <1>0, <1>1, <1>2, <1>3, <2>2
    <3>2. (a \o b)[from + (k - from)] = b[k - from]
          /\ b[k - from] = M[from + skip + (k - from)]
      BY <1>5, <1>6, <3>1
    <3>3. QED
      BY <1>1, <1>2, <3>1, <3>2
  <2>3. QED
    BY <2>1, <2>2
<1>8. Mapped(t) = a \o b
  BY <1>2, <1>6, <1>7, SeqEqual
<1>9. Len(Mapped(s)) = n
  BY <1>1 DEF M
<1>10. QED
  BY <1>8, <1>9, Zenon DEF a, b, M, n

(* What is sent is what the abstract receiver is given.                    *)
LEMMA SentSubmittable ==
  ASSUME NEW m, NEW o, NEW p \in Sendable(m, o)
  PROVE  AsPacket(p) \in Firmware!Submittable
<1>1. CASE p \in Requests(o)
  <2>1. p.type = "request"
    BY <1>1 DEF Requests
  <2>2. AsPacket(p) = [kind |-> "request"]
    BY <2>1, Zenon DEF AsPacket
  <2>3. [kind |-> "request"] \in [kind : {"request"}]
    OBVIOUS
  <2>4. QED
    BY <2>2, <2>3, Zenon DEF Firmware!Submittable
<1>2. CASE p \in Modifies(m)
  <2>1. /\ p.type = "modify" /\ p.packetID \in Ids /\ p.valueType \in VarTypes
        /\ p.value \in Values \union {0, 1}
    BY <1>2 DEF Modifies, Ids, Vals
  <2> DEFINE q == [kind |-> "modify", packetID |-> p.packetID, valueType |-> p.valueType,
                   value |-> p.value]
  <2>2. AsPacket(p) = q
    BY <2>1 DEF AsPacket
  <2>3. q \in [kind : {"modify"}, packetID : Ids, valueType : VarTypes,
               value : Values \union {0, 1}]
    BY <2>1
  <2> HIDE DEF q
  <2>4. QED
    BY <2>2, <2>3, Zenon DEF Firmware!Submittable
<1>3. QED
  BY <1>1, <1>2 DEF Sendable

LEMMA Submitted ==
  ASSUME HoustonInv, HoustonInv', Queued, memory' = memory
  PROVE  Firmware!Next
<1>1. PICK e : /\ txData' = Append(txData, e) /\ toDevice' = toDevice
  BY DEF Queued
<1> DEFINE S == Sendable(memory, oldest) \union Sendable(memory', oldest') \union {e}
<1>2. toDevice \in Seq(S) /\ txData \in Seq(S) /\ e \in S
  <2>1. Seq(Sendable(memory, oldest)) \subseteq Seq(S)
    BY SeqMonotonic
  <2>2. QED
    BY <2>1 DEF HoustonInv, SentTyped
<1> HIDE DEF S
<1>3. AsPacket(e) \in Firmware!Submittable
  <2>1. txData' \in Seq(Sendable(memory', oldest'))
    BY DEF HoustonInv, SentTyped
  <2>2. Len(txData) \in Nat /\ Len(txData') = Len(txData) + 1 /\ txData'[Len(txData) + 1] = e
    BY <1>1, <1>2, AppendIn
  <2>3. e \in Sendable(memory', oldest')
    BY <2>1, <2>2, AtIn
  <2>4. QED
    BY <2>3, SentSubmittable
<1>4. Pending' = Append(Pending, AsPacket(e))
  <2>1. Packets' = toDevice \o Append(txData, e)
    BY <1>1 DEF Packets
  <2>2. Packets' = Append(Packets, e) /\ Packets \in Seq(S)
    BY <1>2, <2>1, AppendJoined, PacketsAt DEF Packets
  <2>3. QED
    BY <1>2, <2>2, MappedAppend DEF Pending
<1>5. Cells' = Cells
  BY DEF Cells
<1>6. Firmware!Submit(AsPacket(e))
  BY <1>4, <1>5 DEF Firmware!Submit, Pending, Cells, Mapped
<1>7. QED
  BY <1>3, <1>6 DEF Firmware!Next

LEMMA LostStep ==
  ASSUME NEW S, Packets \in Seq(S), Packets' \in Seq(S), memory' = memory,
         NEW from \in Nat, NEW skip \in Nat, Without(Packets, Packets', from, skip)
  PROVE  Firmware!Next
<1>1. Mapped(Packets') = SubSeq(Pending, 1, from)
                           \o SubSeq(Pending, from + skip + 1, Len(Pending))
  BY MappedCut DEF Pending
<1>2. Pending' = Mapped(Packets')
  BY DEF Pending, Mapped, AsPacket
<1>3. /\ Len(Pending) = Len(Packets) /\ Len(Packets) \in Nat
      /\ from \in 0..Len(Pending) /\ from + skip + 1 \in (from + 1)..(Len(Pending) + 1)
  <2>1. Len(Pending) = Len(Packets) /\ Len(Packets) \in Nat
    BY MappedIn DEF Pending
  <2>2. QED
    BY <2>1 DEF Without
<1>4. Cells' = Cells
  BY DEF Cells
<1>5. \E i \in 0..Len(Pending) : \E j \in (i + 1)..(Len(Pending) + 1) :
        Pending' = SubSeq(Pending, 1, i) \o SubSeq(Pending, j, Len(Pending))
  BY <1>1, <1>2, <1>3
<1>6. Firmware!Lose
  BY <1>4, <1>5 DEF Firmware!Lose, Pending, Cells, Mapped
<1>7. QED
  BY <1>6 DEF Firmware!Next

LEMMA Truncated ==
  ASSUME HoustonInv, CutOff, memory' = memory
  PROVE  Firmware!Next
<1> DEFINE d == Len(toDevice)
<1>1. PICK n \in 0..d : toDevice' = SubSeq(toDevice, 1, n) /\ txData' = txData
  BY DEF CutOff
<1>2. PICK S : toDevice \in Seq(S) /\ txData \in Seq(S)
  BY DEF HoustonInv, SentTyped
<1>3. /\ toDevice' \in Seq(S) /\ Len(Packets') = n + Len(txData)
      /\ \A k \in 1..Len(Packets') :
           LET o == IF k <= n THEN k ELSE k + (d - n)
           IN o \in 1..Len(Packets) /\ Packets'[k] = Packets[o]
  BY <1>1, <1>2, AfterCut
<1>4. /\ Packets \in Seq(S) /\ Len(Packets) = d + Len(txData)
      /\ d \in Nat /\ Len(txData) \in Nat
  BY <1>2, PacketsAt
<1>5. Packets' \in Seq(S)
  <2>1. txData' \in Seq(S)
    BY <1>1, <1>2
  <2>2. QED
    BY <1>3, <2>1, JoinIn DEF Packets
<1>6. PICK skip \in Nat : skip = d - n
  BY <1>4
<1>7. \A k \in 1..Len(Packets') : Packets'[k] = Packets[IF k <= n THEN k ELSE k + skip]
  BY <1>3, <1>6
<1>8. n \in Nat /\ n + skip <= Len(Packets) /\ Len(Packets') = Len(Packets) - skip
  BY <1>3, <1>4, <1>6
<1>9. Without(Packets, Packets', n, skip)
  BY <1>7, <1>8 DEF Without
<1>10. QED
  BY <1>4, <1>5, <1>6, <1>8, <1>9, LostStep

LEMMA FirstLost ==
  ASSUME HoustonInv, LosePacket
  PROVE  Firmware!Next
<1>1. toDevice # <<>> /\ toDevice' = Tail(toDevice) /\ txData' = txData /\ memory' = memory
  BY DEF LosePacket, Host
<1>2. PICK S : toDevice \in Seq(S) /\ txData \in Seq(S)
  BY DEF HoustonInv, SentTyped
<1>3. /\ toDevice' \in Seq(S) /\ Len(Packets') = Len(Packets) - 1
      /\ 1 \in 1..Len(Packets)
      /\ \A k \in 1..Len(Packets') : Packets'[k] = Packets[k + 1]
  BY <1>1, <1>2, AfterFirst
<1>4. Packets \in Seq(S) /\ Packets' \in Seq(S) /\ Len(Packets) \in Nat
  <2>1. txData' \in Seq(S)
    BY <1>1, <1>2
  <2>2. QED
    BY <1>2, <1>3, <2>1, PacketsAt, JoinIn DEF Packets
<1>5. PICK from \in Nat, skip \in Nat : from = 0 /\ skip = 1
  OBVIOUS
<1>6. \A k \in 1..Len(Packets') : Packets'[k] = Packets[IF k <= from THEN k ELSE k + skip]
  BY <1>3, <1>5
<1>7. from + skip <= Len(Packets) /\ Len(Packets') = Len(Packets) - skip
  BY <1>3, <1>4, <1>5
<1>8. Without(Packets, Packets', from, skip)
  BY <1>6, <1>7 DEF Without
<1>9. QED
  BY <1>1, <1>4, <1>5, <1>8, LostStep

(* The firmware takes the first packet: what it writes are the variables   *)
(* W, which the abstract receiver may write.                               *)
LEMMA FirstOfPending ==
  ASSUME HoustonInv, toDevice # <<>>, toDevice' = Tail(toDevice), txData' = txData
  PROVE  /\ 1 \in DOMAIN Pending /\ Pending[1] = AsPacket(Head(toDevice))
         /\ Pending' = SubSeq(Pending, 2, Len(Pending))
         /\ Head(toDevice) \in Sendable(memory, oldest)
<1> DEFINE S == Sendable(memory, oldest)
<1>1. toDevice \in Seq(S) /\ txData \in Seq(S)
  BY DEF HoustonInv, SentTyped
<1> HIDE DEF S
<1>2. /\ toDevice' \in Seq(S) /\ Len(Packets') = Len(Packets) - 1
      /\ 1 \in 1..Len(Packets) /\ Packets[1] = Head(toDevice)
      /\ \A k \in 1..Len(Packets') : Packets'[k] = Packets[k + 1]
  BY <1>1, AfterFirst
<1>3. Packets \in Seq(S) /\ Packets' \in Seq(S) /\ Len(Packets) \in Nat
  <2>1. txData' \in Seq(S)
    BY <1>1
  <2>2. QED
    BY <1>1, <1>2, <2>1, PacketsAt, JoinIn DEF Packets
<1>4. /\ Pending \in Seq({AsPacket(x) : x \in S}) /\ Len(Pending) = Len(Packets)
      /\ DOMAIN Pending = 1..Len(Packets)
      /\ \A i \in 1..Len(Packets) : Pending[i] = AsPacket(Packets[i])
  BY <1>3, MappedIn DEF Pending
<1>5. Pending' = SubSeq(Pending, 2, Len(Pending))
  <2> DEFINE P == {AsPacket(x) : x \in S}
             n == Len(Packets)
             t == SubSeq(Pending, 2, n)
  <2>1. n \in Nat \ {0} /\ Len(Packets') = n - 1 /\ \A i \in 2..n : Pending[i] \in P
    <3>1. \A i \in 1..n : Pending[i] \in P
      BY <1>4, AtIn
    <3>2. QED
      BY <1>2, <1>3, <3>1
  <2>2. /\ t \in Seq(P) /\ Len(t) = n - 1
        /\ \A i \in 1..(n - 1) : t[i] = Pending[i + 1]
    <3> HIDE DEF P, n
    <3>1. /\ SubSeq(Pending, 2, n) \in Seq(P)
          /\ Len(SubSeq(Pending, 2, n)) = IF 2 <= n THEN n - 2 + 1 ELSE 0
          /\ \A i \in 1..(n - 2 + 1) : SubSeq(Pending, 2, n)[i] = Pending[2 + i - 1]
      <4>1. Pending \in Seq(P) /\ n \in Nat
        BY <1>4, <2>1 DEF P
      <4>2. QED
        BY <2>1, <4>1, SubSeqProperties
    <3>2. QED
      BY <2>1, <3>1
  <2>3. /\ Mapped(Packets') \in Seq(P) /\ Len(Mapped(Packets')) = n - 1
        /\ \A i \in 1..(n - 1) : Mapped(Packets')[i] = AsPacket(Packets'[i])
    BY <1>3, <2>1, MappedIn
  <2>4. ASSUME NEW i \in 1..(n - 1) PROVE Mapped(Packets')[i] = t[i]
    <3>1. Packets'[i] = Packets[i + 1] /\ i + 1 \in 1..n
      BY <1>2, <2>1
    <3>2. QED
      BY <1>4, <2>2, <2>3, <3>1
  <2> HIDE DEF P, t, n
  <2>5. Mapped(Packets') = t
    BY <2>2, <2>3, <2>4, SeqEqual
  <2>6. Pending' = Mapped(Packets')
    BY DEF Pending, Mapped, AsPacket
  <2>7. QED
    BY <1>4, <2>5, <2>6 DEF t, n
<1>6. Head(toDevice) \in S
  BY <1>2, <1>3, AtIn
<1>7. QED
  BY <1>2, <1>4, <1>5, <1>6 DEF S

LEMMA TakenStep ==
  ASSUME HoustonInv, toDevice # <<>>, toDevice' = Tail(toDevice), txData' = txData,
         NEW W, W \in Firmware!Writes(AsPacket(Head(toDevice))),
         Cells' = [s \in DOMAIN Cells |->
                     IF s \in W THEN [Cells[s] EXCEPT !.value = AsPacket(Head(toDevice)).value]
                     ELSE Cells[s]]
  PROVE  Firmware!Next
<1>1. /\ 1 \in DOMAIN Pending /\ Pending[1] = AsPacket(Head(toDevice))
      /\ Pending' = SubSeq(Pending, 1 + 1, Len(Pending))
  BY FirstOfPending
<1> DEFINE p == Pending[1]
<1>2. W \in Firmware!Writes(p)
  BY <1>1
<1>3. Cells' = [s \in DOMAIN Cells |->
                  IF s \in W THEN [Cells[s] EXCEPT !.value = p.value] ELSE Cells[s]]
  BY <1>1
<1> HIDE DEF p
<1>4. Firmware!Take(1)
  BY <1>1, <1>2, <1>3 DEF Firmware!Take, Pending, Cells, Mapped, p
<1>5. QED
  BY <1>1, <1>4 DEF Firmware!Next, Pending, Mapped

LEMMA RequestTaken == HoustonInv /\ TakeRequest => Firmware!Next
<1> SUFFICES ASSUME HoustonInv, TakeRequest PROVE Firmware!Next
  OBVIOUS
<1> DEFINE q == AsPacket(Head(toDevice))
<1>1. /\ toDevice # <<>> /\ toDevice' = Tail(toDevice) /\ txData' = txData
      /\ Head(toDevice).type = "request" /\ memory' = memory
  BY DEF TakeRequest, Host
<1>2. q.kind = "request"
  BY <1>1 DEF AsPacket
<1> HIDE DEF q
<1>3. {} \in Firmware!Writes(q)
  BY <1>2 DEF Firmware!Writes
<1>4. Cells' = [s \in DOMAIN Cells |->
                  IF s \in {} THEN [Cells[s] EXCEPT !.value = q.value] ELSE Cells[s]]
  <2>1. Cells' = Cells
    BY <1>1 DEF Cells
  <2>2. Cells = [s \in DOMAIN Cells |-> Cells[s]]
    BY DEF Cells
  <2>3. QED
    BY <2>1, <2>2
<1>5. QED
  BY <1>1, <1>3, <1>4, TakenStep DEF q

LEMMA ModifyTaken == HoustonInv /\ TakeModify => Firmware!Next
<1> SUFFICES ASSUME HoustonInv, TakeModify PROVE Firmware!Next
  OBVIOUS
<1> DEFINE p == Head(toDevice)
           q == AsPacket(p)
           hit == p.packetID \in DOMAIN memory /\ memory[p.packetID].valueType = p.valueType
           W == IF hit THEN {p.packetID} ELSE {}
<1>1. /\ toDevice # <<>> /\ toDevice' = Tail(toDevice) /\ txData' = txData
      /\ p.type = "modify"
      /\ memory' = IF hit THEN [memory EXCEPT ![p.packetID].value = p.value] ELSE memory
  BY DEF TakeModify, Host
<1>2. p \in Modifies(memory)
  BY <1>1, FirstTaken DEF Sendable, Requests
<1>3. /\ q.kind = "modify" /\ q.packetID = p.packetID /\ q.valueType = p.valueType
      /\ q.value = p.value /\ p.valueType \in VarTypes
  BY <1>1, <1>2 DEF AsPacket, Modifies
<1>4. /\ DOMAIN Cells = DOMAIN memory
      /\ \A s \in DOMAIN memory :
           Cells[s] = [packetID |-> s, valueType |-> memory[s].valueType,
                       value |-> memory[s].value]
  BY DEF Cells
<1>5. memory \in [DOMAIN memory -> [valueType : VarTypes, value : Vals]]
  BY Unread, InMaps DEF Snapshots, Variables
<1> HIDE DEF p, q
<1>6. W \in Firmware!Writes(q)
  <2> DEFINE Named == {s \in DOMAIN Cells : Cells[s].packetID = q.packetID}
             Matching == {s \in Named : Cells[s].valueType = q.valueType}
  <2>1. Firmware!Named(q) = Named /\ Firmware!Matching(q) = Matching
    BY DEF Firmware!Named, Firmware!Matching, Cells
  <2>2. /\ \A s \in DOMAIN Cells : Cells[s].packetID = s
        /\ \A s \in DOMAIN Cells : Cells[s].valueType = memory[s].valueType
    BY <1>4
  <2>3. Matching = W
    BY <1>3, <1>4, <2>2
  <2>4. W \in SUBSET Matching
    BY <2>3
  <2> HIDE DEF Named, Matching, W
  <2>5. QED
    BY <1>3, <2>1, <2>3, <2>4 DEF Firmware!Writes
<1>7. Cells' = [s \in DOMAIN Cells |->
                  IF s \in W THEN [Cells[s] EXCEPT !.value = q.value] ELSE Cells[s]]
  <2>1. DOMAIN memory' = DOMAIN memory
    BY <1>1
  <2>2. Cells' = [s \in DOMAIN memory |->
                    [packetID |-> s, valueType |-> memory'[s].valueType,
                     value |-> memory'[s].value]]
    BY <2>1 DEF Cells
  <2>3. ASSUME NEW s \in DOMAIN memory
        PROVE  [packetID |-> s, valueType |-> memory'[s].valueType, value |-> memory'[s].value]
                 = IF s \in W THEN [Cells[s] EXCEPT !.value = q.value] ELSE Cells[s]
    <3>1. CASE s \in W
      <4>1. hit /\ s = p.packetID
        BY <3>1
      <4>2. memory'[s] = [memory[s] EXCEPT !.value = p.value]
        BY <1>1, <1>5, <4>1
      <4>3. memory'[s].valueType = memory[s].valueType /\ memory'[s].value = p.value
        BY <1>5, <4>2
      <4>4. QED
        BY <1>3, <1>4, <3>1, <4>3
    <3>2. CASE s \notin W
      <4>1. memory'[s] = memory[s]
        BY <1>1, <1>5, <3>2
      <4>2. QED
        BY <1>4, <3>2, <4>1
    <3>3. QED
      BY <3>1, <3>2
  <2> HIDE DEF W
  <2>4. QED
    BY <1>4, <2>2, <2>3, Zenon
<1> HIDE DEF W
<1>8. QED
  BY <1>1, <1>6, <1>7, TakenStep DEF p, q

LEMMA RegisterStep ==
  ASSUME NEW r \in Registered, Register(r)
  PROVE  Firmware!Next
<1> DEFINE x == r.packetID
           one == [id \in {x} |-> [valueType |-> r.valueType, value |-> 0]]
           c == [packetID |-> x, valueType |-> r.valueType, value |-> 0]
<1>1. /\ x \notin DOMAIN memory /\ memory' = Over(memory, one)
      /\ UNCHANGED <<toDevice, txData>>
  BY DEF Register, Host
<1>2. /\ DOMAIN memory' = DOMAIN memory \union {x}
      /\ \A id \in DOMAIN memory : memory'[id] = memory[id]
      /\ memory'[x] = [valueType |-> r.valueType, value |-> 0]
  BY <1>1 DEF Over
<1>3. /\ DOMAIN Cells = DOMAIN memory
      /\ \A s \in DOMAIN memory :
           Cells[s] = [packetID |-> s, valueType |-> memory[s].valueType,
                       value |-> memory[s].value]
  BY DEF Cells
<1> HIDE DEF one
<1>4. Cells' = [s \in DOMAIN Cells \union {x} |-> IF s = x THEN c ELSE Cells[s]]
  <2>1. Cells' = [s \in DOMAIN memory \union {x} |->
                    [packetID |-> s, valueType |-> memory'[s].valueType,
                     value |-> memory'[s].value]]
    BY <1>2 DEF Cells
  <2>2. ASSUME NEW s \in DOMAIN memory \union {x}
        PROVE  [packetID |-> s, valueType |-> memory'[s].valueType, value |-> memory'[s].value]
                 = IF s = x THEN c ELSE Cells[s]
    <3>1. CASE s = x
      BY <1>2, <3>1
    <3>2. CASE s # x
      BY <1>2, <1>3, <3>2
    <3>3. QED
      BY <3>1, <3>2
  <2> HIDE DEF c, x
  <2>3. QED
    BY <1>3, <2>1, <2>2, Zenon
<1>5. Pending' = Pending
  BY <1>1 DEF Pending, Packets, Mapped, AsPacket
<1>6. x \in Ids /\ r.valueType \in VarTypes /\ x \notin DOMAIN Cells
  BY <1>1, <1>3 DEF Ids, VarTypes
<1>7. Firmware!Register(x, x, r.valueType)
  <2> HIDE DEF x
  <2>1. QED
    BY <1>4, <1>5, <1>6 DEF Firmware!Register, Pending, Cells, Mapped
<1>8. QED
  BY <1>6, <1>7 DEF Firmware!Next

(* The panels' steps leave the firmware's variables alone.                 *)
LEMMA FrameKeeps == Frame => memory' = memory
<1>1. ControlRender => memory' = memory
  BY Zenon DEF ControlRender, Idle, Attach, AttachFails, Detach, Swap, Dispatch, SendData, device
<1>2. LiveRender => memory' = memory
  BY Zenon DEF LiveRender, NoClick, RefreshClick, Apply, Toggle, Edit, LiveFrame, device
<1>3. TelemetryRender \/ AlertRender => memory' = memory
  BY Zenon DEF TelemetryRender, AlertRender, device
<1>4. QED
  BY <1>1, <1>2, <1>3 DEF Frame

LEMMA SamePackets ==
  ASSUME HoustonInv, Kept \/ HandedOver, memory' = memory
  PROVE  UNCHANGED Firmware!vars
<1>1. PICK S : toDevice \in Seq(S) /\ txData \in Seq(S)
  BY DEF HoustonInv, SentTyped
<1>2. Packets' = Packets
  <2>1. CASE Kept
    BY <2>1 DEF Kept, Packets
  <2>2. CASE HandedOver
    <3>1. Packets' = Packets \o <<>> /\ Packets \in Seq(S)
      BY <1>1, <2>2, PacketsAt DEF HandedOver, Packets
    <3>2. QED
      BY <3>1, ConcatEmptySeq
  <2>3. QED
    BY <2>1, <2>2
<1>3. QED
  BY <1>2 DEF Firmware!vars, AsPacket

LEMMA HostStep ==
  ASSUME HoustonInv, HoustonInv', [Next]_vars
  PROVE  [Firmware!Next]_(Firmware!vars)
<1>1. CASE UNCHANGED vars
  BY <1>1, SamePackets DEF vars, device, counts, Kept
<1>2. CASE Frame
  <2>1. memory' = memory
    BY <1>2, FrameKeeps
  <2>2. Kept \/ HandedOver \/ Queued \/ CutOff
    <3>1. TelemetryRender \/ AlertRender => Kept
      BY Zenon DEF TelemetryRender, AlertRender, device, counts, Kept
    <3>2. QED
      BY <1>2, <3>1, ControlSteps, LiveSteps DEF Frame
  <2>3. QED
    BY <2>1, <2>2, SamePackets, Submitted, Truncated
<1>3. CASE Take
  BY <1>3, RequestTaken, ModifyTaken DEF Take
<1>4. CASE LosePacket
  BY <1>4, FirstLost
<1>5. CASE DeviceSends
  BY <1>5, SamePackets DEF DeviceSends, Host, counts, Kept
<1>6. ASSUME NEW r \in Registered, Register(r) PROVE Firmware!Next
  BY <1>6, RegisterStep
<1>7. QED
  BY <1>1, <1>2, <1>3, <1>4, <1>5, <1>6 DEF Next

LEMMA HostInit == Init => Firmware!Init
<1> SUFFICES ASSUME Init PROVE Firmware!Init
  OBVIOUS
<1>1. toDevice = <<>> /\ txData = <<>> /\ memory = EmptyMap
  BY DEF Init
<1>2. Pending = <<>>
  <2>1. toDevice \in Seq({}) /\ txData \in Seq({}) /\ Len(<<>>) = 0
    BY <1>1, EmptySeq
  <2>2. Packets \in Seq({}) /\ Len(Packets) = 0
    BY <1>1, <2>1, PacketsAt
  <2>3. Pending \in Seq({AsPacket(x) : x \in {}}) /\ Len(Pending) = 0
    BY <2>2, MappedIn DEF Pending
  <2>4. QED
    BY <2>3, AtIn
<1>3. Cells = [s \in {} |-> 0]
  <2>1. DOMAIN memory = {}
    BY <1>1 DEF EmptyMap
  <2>2. QED
    BY <2>1 DEF Cells
<1>4. QED
  BY <1>2, <1>3 DEF Firmware!Init, Pending, Cells, Mapped

(* The host and the line implement the abstract receiver: a click submits, *)
(* Detach and the losses drop packets that follow each other, the firmware *)
(* takes the first with its own effect, and every other step is a stutter. *)
THEOREM ImplementsReceiverAlways == Spec => ImplementsReceiver
  BY HostInit, HostStep, InvInit, InvNext, PTL DEF Spec, ImplementsReceiver, Firmware!Spec
=============================================================================
