-------------------------- MODULE SerialLinkProofs --------------------------
(***************************************************************************)
(* The producer implements the abstract link of SerialLink, for every      *)
(* capacity and every number of frames and packets.                        *)
(***************************************************************************)
EXTENDS SerialProducerProofs

(* The link's variables as the producer's state gives them.                *)
LinkOffered == IF io \in {"received", "push"} THEN taken - 1 ELSE taken
LinkInbox   == (IF ui = "swapping" THEN <<>> ELSE batch) \o rx_queue_
Unposted    == SubSeq(txData, next + 1, Len(txData))
LinkOutbox  == tx_queue_ \o posted \o Unposted

(* Once stop() has returned the io thread is gone for good.                *)
ExitedWhenStopped == ui = "stopped" => io = "exited"

LinkInv == TypedTx /\ TypedRx /\ ExitedWhenStopped

-----------------------------------------------------------------------------
(* Sequence algebra: moving an element over a seam changes nothing, and a  *)
(* concatenation grows at the end of its last part and shrinks at the      *)
(* front of its first.                                                     *)
LEMMA Regroup ==
  \A s, t, u \in Seq(Nat) : (s \o t) \o u = s \o (t \o u)
  BY ConcatAssociative

LEMMA AppendOverSeam ==
  ASSUME NEW s \in Seq(Nat), NEW t \in Seq(Nat), NEW x \in Nat
  PROVE  s \o Append(t, x) = Append(s \o t, x)
<1>1. <<x>> \in Seq(Nat) /\ s \o t \in Seq(Nat)
  BY ConcatProperties
<1>2. Append(t, x) = t \o <<x>> /\ Append(s \o t, x) = (s \o t) \o <<x>>
  BY <1>1, AppendIsConcat
<1>3. QED
  BY <1>1, <1>2, Regroup

LEMMA FrontOfConcat ==
  ASSUME NEW s \in Seq(Nat), NEW t \in Seq(Nat), s # <<>>
  PROVE  /\ s \o t \in Seq(Nat) /\ s \o t # <<>>
         /\ Head(s \o t) = Head(s)
         /\ Tail(s \o t) = Tail(s) \o t
<1>1. /\ s \o t \in Seq(Nat) /\ Len(s \o t) = Len(s) + Len(t)
      /\ \A i \in 1..Len(s) + Len(t) :
            (s \o t)[i] = IF i <= Len(s) THEN s[i] ELSE t[i - Len(s)]
  BY ConcatProperties
<1>2. /\ Tail(s) \in Seq(Nat) /\ Len(s) \in Nat \ {0}
      /\ Len(Tail(s)) = Len(s) - 1 /\ Head(s) = s[1]
      /\ \A i \in 1..Len(Tail(s)) : Tail(s)[i] = s[i + 1]
  BY TailNat
<1>3. Len(t) \in Nat
  BY LenNat
<1>4. s \o t # <<>>
  BY <1>1, <1>2, <1>3, EmptyNat
<1>5. /\ Tail(s \o t) \in Seq(Nat)
      /\ Len(Tail(s \o t)) = Len(s \o t) - 1 /\ Head(s \o t) = (s \o t)[1]
      /\ \A i \in 1..Len(Tail(s \o t)) : Tail(s \o t)[i] = (s \o t)[i + 1]
  BY <1>1, <1>4, TailNat
<1>6. Head(s \o t) = Head(s)
  BY <1>1, <1>2, <1>3, <1>5
<1>7. /\ Tail(s) \o t \in Seq(Nat)
      /\ Len(Tail(s) \o t) = Len(Tail(s)) + Len(t)
      /\ \A i \in 1..Len(Tail(s)) + Len(t) :
            (Tail(s) \o t)[i] = IF i <= Len(Tail(s)) THEN Tail(s)[i]
                                ELSE t[i - Len(Tail(s))]
  BY <1>2, ConcatProperties
<1>8. Len(Tail(s \o t)) = Len(Tail(s) \o t)
  BY <1>1, <1>2, <1>3, <1>5, <1>7
<1>9. ASSUME NEW i \in 1..Len(Tail(s \o t))
      PROVE  Tail(s \o t)[i] = (Tail(s) \o t)[i]
  <2> DEFINE n == Len(s)
             m == Len(t)
  <2>1. n \in Nat \ {0} /\ m \in Nat /\ i \in 1..(n - 1) + m
    BY <1>1, <1>2, <1>3, <1>5
  <2>2. Tail(s \o t)[i] = IF i + 1 <= n THEN s[i + 1] ELSE t[i + 1 - n]
    <3>1. Tail(s \o t)[i] = (s \o t)[i + 1]
      BY <1>5
    <3>2. i + 1 \in 1..n + m
      BY <2>1
    <3>3. QED
      BY <1>1, <3>1, <3>2
  <2>3. (Tail(s) \o t)[i] = IF i <= n - 1 THEN Tail(s)[i] ELSE t[i - (n - 1)]
    BY <1>2, <1>7, <2>1
  <2>4. CASE i <= n - 1
    BY <1>2, <2>1, <2>2, <2>3, <2>4
  <2>5. CASE ~(i <= n - 1)
    <3>1. i + 1 - n = i - (n - 1) /\ ~(i + 1 <= n)
      BY <2>1, <2>5
    <3>2. QED
      BY <2>2, <2>3, <2>5, <3>1
  <2>6. QED
    BY <2>4, <2>5
<1>10. Tail(s \o t) = Tail(s) \o t
  BY <1>5, <1>7, <1>8, <1>9, SeqEqual
<1>11. QED
  BY <1>1, <1>4, <1>6, <1>10

LEMMA MoveOverSeam ==
  ASSUME NEW s \in Seq(Nat), NEW t \in Seq(Nat), t # <<>>
  PROVE  Append(s, Head(t)) \o Tail(t) = s \o t
<1>1. Head(t) \in Nat /\ Tail(t) \in Seq(Nat) /\ <<Head(t)>> \in Seq(Nat)
  BY TailNat
<1>2. Append(s, Head(t)) = s \o <<Head(t)>>
  BY <1>1, AppendIsConcat
<1>3. t = <<Head(t)>> \o Tail(t)
  <2>1. /\ Len(t) \in Nat \ {0} /\ 1 \in 1..Len(t) /\ Len(t) \in 1..Len(t)
        /\ Head(t) = t[1]
    BY TailNat
  <2>2. SubSeq(t, 1, Len(t)) = <<t[1]>> \o SubSeq(t, 1 + 1, Len(t))
    BY <2>1, SubSeqRecursiveFirst
  <2>3. SubSeq(t, 1, Len(t)) = t /\ Tail(t) = SubSeq(t, 2, Len(t))
    BY SubSeqFull, TailIsSubSeq
  <2>4. QED
    BY <2>1, <2>2, <2>3
<1>4. (s \o <<Head(t)>>) \o Tail(t) = s \o (<<Head(t)>> \o Tail(t))
  BY <1>1, Regroup
<1>5. QED
  BY <1>2, <1>3, <1>4

LEMMA ElementOverSeams ==
  ASSUME NEW q \in Seq(Nat), NEW p \in Seq(Nat), NEW u \in Seq(Nat),
         NEW x \in Nat
  PROVE  (q \o Append(p, x)) \o u = (q \o p) \o (<<x>> \o u)
<1>1. <<x>> \in Seq(Nat) /\ q \o p \in Seq(Nat)
  BY ConcatProperties
<1>2. q \o Append(p, x) = (q \o p) \o <<x>>
  BY <1>1, AppendOverSeam, AppendIsConcat
<1>3. ((q \o p) \o <<x>>) \o u = (q \o p) \o (<<x>> \o u)
  BY <1>1, Regroup, Zenon
<1>4. QED
  BY <1>2, <1>3

-----------------------------------------------------------------------------
(* The waiting part of txData is a sequence, shrinks at its front when a   *)
(* packet is posted and grows at its end when a panel queues one.          *)
LEMMA SubSeqNat ==
  ASSUME NEW s, NEW m \in Int, NEW n \in Int, \A i \in m..n : s[i] \in Nat
  PROVE  /\ SubSeq(s, m, n) \in Seq(Nat)
         /\ Len(SubSeq(s, m, n)) = IF m <= n THEN n - m + 1 ELSE 0
         /\ \A i \in 1..n - m + 1 : SubSeq(s, m, n)[i] = s[m + i - 1]
  BY SubSeqProperties

LEMMA RestOfSeq ==
  ASSUME NEW d \in Seq(Nat), NEW n \in Nat, n <= Len(d)
  PROVE  LET rest == SubSeq(d, n + 1, Len(d)) IN
         /\ rest \in Seq(Nat) /\ Len(rest) = Len(d) - n
         /\ \A i \in 1..Len(d) - n : rest[i] = d[n + i]
<1> DEFINE m == n + 1
           l == Len(d)
           rest == SubSeq(d, m, l)
<1>1. l \in Nat /\ l = Len(d) /\ m \in Int /\ m = n + 1
  BY LenNat
<1>2. \A i \in m..l : d[i] \in Nat
  BY <1>1, LenNat
<1> HIDE DEF m, l
<1>3. /\ rest \in Seq(Nat)
      /\ Len(rest) = IF m <= l THEN l - m + 1 ELSE 0
      /\ \A i \in 1..l - m + 1 : rest[i] = d[m + i - 1]
  BY <1>1, <1>2, SubSeqNat
<1> HIDE DEF rest
<1>4. Len(rest) = Len(d) - n
  BY <1>1, <1>3
<1>5. \A i \in 1..Len(d) - n : rest[i] = d[n + i]
  <2> TAKE i \in 1..Len(d) - n
  <2>1. i \in 1..l - m + 1 /\ m + i - 1 = n + i
    BY <1>1
  <2>2. QED
    BY <1>3, <2>1
<1>6. QED
  BY <1>3, <1>4, <1>5 DEF rest, m, l

LEMMA UnpostedPostPacket ==
  ASSUME TypeOK, TxInOrder, PostPacket
  PROVE  /\ txData[next + 1] \in Nat
         /\ Unposted' \in Seq(Nat)
         /\ Unposted = <<txData[next + 1]>> \o Unposted'
<1>1. next \in Nat /\ Len(txData) \in Nat /\ txData \in Seq(Nat)
      /\ next < Len(txData) /\ next' = next + 1 /\ txData' = txData
  BY TxLengths DEF PostPacket
<1>2. next + 1 \in 1..Len(txData) /\ Len(txData) \in (next + 1)..Len(txData)
  BY <1>1
<1>3. SubSeq(txData, next + 1, Len(txData))
        = <<txData[next + 1]>> \o SubSeq(txData, (next + 1) + 1, Len(txData))
  BY <1>1, <1>2, SubSeqRecursiveFirst
<1>4. txData[next + 1] \in Nat
  BY <1>1, <1>2, LenNat
<1>5. SubSeq(txData, (next + 1) + 1, Len(txData)) \in Seq(Nat)
  <2>1. \A i \in ((next + 1) + 1)..Len(txData) : txData[i] \in Nat
    BY <1>1, LenNat
  <2>2. QED
    BY <1>1, <2>1, SubSeqProperties
<1>6. QED
  BY <1>1, <1>3, <1>4, <1>5 DEF Unposted

LEMMA UnpostedSendData ==
  ASSUME TypeOK, TypeOK', TxInOrder, TxInOrder', SendData
  PROVE  Unposted' = Append(Unposted, sent + 1)
<1> DEFINE k == Len(txData) - next
<1>1. /\ next \in Nat /\ Len(txData) \in Nat /\ txData \in Seq(Nat)
      /\ next <= Len(txData) /\ sent + 1 \in Nat
      /\ k \in Nat /\ k = Len(txData) - next
  BY TxLengths DEF TxInOrder
<1> HIDE DEF k
<1>2. /\ Len(txData') = Len(txData) + 1
      /\ \A i \in 1..Len(txData) : txData'[i] = txData[i]
      /\ txData'[Len(txData) + 1] = sent + 1 /\ next' = next
  BY <1>1, AppendNat DEF SendData
<1>3. /\ Unposted \in Seq(Nat) /\ Len(Unposted) = k
      /\ \A i \in 1..k : Unposted[i] = txData[next + i]
  BY <1>1, RestOfSeq DEF Unposted
<1>4. /\ Unposted' \in Seq(Nat) /\ Len(Unposted') = Len(txData') - next'
      /\ \A i \in 1..Len(txData') - next' : Unposted'[i] = txData'[next' + i]
  <2>1. next' <= Len(txData')
    BY <1>1, <1>2
  <2>2. txData' \in Seq(Nat) /\ next' \in Nat
    BY DEF TypeOK
  <2>3. QED
    BY <2>1, <2>2, RestOfSeq DEF Unposted
<1>5. /\ Append(Unposted, sent + 1) \in Seq(Nat)
      /\ Len(Append(Unposted, sent + 1)) = k + 1
      /\ \A i \in 1..k : Append(Unposted, sent + 1)[i] = Unposted[i]
      /\ Append(Unposted, sent + 1)[k + 1] = sent + 1
  BY <1>1, <1>3, AppendNat
<1>6. Len(Unposted') = k + 1
  BY <1>1, <1>2, <1>4
<1>7. ASSUME NEW i \in 1..Len(Unposted')
      PROVE  Unposted'[i] = Append(Unposted, sent + 1)[i]
  <2>1. Unposted'[i] = txData'[next + i]
    BY <1>2, <1>4
  <2>2. CASE i \in 1..k
    <3>1. next + i \in 1..Len(txData)
      BY <1>1, <2>2
    <3>2. QED
      BY <1>2, <1>3, <1>5, <2>1, <2>2, <3>1
  <2>3. CASE i = k + 1
    <3>1. next + i = Len(txData) + 1
      BY <1>1, <2>3
    <3>2. QED
      BY <1>2, <1>5, <2>1, <2>3, <3>1
  <2>4. i \in 1..k \/ i = k + 1
    <3>1. i \in 1..k + 1
      BY <1>6
    <3>2. QED
      BY <1>1, <3>1
  <2>5. QED
    BY <2>2, <2>3, <2>4, Zenon
<1>8. Len(Unposted') = Len(Append(Unposted, sent + 1))
  BY <1>5, <1>6, Zenon
<1>9. QED
  BY <1>4, <1>5, <1>7, <1>8, SeqEqual, Zenon

-----------------------------------------------------------------------------
(* The types of the mapped queues.                                         *)
LEMMA LinkTypes ==
  ASSUME TypeOK, TxInOrder
  PROVE  /\ LinkInbox \in Seq(Nat)
         /\ Unposted \in Seq(Nat) /\ posted \o Unposted \in Seq(Nat)
         /\ tx_queue_ \o posted \in Seq(Nat)
         /\ LinkOutbox \in Seq(Nat)
         /\ LinkOutbox = tx_queue_ \o (posted \o Unposted)
<1>1. batch \in Seq(Nat) /\ rx_queue_ \in Seq(Nat) /\ <<>> \in Seq(Nat)
  BY RxLengths, EmptyNat
<1>2. LinkInbox \in Seq(Nat)
  BY <1>1, ConcatProperties DEF LinkInbox
<1>3. /\ txData \in Seq(Nat) /\ posted \in Seq(Nat) /\ tx_queue_ \in Seq(Nat)
      /\ next \in Nat /\ next <= Len(txData)
  BY TxLengths DEF TxInOrder
<1>4. Unposted \in Seq(Nat)
  BY <1>3, RestOfSeq DEF Unposted
<1>5. posted \o Unposted \in Seq(Nat) /\ tx_queue_ \o posted \in Seq(Nat)
  BY <1>3, <1>4, ConcatProperties
<1>6. LinkOutbox = tx_queue_ \o (posted \o Unposted)
  BY <1>3, <1>4, Regroup DEF LinkOutbox
<1>7. tx_queue_ \o (posted \o Unposted) \in Seq(Nat)
  BY <1>3, <1>5, ConcatProperties
<1>8. QED
  BY <1>2, <1>4, <1>5, <1>6, <1>7

(* Packets on their way out: only a panel, a completed write change them.  *)
LEMMA PostPacketOut ==
  ASSUME TypeOK, TxInOrder, TxInOrder', PostPacket
  PROVE  LinkOutbox' = LinkOutbox
<1>1. /\ txData[next + 1] \in Nat /\ Unposted' \in Seq(Nat)
      /\ Unposted = <<txData[next + 1]>> \o Unposted'
  BY UnpostedPostPacket
<1>2. /\ posted \in Seq(Nat) /\ tx_queue_ \in Seq(Nat)
      /\ posted' = Append(posted, txData[next + 1]) /\ tx_queue_' = tx_queue_
  BY TxLengths DEF PostPacket
<1>3. LinkOutbox' = (tx_queue_ \o Append(posted, txData[next + 1])) \o Unposted'
  BY <1>2 DEF LinkOutbox
<1>4. LinkOutbox = (tx_queue_ \o posted) \o (<<txData[next + 1]>> \o Unposted')
  BY <1>1 DEF LinkOutbox
<1>5. QED
  BY <1>1, <1>2, <1>3, <1>4, ElementOverSeams

LEMMA SendDataEndOut ==
  ASSUME TypeOK, SendDataEnd
  PROVE  LinkOutbox' = LinkOutbox
<1>1. next \in Nat /\ Len(txData) \in Nat /\ next = Len(txData)
      /\ next' = 0 /\ txData' = <<>> /\ Len(txData') = 0
      /\ UNCHANGED <<posted, tx_queue_>>
  BY TxLengths, EmptyNat DEF SendDataEnd
<1>2. Unposted = <<>>
  <2>1. next + 1 \in Int /\ Len(txData) \in Int /\ Len(txData) < next + 1
    BY <1>1
  <2>2. QED
    BY <2>1, SubSeqEmpty DEF Unposted
<1>3. Unposted' = <<>>
  <2>1. SubSeq(txData', 1, 0) = <<>>
    BY SubSeqEmpty
  <2>2. Unposted' = SubSeq(txData', 0 + 1, 0)
    BY <1>1 DEF Unposted
  <2>3. QED
    BY <2>1, <2>2
<1>4. QED
  BY <1>1, <1>2, <1>3 DEF LinkOutbox

LEMMA SendDataOut ==
  ASSUME TypeOK, TypeOK', TxInOrder, TxInOrder', SendData
  PROVE  LinkOutbox' = Append(LinkOutbox, sent + 1)
<1>1. Unposted' = Append(Unposted, sent + 1)
  BY UnpostedSendData
<1>2. /\ sent + 1 \in Nat /\ Unposted \in Seq(Nat)
      /\ tx_queue_ \o posted \in Seq(Nat)
      /\ UNCHANGED <<posted, tx_queue_>>
  BY LinkTypes, TxLengths DEF SendData
<1>3. QED
  BY <1>1, <1>2, AppendOverSeam DEF LinkOutbox

LEMMA RunPostedOut ==
  ASSUME TypeOK, TxInOrder, RunPosted
  PROVE  LinkOutbox' = LinkOutbox
<1>1. /\ posted \in Seq(Nat) /\ posted # <<>> /\ tx_queue_ \in Seq(Nat)
      /\ posted' = Tail(posted) /\ tx_queue_' = Append(tx_queue_, Head(posted))
      /\ UNCHANGED <<txData, next>>
  BY TxLengths DEF RunPosted
<1>2. tx_queue_' \o posted' = tx_queue_ \o posted
  BY <1>1, MoveOverSeam
<1>3. QED
  BY <1>1, <1>2 DEF LinkOutbox, Unposted

LEMMA WriteDoneOut ==
  ASSUME TypeOK, SingleWrite, TxInOrder, TxInOrder', WriteDone
  PROVE  /\ LinkOutbox # <<>>
         /\ written' = Append(written, Head(LinkOutbox))
         /\ LinkOutbox' = Tail(LinkOutbox)
<1> DEFINE rest == posted \o Unposted
<1>1. /\ tx_queue_ \in Seq(Nat) /\ tx_queue_ # <<>>
      /\ rest \in Seq(Nat) /\ LinkOutbox = tx_queue_ \o rest
      /\ posted \in Seq(Nat) /\ Unposted \in Seq(Nat)
  BY LinkTypes, TxLengths DEF WriteDone, SingleWrite
<1>2. /\ written' = Append(written, Head(tx_queue_))
      /\ tx_queue_' = Tail(tx_queue_) /\ Tail(tx_queue_) \in Seq(Nat)
      /\ UNCHANGED <<posted, txData, next>>
  BY <1>1, TailNat DEF WriteDone, SingleWrite
<1>3. LinkOutbox' = Tail(tx_queue_) \o rest
  <2>1. LinkOutbox' = (Tail(tx_queue_) \o posted) \o Unposted
    BY <1>2 DEF LinkOutbox, Unposted
  <2>2. (Tail(tx_queue_) \o posted) \o Unposted
          = Tail(tx_queue_) \o (posted \o Unposted)
    BY <1>1, <1>2, Regroup
  <2>3. QED
    BY <2>1, <2>2
<1> HIDE DEF rest
<1>4. /\ tx_queue_ \o rest # <<>> /\ Head(tx_queue_ \o rest) = Head(tx_queue_)
      /\ Tail(tx_queue_ \o rest) = Tail(tx_queue_) \o rest
  BY <1>1, FrontOfConcat
<1>5. LinkOutbox # <<>> /\ Head(LinkOutbox) = Head(tx_queue_)
  BY <1>1, <1>4
<1>6. Tail(LinkOutbox) = Tail(tx_queue_) \o rest
  BY <1>1, <1>4
<1>7. QED
  BY <1>2, <1>3, <1>5, <1>6, Zenon

-----------------------------------------------------------------------------
(* Frames on their way in: only the dispatcher and the read handler change *)
(* them; the two halves of the swap move them between two places.          *)
LEMMA SwapOutIn ==
  ASSUME TypeOK, BatchShape, SwapOut
  PROVE  LinkInbox' = LinkInbox
<1>1. batch = <<>> /\ ui # "swapping" /\ ui' = "swapping" /\ rx_queue_' = rx_queue_
  BY DEF SwapOut, BatchShape
<1>2. QED
  BY <1>1 DEF LinkInbox

LEMMA SwapInIn ==
  ASSUME TypeOK, BatchShape, SwapIn
  PROVE  LinkInbox' = LinkInbox
<1>1. /\ ui = "swapping" /\ ui' # "swapping" /\ batch' = batch
      /\ batch = rx_queue_ /\ rx_queue_' = <<>> /\ batch \in Seq(Nat)
  BY RxLengths DEF SwapIn, BatchShape
<1>2. LinkInbox = <<>> \o batch /\ LinkInbox' = batch \o <<>>
  BY <1>1 DEF LinkInbox
<1>3. <<>> \o batch = batch /\ batch \o <<>> = batch
  BY <1>1, ConcatEmptySeq
<1>4. QED
  BY <1>2, <1>3

LEMMA DispatchIn ==
  ASSUME TypeOK, Dispatch
  PROVE  /\ LinkInbox # <<>>
         /\ dispatched' = Append(dispatched, Head(LinkInbox))
         /\ LinkInbox' = Tail(LinkInbox)
<1>1. /\ LinkInbox = batch \o rx_queue_
      /\ LinkInbox' = Tail(batch) \o rx_queue_
      /\ dispatched' = Append(dispatched, Head(batch))
      /\ batch # <<>> /\ batch \in Seq(Nat) /\ rx_queue_ \in Seq(Nat)
  BY RxLengths DEF Dispatch, LinkInbox
<1>2. /\ batch \o rx_queue_ # <<>> /\ Head(batch \o rx_queue_) = Head(batch)
      /\ Tail(batch \o rx_queue_) = Tail(batch) \o rx_queue_
  BY <1>1, FrontOfConcat
<1>3. QED
  BY <1>1, <1>2

(* The read handler holds the lock, so no swap is half done; a full        *)
(* rx_queue_ is a full inbox.                                              *)
LEMMA PushIn ==
  ASSUME TypeOK, LockHeld, Push
  PROVE  /\ LinkOffered = taken - 1 /\ LinkOffered' = taken
         /\ \/ LinkInbox' = Append(LinkInbox, taken)
            \/ LinkInbox' = LinkInbox /\ Len(LinkInbox) >= RX_CAPACITY
<1>1. /\ ui # "swapping" /\ io = "push" /\ io' = "rearm"
      /\ UNCHANGED <<ui, taken, batch>>
  BY DEF Push, LockHeld
<1>2. /\ batch \in Seq(Nat) /\ rx_queue_ \in Seq(Nat) /\ taken \in Nat
      /\ Len(batch) \in Nat /\ Len(rx_queue_) \in Nat
  BY RxLengths
<1>3. LinkInbox = batch \o rx_queue_ /\ LinkInbox' = batch \o rx_queue_'
  BY <1>1 DEF LinkInbox
<1>4. ASSUME rx_queue_' = Append(rx_queue_, taken)
      PROVE  LinkInbox' = Append(LinkInbox, taken)
  BY <1>2, <1>3, <1>4, AppendOverSeam
<1>5. ASSUME ~HasRoom, rx_queue_' = rx_queue_
      PROVE  LinkInbox' = LinkInbox /\ Len(LinkInbox) >= RX_CAPACITY
  <2>1. Len(batch \o rx_queue_) = Len(batch) + Len(rx_queue_)
    BY <1>2, ConcatProperties
  <2>2. Len(LinkInbox) >= RX_CAPACITY
    BY <1>2, <1>3, <1>5, <2>1, CapacityAssumption DEF HasRoom, CapacityAssumption
  <2>3. QED
    BY <1>3, <1>5, <2>2
<1>6. \/ LinkInbox' = Append(LinkInbox, taken)
      \/ LinkInbox' = LinkInbox /\ Len(LinkInbox) >= RX_CAPACITY
  BY <1>4, <1>5 DEF Push
<1>7. LinkOffered = taken - 1 /\ LinkOffered' = taken
  BY <1>1 DEF LinkOffered
<1>8. QED
  BY <1>6, <1>7

-----------------------------------------------------------------------------
(* The invariant of the refinement.                                        *)
LEMMA ExitedNext ==
  ASSUME ExitedWhenStopped, LockHeld, [Next]_vars
  PROVE  ExitedWhenStopped'
<1> USE DEF ExitedWhenStopped, LockHeld, rxVars, txVars
<1>1. CASE UIStep
  BY <1>1 DEF UIStep, KeepAttached, ProduceLock, ProduceEmpty, SwapOut,
              SwapIn, Dispatch, DispatchEnd, PostPacket, SendDataEnd,
              PanelsEnd, StopJoined
<1>2. CASE UserStep
  BY <1>2 DEF UserStep, Start, Stop, SendData
<1>3. CASE ReadStep \/ RxHandler
  BY <1>3 DEF ReadStep, ReadFrame, ReadEmpty, ReadError, BetweenHandlers,
              RxHandler, PushLock, Push, StartRead
<1>4. CASE RunPosted \/ WriteStep \/ RunReturns
  BY <1>4 DEF RunPosted, WriteStep, WriteDone, WriteError, BetweenHandlers,
              RunReturns
<1>5. CASE UNCHANGED vars
  BY <1>5 DEF vars
<1>6. QED
  BY <1>1, <1>2, <1>3, <1>4, <1>5 DEF Next, Deleted

LEMMA LinkInvInit == Init => LinkInv
<1>1. Init => TxInOrder
  BY EmptyNat DEF Init, TxInOrder
<1>2. Init => ExitedWhenStopped
  BY DEF Init, ExitedWhenStopped
<1>3. QED
  BY <1>1, <1>2, TypedWritesInit, TypedRxInit DEF LinkInv, TypedTx

LEMMA LinkInvNext == LinkInv /\ [Next]_vars => LinkInv'
  BY TypedTxNext, TypedRxNext, ExitedNext DEF LinkInv, TypedRx, RxInv

(* The mapped state of the link, unchanged.                                *)
LEMMA LinkKept ==
  ASSUME LinkOffered' = LinkOffered, LinkInbox' = LinkInbox,
         LinkOutbox' = LinkOutbox,
         UNCHANGED <<dispatched, written, sent>>,
         ui' = ui \/ "stopped" \notin {ui, ui'}
  PROVE  UNCHANGED Link!vars
<1>1. (ui' = "stopped") = (ui = "stopped")
  OBVIOUS
<1>2. QED
  BY <1>1 DEF Link!vars, LinkOffered, LinkInbox, LinkOutbox, Unposted

(* Steps that change no place or queue the link sees.                      *)
LEMMA LinkUntouched ==
  ASSUME UNCHANGED <<taken, rx_queue_, batch, dispatched, txVars>>,
         ui' = ui \/ {"stopped", "swapping"} \cap {ui, ui'} = {},
         io' = io \/ {"received", "push"} \cap {io, io'} = {}
                 \/ {io, io'} \subseteq {"received", "push"}
  PROVE  UNCHANGED Link!vars
<1>1. LinkOffered' = LinkOffered /\ LinkInbox' = LinkInbox
  BY DEF LinkOffered, LinkInbox
<1>2. LinkOutbox' = LinkOutbox /\ UNCHANGED <<dispatched, written, sent>>
  BY DEF LinkOutbox, Unposted, txVars
<1>3. QED
  BY <1>1, <1>2, LinkKept

(* Every step of the two threads is a step of the link or none.            *)
LEMMA LinkStep == LinkInv /\ LinkInv' /\ [Next]_vars => [Link!Next]_(Link!vars)
<1> SUFFICES ASSUME LinkInv, LinkInv', [Next]_vars
             PROVE  Link!Next \/ UNCHANGED Link!vars
  OBVIOUS
<1>a. /\ TypeOK /\ SingleWrite /\ TxInOrder /\ LockHeld /\ BatchShape
      /\ TypeOK' /\ TxInOrder'
      /\ ui = "stopped" => io = "exited"
  BY DEF LinkInv, TypedTx, TypedRx, TypedWrites, RxInv, ExitedWhenStopped
<1> USE DEF rxVars, txVars, BetweenHandlers
<1>1. CASE KeepAttached \/ ProduceLock \/ ProduceEmpty \/ DispatchEnd
             \/ PanelsEnd \/ Start \/ Stop
  BY <1>1, LinkUntouched DEF KeepAttached, ProduceLock, ProduceEmpty,
     DispatchEnd, PanelsEnd, Start, Stop
<1>2. CASE ReadEmpty \/ ReadError \/ PushLock \/ StartRead \/ RunReturns
  BY <1>2, LinkUntouched DEF ReadEmpty, ReadError, PushLock, StartRead,
     RunReturns
<1>3. CASE SwapOut
  <2>1. LinkOffered' = LinkOffered /\ LinkOutbox' = LinkOutbox
    BY <1>3 DEF SwapOut, LinkOffered, LinkOutbox, Unposted
  <2>2. QED
    BY <1>a, <1>3, <2>1, SwapOutIn, LinkKept DEF SwapOut
<1>4. CASE SwapIn
  <2>1. LinkOffered' = LinkOffered /\ LinkOutbox' = LinkOutbox
    BY <1>4 DEF SwapIn, LinkOffered, LinkOutbox, Unposted
  <2>2. QED
    BY <1>a, <1>4, <2>1, SwapInIn, LinkKept DEF SwapIn
<1>5. CASE Dispatch
  <2>1. /\ LinkOffered' = LinkOffered /\ LinkOutbox' = LinkOutbox
        /\ UNCHANGED <<ui, written, sent>> /\ ui # "stopped"
    BY <1>5 DEF Dispatch, LinkOffered, LinkOutbox, Unposted
  <2>2. Link!Deliver
    BY <1>a, <1>5, <2>1, DispatchIn
    DEF Link!Deliver, LinkOffered, LinkInbox, LinkOutbox, Unposted
  <2>3. QED
    BY <2>2 DEF Link!Next
<1>6. CASE ReadFrame
  <2>1. /\ LinkInbox' = LinkInbox /\ LinkOutbox' = LinkOutbox
        /\ UNCHANGED <<ui, dispatched, written, sent>>
    BY <1>6 DEF ReadFrame, LinkInbox, LinkOutbox, Unposted
  <2>2. LinkOffered' = LinkOffered
    <3>1. taken \in Nat /\ taken' = taken + 1 /\ io = "run" /\ io' = "received"
      BY <1>a, <1>6, RxLengths DEF ReadFrame
    <3>2. QED
      BY <3>1 DEF LinkOffered
  <2>3. QED
    BY <2>1, <2>2, LinkKept
<1>7. CASE Push
  <2>1. /\ LinkOutbox' = LinkOutbox /\ io = "push" /\ taken \in Nat
        /\ UNCHANGED <<ui, dispatched, written, sent>> /\ ui # "stopped"
    BY <1>a, <1>7, RxLengths DEF Push, LinkOutbox, Unposted
  <2>2. LinkOffered' = LinkOffered + 1 /\ LinkOffered + 1 = taken
    BY <1>a, <1>7, <2>1, PushIn
  <2>3. CASE LinkInbox' = Append(LinkInbox, taken)
    <3>1. Link!Accept
      BY <2>1, <2>2, <2>3
      DEF Link!Accept, LinkOffered, LinkInbox, LinkOutbox, Unposted
    <3>2. QED
      BY <3>1 DEF Link!Next
  <2>4. CASE LinkInbox' = LinkInbox /\ Len(LinkInbox) >= RX_CAPACITY
    <3>1. Link!Discard
      BY <2>1, <2>2, <2>4
      DEF Link!Discard, LinkOffered, LinkInbox, LinkOutbox, Unposted
    <3>2. QED
      BY <3>1 DEF Link!Next
  <2>5. QED
    BY <1>a, <1>7, <2>3, <2>4, PushIn
<1>8. CASE PostPacket
  <2>1. LinkOffered' = LinkOffered /\ LinkInbox' = LinkInbox
    BY <1>8 DEF PostPacket, LinkOffered, LinkInbox
  <2>2. QED
    BY <1>a, <1>8, <2>1, PostPacketOut, LinkKept DEF PostPacket
<1>9. CASE SendDataEnd
  <2>1. LinkOffered' = LinkOffered /\ LinkInbox' = LinkInbox
    BY <1>9 DEF SendDataEnd, LinkOffered, LinkInbox
  <2>2. QED
    BY <1>a, <1>9, <2>1, SendDataEndOut, LinkKept DEF SendDataEnd
<1>10. CASE SendData
  <2>1. /\ LinkOffered' = LinkOffered /\ LinkInbox' = LinkInbox
        /\ UNCHANGED <<ui, dispatched, written>> /\ sent' = sent + 1
    BY <1>10 DEF SendData, LinkOffered, LinkInbox
  <2>2. Link!Submit
    BY <1>a, <1>10, <2>1, SendDataOut
    DEF Link!Submit, LinkOffered, LinkInbox, LinkOutbox, Unposted
  <2>3. QED
    BY <2>2 DEF Link!Next
<1>11. CASE RunPosted
  <2>1. LinkOffered' = LinkOffered /\ LinkInbox' = LinkInbox
    BY <1>11 DEF RunPosted, LinkOffered, LinkInbox
  <2>2. QED
    BY <1>a, <1>11, <2>1, RunPostedOut, LinkKept DEF RunPosted
<1>12. CASE WriteDone
  <2>1. /\ LinkOffered' = LinkOffered /\ LinkInbox' = LinkInbox
        /\ UNCHANGED <<ui, dispatched, sent>> /\ ui # "stopped"
    BY <1>a, <1>12 DEF WriteDone, LinkOffered, LinkInbox
  <2>2. Link!Transmit
    BY <1>a, <1>12, <2>1, WriteDoneOut
    DEF Link!Transmit, LinkOffered, LinkInbox, LinkOutbox, Unposted
  <2>3. QED
    BY <2>2 DEF Link!Next
<1>13. CASE WriteError
  BY <1>13, LinkKept
  DEF WriteError, LinkOffered, LinkInbox, LinkOutbox, Unposted
<1>14. CASE StopJoined
  <2>1. /\ LinkOffered' = LinkOffered /\ LinkInbox' = LinkInbox
        /\ LinkOutbox' = LinkOutbox /\ UNCHANGED <<dispatched, written, sent>>
        /\ ui = "joining" /\ ui' = "stopped"
    BY <1>14 DEF StopJoined, LinkOffered, LinkInbox, LinkOutbox, Unposted
  <2>2. Link!Detach
    BY <2>1 DEF Link!Detach, LinkOffered, LinkInbox, LinkOutbox, Unposted
  <2>3. QED
    BY <2>2 DEF Link!Next
<1>15. CASE UNCHANGED vars
  BY <1>15, LinkUntouched DEF vars
<1>16. QED
  BY <1>1, <1>2, <1>3, <1>4, <1>5, <1>6, <1>7, <1>8, <1>9, <1>10, <1>11,
     <1>12, <1>13, <1>14, <1>15
  DEF Next, UIStep, UserStep, ReadStep, RxHandler, WriteStep, Deleted

LEMMA LinkInit == Init => Link!Init
<1>1. SubSeq(<<>>, 1, 0) = <<>>
  BY SubSeqEmpty
<1>2. <<>> \o <<>> = <<>>
  BY EmptyNat, ConcatEmptySeq
<1>3. SUFFICES ASSUME Init PROVE Link!Init
  OBVIOUS
<1>4. /\ LinkInbox = <<>> /\ LinkOffered = 0
      /\ Unposted = SubSeq(<<>>, 0 + 1, Len(<<>>)) /\ Len(<<>>) = 0
      /\ LinkOutbox = (<<>> \o <<>>) \o Unposted
  BY <1>2, <1>3, EmptyNat DEF Init, LinkInbox, LinkOffered, LinkOutbox, Unposted
<1>5. LinkOutbox = <<>>
  BY <1>1, <1>2, <1>4
<1>6. QED
  BY <1>3, <1>4, <1>5
  DEF Init, Link!Init, LinkInbox, LinkOffered, LinkOutbox, Unposted

(* The two threads, the lock, the swapped batch, the posted handlers and   *)
(* the write queue implement the abstract link: two first-in first-out     *)
(* directions, in which a frame is discarded only behind a full buffer of  *)
(* accepted ones and nothing happens after the detach.                     *)
THEOREM ImplementsLinkAlways == Spec => ImplementsLink
<1>1. Init => Link!Init
  BY LinkInit
<1>2. LinkInv /\ LinkInv' /\ [Next]_vars => [Link!Next]_(Link!vars)
  BY LinkStep
<1>3. QED
  BY <1>1, <1>2, LinkInvInit, LinkInvNext, PTL
  DEF Spec, ImplementsLink, Link!Spec
=============================================================================
