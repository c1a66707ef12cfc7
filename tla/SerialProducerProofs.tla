------------------------ MODULE SerialProducerProofs ------------------------
(***************************************************************************)
(* Proofs about SerialProducer, for every capacity and every number of     *)
(* frames and packets.                                                     *)
(***************************************************************************)
EXTENDS SerialProducer, SequenceTheorems, TLAPS

(* What the queue operations return, element by element.                   *)
LEMMA EmptyNat == <<>> \in Seq(Nat) /\ Len(<<>>) = 0
  BY EmptySeq

LEMMA AppendNat ==
  ASSUME NEW s \in Seq(Nat), NEW x \in Nat
  PROVE  /\ Append(s, x) \in Seq(Nat)
         /\ Len(s) \in Nat /\ Len(Append(s, x)) = Len(s) + 1
         /\ Append(s, x) # <<>>
         /\ \A i \in 1..Len(s) : Append(s, x)[i] = s[i]
         /\ Append(s, x)[Len(s) + 1] = x
  OBVIOUS

LEMMA TailNat ==
  ASSUME NEW s \in Seq(Nat), s # <<>>
  PROVE  /\ Tail(s) \in Seq(Nat) /\ Head(s) \in Nat
         /\ Len(s) \in Nat \ {0} /\ Len(Tail(s)) = Len(s) - 1
         /\ Head(s) = s[1]
         /\ \A i \in 1..Len(Tail(s)) : Tail(s)[i] = s[i + 1]
  OBVIOUS

LEMMA LenNat ==
  ASSUME NEW s \in Seq(Nat)
  PROVE  /\ Len(s) \in Nat
         /\ s = <<>> <=> Len(s) = 0
         /\ \A i \in 1..Len(s) : s[i] \in Nat
  OBVIOUS

LEMMA TailOfOne ==
  ASSUME NEW s \in Seq(Nat), s # <<>>, Len(s) <= 1
  PROVE  Tail(s) = <<>>
<1>1. /\ Tail(s) \in Seq(Nat) /\ Len(s) \in Nat \ {0}
      /\ Len(Tail(s)) = Len(s) - 1
  BY TailNat
<1>2. Len(Tail(s)) = 0
  BY <1>1
<1>3. QED
  BY <1>1, <1>2, LenNat

-----------------------------------------------------------------------------
(* The types cannot be proved alone: a completed write removes the front   *)
(* of tx_queue_, which exists because of SingleWrite.                      *)
TypedWrites == TypeOK /\ SingleWrite

(* The steps that leave the write path alone.                              *)
LEMMA SingleWriteKept ==
  ASSUME SingleWrite, UNCHANGED <<tx_queue_, inflight>>
  PROVE  SingleWrite'
  BY DEF SingleWrite

LEMMA TypedWritesInit == Init => TypedWrites
<1>1. 0 \in 0..MaxFrames /\ 0 \in 0..MaxSends /\ 0 \in Nat
      /\ Len(<<>>) <= RX_CAPACITY /\ Len(<<>>) <= 1
  BY EmptyNat, CapacityAssumption, BoundsAssumption
  DEF CapacityAssumption, BoundsAssumption
<1>2. Init => TypeOK
  BY <1>1, EmptyNat DEF Init, TypeOK, UIPlaces, IOPlaces
<1>3. Init => SingleWrite
  BY <1>1 DEF Init, SingleWrite
<1>4. QED
  BY <1>2, <1>3 DEF TypedWrites

(* A posted handler starts a write exactly when the queue was empty, and   *)
(* then nothing is in flight.                                              *)
LEMMA RunPostedTyped ==
  ASSUME TypedWrites, RunPosted
  PROVE  TypedWrites'
<1> USE DEF TypedWrites
<1>1. /\ posted \in Seq(Nat) /\ posted # <<>>
      /\ tx_queue_ \in Seq(Nat) /\ inflight \in Seq(Nat)
  BY DEF TypeOK, RunPosted
<1>2. Head(posted) \in Nat /\ posted' \in Seq(Nat)
  BY <1>1, TailNat DEF RunPosted
<1>3. /\ tx_queue_' \in Seq(Nat) /\ tx_queue_' # <<>>
      /\ Head(tx_queue_') \in Nat
  BY <1>1, <1>2, AppendNat, TailNat DEF RunPosted
<1>4. CASE tx_queue_ = <<>>
  <2>1. inflight = <<>>
    BY <1>4 DEF SingleWrite
  <2>2. inflight' = Append(<<>>, Head(tx_queue_'))
    BY <1>4, <2>1 DEF RunPosted, WriteInProgress, StartWrite
  <2>3. inflight' \in Seq(Nat) /\ Len(inflight') = 1
        /\ Head(inflight') = Head(tx_queue_')
    BY <1>3, <2>2, AppendNat, EmptyNat, TailNat
  <2>4. SingleWrite'
    BY <1>3, <2>3 DEF SingleWrite
  <2>5. QED
    BY <1>2, <1>3, <2>3, <2>4 DEF RunPosted, TypeOK, rxVars
<1>5. CASE tx_queue_ # <<>>
  <2>1. inflight' = inflight
    BY <1>5 DEF RunPosted, WriteInProgress
  <2>2. Head(tx_queue_') = Head(tx_queue_)
    BY <1>1, <1>2, <1>5 DEF RunPosted
  <2>3. QED
    BY <1>2, <1>3, <2>1, <2>2 DEF RunPosted, TypeOK, SingleWrite, rxVars
<1>6. QED
  BY <1>4, <1>5

(* The completion handler removes the packet that was written and starts   *)
(* the next one.                                                           *)
LEMMA WriteDoneTyped ==
  ASSUME TypedWrites, WriteDone
  PROVE  TypedWrites'
<1> USE DEF TypedWrites
<1>1. /\ inflight \in Seq(Nat) /\ inflight # <<>> /\ Len(inflight) <= 1
      /\ tx_queue_ \in Seq(Nat) /\ tx_queue_ # <<>> /\ written \in Seq(Nat)
  BY DEF TypeOK, SingleWrite, WriteDone
<1>2. /\ Head(inflight) \in Nat /\ Tail(inflight) = <<>>
      /\ tx_queue_' \in Seq(Nat)
  BY <1>1, TailNat, TailOfOne DEF WriteDone
<1>3. written' \in Seq(Nat)
  BY <1>1, <1>2, AppendNat DEF WriteDone
<1>4. inflight' = IF tx_queue_' = <<>> THEN <<>>
                  ELSE Append(<<>>, Head(tx_queue_'))
  BY <1>2 DEF WriteDone, ContinueWriting, StartWrite
<1>5. inflight' \in Seq(Nat) /\ SingleWrite'
  BY <1>2, <1>4, AppendNat, EmptyNat, TailNat DEF SingleWrite
<1>6. QED
  BY <1>2, <1>3, <1>5 DEF WriteDone, TypeOK, rxVars

LEMMA WriteErrorTyped ==
  ASSUME TypedWrites, WriteError
  PROVE  TypedWrites'
<1>1. inflight \in Seq(Nat) /\ inflight # <<>> /\ Len(inflight) <= 1
      /\ inflight' = Tail(inflight)
  BY DEF TypedWrites, TypeOK, SingleWrite, WriteError
<1>2. inflight' = <<>>
  BY <1>1, TailOfOne
<1>3. QED
  BY <1>2, EmptyNat DEF TypedWrites, TypeOK, SingleWrite, WriteError, rxVars

LEMMA TypedWritesNext == TypedWrites /\ [Next]_vars => TypedWrites'
<1> SUFFICES ASSUME TypedWrites, [Next]_vars PROVE TypedWrites'
  OBVIOUS
<1> USE DEF TypedWrites
<1>a. ASSUME UNCHANGED <<tx_queue_, inflight>> PROVE SingleWrite'
  BY <1>a, SingleWriteKept
<1>b. MaxFrames \in Nat /\ MaxSends \in Nat /\ RX_CAPACITY \in Nat \ {0}
  BY CapacityAssumption, BoundsAssumption
  DEF CapacityAssumption, BoundsAssumption
<1> USE DEF TypeOK, UIPlaces, IOPlaces, rxVars, txVars
<1>1. CASE Start BY <1>a, <1>1 DEF Start
<1>2. CASE KeepAttached BY <1>a, <1>2 DEF KeepAttached
<1>3. CASE ProduceLock BY <1>a, <1>3 DEF ProduceLock
<1>4. CASE ProduceEmpty BY <1>a, <1>4 DEF ProduceEmpty
<1>5. CASE SwapOut BY <1>a, <1>5 DEF SwapOut
<1>6. CASE SwapIn BY <1>a, <1>b, EmptyNat, <1>6 DEF SwapIn
<1>7. CASE Dispatch BY <1>a, AppendNat, TailNat, <1>7 DEF Dispatch
<1>8. CASE DispatchEnd BY <1>a, <1>8 DEF DispatchEnd
<1>9. CASE PostPacket
  <2>1. next + 1 \in 1..Len(txData)
    BY <1>9, LenNat DEF PostPacket
  <2>3. txData[next + 1] \in Nat /\ next + 1 \in Nat
    BY <2>1, LenNat
  <2>2. QED
    BY <1>a, <1>9, <2>3, AppendNat DEF PostPacket
<1>10. CASE SendDataEnd BY <1>a, EmptyNat, <1>10 DEF SendDataEnd
<1>11. CASE SendData BY <1>a, <1>b, AppendNat, <1>11 DEF SendData
<1>12. CASE PanelsEnd BY <1>a, <1>12 DEF PanelsEnd
<1>13. CASE Stop BY <1>a, <1>13 DEF Stop
<1>14. CASE StopJoined
  <2>1. SingleWrite'
    BY EmptyNat, <1>14 DEF StopJoined, SingleWrite
  <2>2. QED
    BY EmptyNat, <2>1, <1>14 DEF StopJoined
<1>15. CASE ReadFrame
  <2>1. taken' \in 0..MaxFrames
    BY <1>b, <1>15 DEF ReadFrame
  <2>2. QED
    BY <1>a, <2>1, <1>15 DEF ReadFrame, BetweenHandlers
<1>16. CASE ReadEmpty BY <1>a, <1>16 DEF ReadEmpty, BetweenHandlers
<1>17. CASE ReadError BY <1>a, <1>17 DEF ReadError, BetweenHandlers
<1>18. CASE PushLock BY <1>a, <1>18 DEF PushLock
<1>19. CASE Push
  <2>1. taken \in Nat
    BY <1>b
  <2>2. rx_queue_' \in Seq(Nat) /\ Len(rx_queue_') <= RX_CAPACITY
    <3>1. CASE HasRoom /\ rx_queue_' = Append(rx_queue_, taken)
      BY <1>b, <2>1, <3>1, AppendNat DEF HasRoom
    <3>2. CASE rx_queue_' = rx_queue_
      BY <3>2
    <3>3. QED
      BY <3>1, <3>2, <1>19 DEF Push
  <2>3. accepted' \in Seq(Nat)
    BY <2>1, AppendNat, <1>19 DEF Push
  <2>4. QED
    BY <1>a, <2>2, <2>3, <1>19 DEF Push
<1>20. CASE StartRead BY <1>a, <1>20 DEF StartRead
<1>21. CASE RunPosted BY <1>21, RunPostedTyped
<1>22. CASE WriteDone BY <1>22, WriteDoneTyped
<1>23. CASE WriteError BY <1>23, WriteErrorTyped
<1>24. CASE RunReturns BY <1>a, <1>24 DEF RunReturns
<1>25. CASE UNCHANGED vars BY <1>a, <1>25 DEF vars
<1>26. QED
  BY <1>1, <1>2, <1>3, <1>4, <1>5, <1>6, <1>7, <1>8, <1>9, <1>10, <1>11,
     <1>12, <1>13, <1>14, <1>15, <1>16, <1>17, <1>18, <1>19, <1>20, <1>21,
     <1>22, <1>23, <1>24, <1>25
  DEF Next, UIStep, UserStep, ReadStep, RxHandler, WriteStep, Deleted

(* Every reachable state has its types, and rx_queue_ never exceeds its    *)
(* capacity: the read handler checks it under the lock at every push.      *)
THEOREM TypeCorrect == Spec => []TypeOK
  BY TypedWritesInit, TypedWritesNext, PTL DEF Spec, TypedWrites

(* At most one async_write is outstanding, and it writes the buffer at the *)
(* front of tx_queue_, which stays there until the write completes.        *)
THEOREM SingleWriteAlways == Spec => []SingleWrite
  BY TypedWritesInit, TypedWritesNext, PTL DEF Spec, TypedWrites

-----------------------------------------------------------------------------
(* Packets out.  TxInOrder is inductive once the types and SingleWrite are *)
(* known: each step moves one packet from one stage to the next.           *)
TypedTx == TypedWrites /\ TxInOrder

LEMMA TxKept ==
  ASSUME TxInOrder,
         UNCHANGED <<txData, next, posted, tx_queue_, written, sent>>
  PROVE  TxInOrder'
  BY DEF TxInOrder

LEMMA TxLengths ==
  ASSUME TypeOK
  PROVE  /\ txData \in Seq(Nat) /\ posted \in Seq(Nat)
         /\ tx_queue_ \in Seq(Nat) /\ written \in Seq(Nat)
         /\ Len(txData) \in Nat /\ Len(posted) \in Nat
         /\ Len(tx_queue_) \in Nat /\ Len(written) \in Nat
         /\ next \in Nat /\ sent \in Nat
  BY LenNat, BoundsAssumption DEF TypeOK, BoundsAssumption

(* send_data() moves the next packet of txData behind the posted ones.     *)
LEMMA PostPacketTx ==
  ASSUME TypeOK, TxInOrder, PostPacket
  PROVE  TxInOrder'
<1> DEFINE queued == Len(written) + Len(tx_queue_)
           out    == queued + Len(posted)
<1>1. txData \in Seq(Nat) /\ posted \in Seq(Nat)
  BY TxLengths
<1>2. /\ next \in Nat /\ sent \in Nat /\ queued \in Nat /\ out \in Nat
      /\ Len(txData) \in Nat /\ Len(posted) \in Nat
      /\ out = queued + Len(posted)
  BY TxLengths
<1>3. /\ sent + next = out + Len(txData)
      /\ next < Len(txData)
  BY DEF TxInOrder, PostPacket
<1>4. \A i \in 1..Len(txData) : next + txData[i] = out + i
  BY DEF TxInOrder
<1>5. \A i \in 1..Len(posted) : posted[i] = queued + i
  BY DEF TxInOrder
<1> HIDE DEF queued, out
<1>6. next + 1 \in 1..Len(txData)
  BY <1>2, <1>3
<1>7. txData[next + 1] \in Nat
  BY <1>1, <1>6, LenNat
<1>8. txData[next + 1] = out + 1
  <2>1. next + txData[next + 1] = out + (next + 1)
    BY <1>4, <1>6
  <2>2. QED
    BY <1>2, <1>7, <2>1
<1>9. /\ Len(posted') = Len(posted) + 1
      /\ \A i \in 1..Len(posted) : posted'[i] = posted[i]
      /\ posted'[Len(posted) + 1] = out + 1
  BY <1>1, <1>7, <1>8, AppendNat DEF PostPacket
<1>10. \A i \in 1..Len(posted') : posted'[i] = queued + i
  <2> TAKE i \in 1..Len(posted')
  <2>1. CASE i \in 1..Len(posted)
    BY <1>5, <1>9, <2>1
  <2>2. CASE i = Len(posted) + 1
    BY <1>2, <1>9, <2>2
  <2>3. QED
    BY <1>2, <1>9, <2>1, <2>2
<1>11. /\ sent + (next + 1) = (out + 1) + Len(txData)
       /\ next + 1 <= Len(txData)
       /\ queued + Len(posted') = out + 1
  <2>1. Len(posted') = Len(posted) + 1
    BY <1>9
  <2>2. QED
    BY <1>2, <1>3, <2>1
<1>12. \A i \in 1..Len(txData) : (next + 1) + txData[i] = (out + 1) + i
  <2> TAKE i \in 1..Len(txData)
  <2>1. txData[i] \in Nat /\ i \in Nat
    BY <1>1, <1>2, LenNat
  <2>2. next + txData[i] = out + i
    BY <1>4
  <2>3. QED
    BY <1>2, <2>1, <2>2
<1>13. /\ \A i \in 1..Len(written) : written[i] = i
       /\ \A i \in 1..Len(tx_queue_) : tx_queue_[i] = Len(written) + i
  BY DEF TxInOrder
<1>14. UNCHANGED <<txData, tx_queue_, written, sent>> /\ next' = next + 1
  BY DEF PostPacket
<1> USE DEF queued
<1>15. QED
  BY <1>10, <1>11, <1>12, <1>13, <1>14 DEF TxInOrder

LEMMA SendDataEndTx ==
  ASSUME TypeOK, TxInOrder, SendDataEnd
  PROVE  TxInOrder'
<1>1. /\ next \in Nat /\ sent \in Nat /\ Len(txData) \in Nat
      /\ Len(posted) \in Nat
      /\ Len(tx_queue_) \in Nat /\ Len(written) \in Nat
  BY TxLengths
<1>2. sent = Len(written) + Len(tx_queue_) + Len(posted)
  BY <1>1 DEF TxInOrder, SendDataEnd
<1>3. Len(txData') = 0 /\ next' = 0
  BY EmptyNat DEF SendDataEnd
<1>4. QED
  BY <1>1, <1>2, <1>3 DEF TxInOrder, SendDataEnd

(* A panel appends packet number sent + 1 to txData.                       *)
LEMMA SendDataTx ==
  ASSUME TypeOK, TxInOrder, SendData
  PROVE  TxInOrder'
<1> DEFINE out == Len(written) + Len(tx_queue_) + Len(posted)
<1>1. /\ next \in Nat /\ sent \in Nat /\ txData \in Seq(Nat)
      /\ Len(txData) \in Nat /\ Len(posted) \in Nat
      /\ Len(tx_queue_) \in Nat /\ Len(written) \in Nat
  BY TxLengths
<1>2. /\ Len(txData') = Len(txData) + 1
      /\ \A i \in 1..Len(txData) : txData'[i] = txData[i]
      /\ txData'[Len(txData) + 1] = sent + 1
  BY <1>1, AppendNat DEF SendData
<1>3. \A i \in 1..Len(txData') : next + txData'[i] = out + i
  <2> TAKE i \in 1..Len(txData')
  <2>1. CASE i \in 1..Len(txData)
    BY <1>2, <2>1 DEF TxInOrder
  <2>2. CASE i = Len(txData) + 1
    BY <1>1, <1>2, <2>2 DEF TxInOrder
  <2>3. QED
    BY <1>1, <1>2, <2>1, <2>2
<1>4. (sent + 1) + next = out + Len(txData') /\ next <= Len(txData')
  BY <1>1, <1>2 DEF TxInOrder
<1>5. QED
  BY <1>3, <1>4 DEF TxInOrder, SendData

(* A posted handler moves the first posted packet behind tx_queue_.        *)
LEMMA RunPostedTx ==
  ASSUME TypeOK, TxInOrder, RunPosted
  PROVE  TxInOrder'
<1> DEFINE queued == Len(written) + Len(tx_queue_)
<1>1. tx_queue_ \in Seq(Nat) /\ posted \in Seq(Nat) /\ posted # <<>>
  BY TxLengths DEF RunPosted
<1>2. /\ Len(tx_queue_) \in Nat /\ Len(written) \in Nat /\ queued \in Nat
      /\ queued = Len(written) + Len(tx_queue_)
  BY TxLengths
<1>3. \A i \in 1..Len(tx_queue_) : tx_queue_[i] = Len(written) + i
  BY DEF TxInOrder
<1>4. \A i \in 1..Len(posted) : posted[i] = queued + i
  BY DEF TxInOrder
<1>5. /\ sent + next = queued + Len(posted) + Len(txData)
      /\ next <= Len(txData)
      /\ \A i \in 1..Len(written) : written[i] = i
      /\ \A i \in 1..Len(txData) :
            next + txData[i] = queued + Len(posted) + i
  BY DEF TxInOrder
<1> HIDE DEF queued
<1>6. /\ Len(posted) \in Nat \ {0} /\ Len(posted') = Len(posted) - 1
      /\ Head(posted) \in Nat /\ Head(posted) = posted[1]
  BY <1>1, TailNat DEF RunPosted
<1>7. \A i \in 1..Len(posted') : posted'[i] = posted[i + 1]
  BY <1>1, TailNat DEF RunPosted
<1>8. Head(posted) = queued + 1
  BY <1>4, <1>6
<1>9. /\ Len(tx_queue_') = Len(tx_queue_) + 1
      /\ \A i \in 1..Len(tx_queue_) : tx_queue_'[i] = tx_queue_[i]
      /\ tx_queue_'[Len(tx_queue_) + 1] = queued + 1
  BY <1>1, <1>6, <1>8, AppendNat DEF RunPosted
<1>10. \A i \in 1..Len(tx_queue_') : tx_queue_'[i] = Len(written) + i
  <2> TAKE i \in 1..Len(tx_queue_')
  <2>1. CASE i \in 1..Len(tx_queue_)
    BY <1>3, <1>9, <2>1
  <2>2. CASE i = Len(tx_queue_) + 1
    BY <1>2, <1>9, <2>2
  <2>3. QED
    BY <1>2, <1>9, <2>1, <2>2
<1>11. Len(written) + Len(tx_queue_') = queued + 1
  BY <1>2, <1>9
<1>12. \A i \in 1..Len(posted') : posted'[i] = (queued + 1) + i
  <2> TAKE i \in 1..Len(posted')
  <2>1. i \in Nat /\ i + 1 \in 1..Len(posted)
    BY <1>6
  <2>2. posted'[i] = queued + (i + 1)
    BY <1>4, <1>7, <2>1
  <2>3. QED
    BY <1>2, <2>1, <2>2
<1>13. (queued + 1) + Len(posted') = queued + Len(posted)
  BY <1>2, <1>6
<1>14. UNCHANGED <<txData, next, written, sent>>
  BY DEF RunPosted
<1>15. QED
  BY <1>5, <1>10, <1>11, <1>12, <1>13, <1>14 DEF TxInOrder

(* A completed write moves the front of tx_queue_, which is what was in    *)
(* flight, behind the packets already written.                             *)
LEMMA WriteDoneTx ==
  ASSUME TypeOK, SingleWrite, TxInOrder, WriteDone
  PROVE  TxInOrder'
<1>1. /\ tx_queue_ \in Seq(Nat) /\ tx_queue_ # <<>> /\ written \in Seq(Nat)
      /\ Head(inflight) = Head(tx_queue_)
      /\ next \in Nat /\ sent \in Nat /\ Len(txData) \in Nat
      /\ Len(posted) \in Nat /\ Len(written) \in Nat
  BY TxLengths DEF WriteDone, SingleWrite
<1>2. /\ Len(tx_queue_) \in Nat \ {0}
      /\ Len(tx_queue_') = Len(tx_queue_) - 1
      /\ \A i \in 1..Len(tx_queue_') : tx_queue_'[i] = tx_queue_[i + 1]
      /\ Head(tx_queue_) \in Nat /\ Head(tx_queue_) = tx_queue_[1]
  BY <1>1, TailNat DEF WriteDone
<1>3. Head(inflight) = Len(written) + 1
  BY <1>1, <1>2 DEF TxInOrder
<1>4. /\ Len(written') = Len(written) + 1
      /\ \A i \in 1..Len(written) : written'[i] = written[i]
      /\ written'[Len(written) + 1] = Len(written) + 1
  BY <1>1, <1>3, AppendNat DEF WriteDone
<1>5. \A i \in 1..Len(written') : written'[i] = i
  <2> TAKE i \in 1..Len(written')
  <2>1. CASE i \in 1..Len(written)
    BY <1>4, <2>1 DEF TxInOrder
  <2>2. QED
    BY <1>1, <1>4, <2>1
<1>6. \A i \in 1..Len(tx_queue_') : tx_queue_'[i] = Len(written') + i
  <2> TAKE i \in 1..Len(tx_queue_')
  <2>1. i + 1 \in 1..Len(tx_queue_)
    BY <1>2
  <2>2. QED
    BY <1>1, <1>2, <1>4, <2>1 DEF TxInOrder
<1>7. Len(written') + Len(tx_queue_') = Len(written) + Len(tx_queue_)
  BY <1>1, <1>2, <1>4
<1>8. QED
  BY <1>5, <1>6, <1>7 DEF TxInOrder, WriteDone

LEMMA TypedTxNext == TypedTx /\ [Next]_vars => TypedTx'
<1> SUFFICES ASSUME TypedTx, [Next]_vars PROVE TxInOrder'
  BY TypedWritesNext DEF TypedTx
<1> USE DEF TypedTx, TypedWrites, rxVars, txVars
<1>1. CASE Start BY <1>1, TxKept DEF Start
<1>2. CASE KeepAttached BY <1>2, TxKept DEF KeepAttached
<1>3. CASE ProduceLock BY <1>3, TxKept DEF ProduceLock
<1>4. CASE ProduceEmpty BY <1>4, TxKept DEF ProduceEmpty
<1>5. CASE SwapOut BY <1>5, TxKept DEF SwapOut
<1>6. CASE SwapIn BY <1>6, TxKept DEF SwapIn
<1>7. CASE Dispatch BY <1>7, TxKept DEF Dispatch
<1>8. CASE DispatchEnd BY <1>8, TxKept DEF DispatchEnd
<1>9. CASE PostPacket BY <1>9, PostPacketTx
<1>10. CASE SendDataEnd BY <1>10, SendDataEndTx
<1>11. CASE SendData BY <1>11, SendDataTx
<1>12. CASE PanelsEnd BY <1>12, TxKept DEF PanelsEnd
<1>13. CASE Stop BY <1>13, TxKept DEF Stop
<1>14. CASE StopJoined BY <1>14, TxKept DEF StopJoined
<1>15. CASE ReadFrame BY <1>15, TxKept DEF ReadFrame
<1>16. CASE ReadEmpty BY <1>16, TxKept DEF ReadEmpty
<1>17. CASE ReadError BY <1>17, TxKept DEF ReadError
<1>18. CASE PushLock BY <1>18, TxKept DEF PushLock
<1>19. CASE Push BY <1>19, TxKept DEF Push
<1>20. CASE StartRead BY <1>20, TxKept DEF StartRead
<1>21. CASE RunPosted BY <1>21, RunPostedTx
<1>22. CASE WriteDone BY <1>22, WriteDoneTx
<1>23. CASE WriteError BY <1>23, TxKept DEF WriteError
<1>24. CASE RunReturns BY <1>24, TxKept DEF RunReturns
<1>25. CASE UNCHANGED vars BY <1>25, TxKept DEF vars
<1>26. QED
  BY <1>1, <1>2, <1>3, <1>4, <1>5, <1>6, <1>7, <1>8, <1>9, <1>10, <1>11,
     <1>12, <1>13, <1>14, <1>15, <1>16, <1>17, <1>18, <1>19, <1>20, <1>21,
     <1>22, <1>23, <1>24, <1>25
  DEF Next, UIStep, UserStep, ReadStep, RxHandler, WriteStep, Deleted

(* No packet is lost, duplicated or reordered between a panel and the port,*)
(* whatever the two threads do and however many packets there are.         *)
THEOREM TxInOrderAlways == Spec => []TxInOrder
<1>1. Init => TypedTx
  <2>1. Init => TxInOrder
    BY EmptyNat DEF Init, TxInOrder
  <2>2. QED
    BY <2>1, TypedWritesInit DEF TypedTx
<1>2. QED
  BY <1>1, TypedTxNext, PTL DEF Spec, TypedTx

-----------------------------------------------------------------------------
(* Frames in.  RxInOrder relies on who holds rx_mutex_: while the swap is  *)
(* half done the read handler must not touch rx_queue_.                    *)
LockHeld ==
  /\ (rx_mutex_ = "ui") <=> (ui \in {"swap", "swapping"})
  /\ (rx_mutex_ = "io") <=> (io = "push")
  /\ ui = "detached" => io = "off"

(* What the batch holds in each part of produce().                         *)
BatchShape ==
  /\ ui \notin {"swapping", "dispatch"} => batch = <<>>
  /\ ui = "swapping" => batch = rx_queue_

(* The frame the read handler holds is newer than every accepted one.      *)
AcceptedTaken ==
  \A i \in 1..Len(accepted) :
    IF io \in {"received", "push"} THEN accepted[i] < taken
                                   ELSE accepted[i] <= taken

RxInv == LockHeld /\ BatchShape /\ AcceptedTaken /\ RxInOrder
TypedRx == TypedWrites /\ RxInv

LEMMA LockHeldNext ==
  ASSUME LockHeld, [Next]_vars
  PROVE  LockHeld'
<1> USE DEF LockHeld, rxVars, txVars, BetweenHandlers
<1>1. CASE UIStep
  BY <1>1 DEF UIStep, KeepAttached, ProduceLock, ProduceEmpty, SwapOut,
              SwapIn, Dispatch, DispatchEnd, PostPacket, SendDataEnd,
              PanelsEnd, StopJoined
<1>2. CASE UserStep
  BY <1>2 DEF UserStep, Start, Stop, SendData
<1>3. CASE ReadStep \/ RxHandler
  BY <1>3 DEF ReadStep, ReadFrame, ReadEmpty, ReadError,
              RxHandler, PushLock, Push, StartRead
<1>4. CASE RunPosted \/ WriteStep \/ RunReturns
  BY <1>4 DEF RunPosted, WriteStep, WriteDone, WriteError, RunReturns
<1>5. CASE UNCHANGED vars
  BY <1>5 DEF vars
<1>6. QED
  BY <1>1, <1>2, <1>3, <1>4, <1>5 DEF Next, Deleted

(* The steps that touch neither the received frames nor the places that    *)
(* the invariant speaks of.                                                *)
LEMMA RxKept ==
  ASSUME RxInv, UNCHANGED <<taken, rx_queue_, batch, accepted, dispatched>>,
         LockHeld',
         \/ ui' = ui
         \/ {ui, ui'} \cap {"swapping", "dispatch"} = {}
         \/ ui = "dispatch" /\ ui' = "send" /\ batch = <<>>,
         \/ io' = io
         \/ {io, io'} \cap {"received", "push"} = {}
         \/ io = "received" /\ io' = "push"
  PROVE  RxInv'
<1> USE DEF RxInv
<1>1. BatchShape'
  BY DEF BatchShape
<1>2. AcceptedTaken'
  BY DEF AcceptedTaken
<1>3. Len(accepted) = Len(dispatched) + InBatch' + Len(rx_queue_)
      /\ InBatch' = InBatch
  BY DEF RxInOrder, InBatch
<1>4. RxInOrder'
  BY <1>3 DEF RxInOrder
<1>5. QED
  BY <1>1, <1>2, <1>4

LEMMA RxLengths ==
  ASSUME TypeOK
  PROVE  /\ rx_queue_ \in Seq(Nat) /\ batch \in Seq(Nat)
         /\ accepted \in Seq(Nat) /\ dispatched \in Seq(Nat)
         /\ Len(rx_queue_) \in Nat /\ Len(batch) \in Nat
         /\ Len(accepted) \in Nat /\ Len(dispatched) \in Nat
         /\ InBatch \in Nat /\ taken \in Nat
  BY LenNat, BoundsAssumption DEF TypeOK, BoundsAssumption, InBatch

(* The first half of the swap: the same frames are seen twice.             *)
LEMMA SwapOutRx ==
  ASSUME TypeOK, RxInv, LockHeld', SwapOut
  PROVE  RxInv'
<1> USE DEF RxInv
<1>1. batch = <<>> /\ InBatch = 0 /\ InBatch' = 0
  BY EmptyNat DEF SwapOut, BatchShape, InBatch
<1>2. /\ Len(dispatched) \in Nat /\ Len(rx_queue_) \in Nat
      /\ batch' = rx_queue_ /\ ui' = "swapping"
      /\ UNCHANGED <<io, taken, rx_queue_, accepted, dispatched>>
  BY RxLengths DEF SwapOut
<1>3. BatchShape' /\ AcceptedTaken'
  BY <1>2 DEF BatchShape, AcceptedTaken
<1>4. \A i \in 1..Len(rx_queue_) :
         rx_queue_[i] = accepted[Len(dispatched) + i]
  BY <1>1, <1>2 DEF RxInOrder
<1>5. RxInOrder'
  BY <1>1, <1>2, <1>4 DEF RxInOrder
<1>6. QED
  BY <1>3, <1>5

(* The second half: only the batch has them.                               *)
LEMMA SwapInRx ==
  ASSUME TypeOK, RxInv, LockHeld', SwapIn
  PROVE  RxInv'
<1> USE DEF RxInv
<1>1. batch = rx_queue_ /\ InBatch = 0 /\ InBatch' = Len(rx_queue_)
  BY DEF SwapIn, BatchShape, InBatch
<1>2. /\ Len(dispatched) \in Nat /\ Len(rx_queue_) \in Nat
      /\ Len(rx_queue_') = 0 /\ ui' = "dispatch"
      /\ UNCHANGED <<io, taken, batch, accepted, dispatched>>
  BY RxLengths, EmptyNat DEF SwapIn
<1>3. BatchShape' /\ AcceptedTaken'
  BY <1>2 DEF BatchShape, AcceptedTaken
<1>4. RxInOrder'
  BY <1>1, <1>2 DEF RxInOrder
<1>5. QED
  BY <1>3, <1>4

(* The front of the batch goes to the dispatcher.                          *)
LEMMA DispatchRx ==
  ASSUME TypeOK, RxInv, LockHeld', Dispatch
  PROVE  RxInv'
<1> USE DEF RxInv
<1>1. batch \in Seq(Nat) /\ batch # <<>> /\ dispatched \in Seq(Nat)
  BY RxLengths DEF Dispatch
<1>2. /\ Len(dispatched) \in Nat /\ Len(rx_queue_) \in Nat
      /\ Len(batch) \in Nat
      /\ InBatch = Len(batch) /\ InBatch' = Len(batch')
  BY RxLengths DEF Dispatch, InBatch
<1>3. /\ Len(batch) # 0 /\ Len(batch') = Len(batch) - 1
      /\ Head(batch) \in Nat /\ Head(batch) = batch[1]
  BY <1>1, TailNat DEF Dispatch
<1>4. \A i \in 1..Len(batch') : batch'[i] = batch[i + 1]
  BY <1>1, TailNat DEF Dispatch
<1>5. /\ Len(dispatched') = Len(dispatched) + 1
      /\ \A i \in 1..Len(dispatched) : dispatched'[i] = dispatched[i]
      /\ dispatched'[Len(dispatched) + 1] = Head(batch)
  BY <1>1, <1>3, AppendNat DEF Dispatch
<1>6. \A i \in 1..Len(batch) : batch[i] = accepted[Len(dispatched) + i]
  BY DEF RxInOrder
<1>7. Head(batch) = accepted[Len(dispatched) + 1]
  BY <1>2, <1>3, <1>6
<1>8. \A i \in 1..Len(dispatched') : dispatched'[i] = accepted[i]
  <2> TAKE i \in 1..Len(dispatched')
  <2>1. CASE i \in 1..Len(dispatched)
    BY <1>5, <2>1 DEF RxInOrder
  <2>2. CASE i = Len(dispatched) + 1
    BY <1>5, <1>7, <2>2
  <2>3. QED
    BY <1>2, <1>5, <2>1, <2>2
<1>9. \A i \in 1..Len(batch') : batch'[i] = accepted[Len(dispatched') + i]
  <2> TAKE i \in 1..Len(batch')
  <2>1. i \in Nat /\ i + 1 \in 1..Len(batch)
    BY <1>2, <1>3
  <2>2. batch'[i] = accepted[Len(dispatched) + (i + 1)]
    BY <1>4, <1>6, <2>1
  <2>3. Len(dispatched') + i = Len(dispatched) + (i + 1)
    BY <1>2, <1>5, <2>1
  <2>4. QED
    BY <2>2, <2>3
<1>10. Len(dispatched') + InBatch' = Len(dispatched) + InBatch
  BY <1>2, <1>3, <1>5
<1>11. UNCHANGED <<ui, io, taken, rx_queue_, accepted>> /\ ui = "dispatch"
  BY DEF Dispatch
<1>12. RxInOrder'
  BY <1>8, <1>9, <1>10, <1>11 DEF RxInOrder
<1>13. BatchShape' /\ AcceptedTaken'
  BY <1>11 DEF BatchShape, AcceptedTaken
<1>14. QED
  BY <1>12, <1>13

(* The read handler pushes a frame newer than all accepted ones.  It holds *)
(* the lock, so no swap is half done.                                      *)
LEMMA PushRx ==
  ASSUME TypeOK, RxInv, LockHeld', Push
  PROVE  RxInv'
<1> USE DEF RxInv
<1>1. ui # "swapping" /\ io = "push" /\ io' = "rearm"
      /\ UNCHANGED <<ui, taken, batch, dispatched>>
  BY DEF Push, LockHeld
<1>2. BatchShape' /\ InBatch' = InBatch
  BY <1>1 DEF BatchShape, InBatch
<1>3. CASE UNCHANGED <<rx_queue_, accepted>>
  <2>1. AcceptedTaken'
    <3>1. \A i \in 1..Len(accepted) : accepted[i] < taken
      BY <1>1 DEF AcceptedTaken
    <3>2. taken \in Nat /\ \A i \in 1..Len(accepted) : accepted[i] \in Nat
      BY RxLengths, LenNat
    <3>3. \A i \in 1..Len(accepted) : accepted[i] <= taken
      BY <3>1, <3>2
    <3>4. QED
      BY <1>1, <1>3, <3>3 DEF AcceptedTaken
  <2>2. RxInOrder'
    BY <1>1, <1>2, <1>3 DEF RxInOrder
  <2>3. QED
    BY <1>2, <2>1, <2>2
<1>4. CASE /\ rx_queue_' = Append(rx_queue_, taken)
           /\ accepted' = Append(accepted, taken)
  <2>1. /\ rx_queue_ \in Seq(Nat) /\ accepted \in Seq(Nat)
    BY RxLengths
  <2>2. /\ taken \in Nat /\ Len(rx_queue_) \in Nat /\ Len(accepted) \in Nat
        /\ Len(dispatched) \in Nat /\ InBatch \in Nat /\ Len(batch) \in Nat
        /\ Len(batch) = InBatch
    BY <1>1, RxLengths DEF InBatch
  <2>3. /\ Len(rx_queue_') = Len(rx_queue_) + 1
        /\ \A i \in 1..Len(rx_queue_) : rx_queue_'[i] = rx_queue_[i]
        /\ rx_queue_'[Len(rx_queue_) + 1] = taken
    BY <1>4, <2>1, <2>2, AppendNat
  <2>4. /\ Len(accepted') = Len(accepted) + 1
        /\ \A i \in 1..Len(accepted) : accepted'[i] = accepted[i]
        /\ accepted'[Len(accepted) + 1] = taken
    BY <1>4, <2>1, <2>2, AppendNat
  <2>5. Len(accepted) = Len(dispatched) + InBatch + Len(rx_queue_)
    BY DEF RxInOrder
  <2>6. \A i \in 1..Len(accepted) : accepted[i] \in Nat /\ accepted[i] < taken
    BY <1>1, <2>1, LenNat DEF AcceptedTaken
  <2>7. \A i \in 1..Len(accepted') : accepted'[i] <= taken
    <3> TAKE i \in 1..Len(accepted')
    <3>1. CASE i \in 1..Len(accepted)
      <4>1. accepted'[i] \in Nat /\ accepted'[i] < taken
        BY <2>4, <2>6, <3>1
      <4>2. QED
        BY <2>2, <4>1
    <3>2. CASE i = Len(accepted) + 1
      BY <2>2, <2>4, <3>2
    <3>3. QED
      BY <2>2, <2>4, <3>1, <3>2
  <2>8. AcceptedTaken'
    BY <1>1, <2>7 DEF AcceptedTaken
  <2>9. \A i \in 1..Len(dispatched) : dispatched[i] = accepted'[i]
    <3> TAKE i \in 1..Len(dispatched)
    <3>1. i \in 1..Len(accepted)
      BY <2>2, <2>5
    <3>2. QED
      BY <2>4, <3>1 DEF RxInOrder
  <2>10. \A i \in 1..Len(batch) : batch[i] = accepted'[Len(dispatched) + i]
    <3> TAKE i \in 1..Len(batch)
    <3>1. Len(dispatched) + i \in 1..Len(accepted)
      BY <2>2, <2>5
    <3>2. QED
      BY <2>4, <3>1 DEF RxInOrder
  <2>11. \A i \in 1..Len(rx_queue_') :
            rx_queue_'[i] = accepted'[Len(dispatched) + InBatch + i]
    <3> TAKE i \in 1..Len(rx_queue_')
    <3>1. CASE i \in 1..Len(rx_queue_)
      <4>1. Len(dispatched) + InBatch + i \in 1..Len(accepted)
        BY <2>2, <2>5, <3>1
      <4>2. QED
        BY <2>3, <2>4, <3>1, <4>1 DEF RxInOrder
    <3>2. CASE i = Len(rx_queue_) + 1
      <4>1. Len(dispatched) + InBatch + i = Len(accepted) + 1
        BY <2>2, <2>5, <3>2
      <4>2. QED
        BY <2>3, <2>4, <3>2, <4>1
    <3>3. QED
      BY <2>2, <2>3, <3>1, <3>2
  <2>12. \A i, j \in 1..Len(accepted') : i < j => accepted'[i] < accepted'[j]
    <3> SUFFICES ASSUME NEW i \in 1..Len(accepted'),
                        NEW j \in 1..Len(accepted'), i < j
                 PROVE  accepted'[i] < accepted'[j]
      OBVIOUS
    <3>1. i \in 1..Len(accepted)
      BY <2>2, <2>4
    <3>2. CASE j \in 1..Len(accepted)
      BY <2>4, <3>1, <3>2 DEF RxInOrder
    <3>3. CASE j = Len(accepted) + 1
      BY <2>4, <2>6, <3>1, <3>3
    <3>4. QED
      BY <2>2, <2>4, <3>2, <3>3
  <2>13. Len(accepted') = Len(dispatched) + InBatch + Len(rx_queue_')
    BY <2>2, <2>3, <2>4, <2>5
  <2>14. RxInOrder'
    BY <1>1, <1>2, <2>9, <2>10, <2>11, <2>12, <2>13 DEF RxInOrder
  <2>15. QED
    BY <1>2, <2>8, <2>14
<1>5. QED
  BY <1>3, <1>4 DEF Push

(* The read handler takes the next frame from the port.                    *)
LEMMA ReadFrameRx ==
  ASSUME TypeOK, RxInv, LockHeld', ReadFrame
  PROVE  RxInv'
<1> USE DEF RxInv
<1>1. /\ io = "run" /\ io' = "received" /\ taken' = taken + 1
      /\ UNCHANGED <<ui, rx_queue_, batch, accepted, dispatched>>
  BY DEF ReadFrame, BetweenHandlers
<1>2. taken \in Nat /\ \A i \in 1..Len(accepted) : accepted[i] \in Nat
  BY RxLengths, LenNat
<1>3. \A i \in 1..Len(accepted) : accepted[i] <= taken
  BY <1>1 DEF AcceptedTaken
<1>4. \A i \in 1..Len(accepted) : accepted[i] < taken + 1
  BY <1>2, <1>3
<1>5. AcceptedTaken'
  BY <1>1, <1>4 DEF AcceptedTaken
<1>6. BatchShape' /\ RxInOrder'
  BY <1>1 DEF BatchShape, RxInOrder, InBatch
<1>7. QED
  BY <1>5, <1>6

LEMMA TypedRxNext == TypedRx /\ [Next]_vars => TypedRx'
<1> SUFFICES ASSUME TypedRx, [Next]_vars PROVE RxInv'
  BY TypedWritesNext DEF TypedRx
<1>0. LockHeld'
  BY LockHeldNext DEF TypedRx, RxInv
<1> USE DEF TypedRx, TypedWrites, rxVars, txVars, BetweenHandlers
<1>1. CASE Start BY <1>0, <1>1, RxKept DEF Start, RxInv, LockHeld
<1>2. CASE KeepAttached BY <1>0, <1>2, RxKept DEF KeepAttached
<1>3. CASE ProduceLock BY <1>0, <1>3, RxKept DEF ProduceLock
<1>4. CASE ProduceEmpty BY <1>0, <1>4, RxKept DEF ProduceEmpty
<1>5. CASE SwapOut BY <1>0, <1>5, SwapOutRx
<1>6. CASE SwapIn BY <1>0, <1>6, SwapInRx
<1>7. CASE Dispatch BY <1>0, <1>7, DispatchRx
<1>8. CASE DispatchEnd BY <1>0, <1>8, RxKept DEF DispatchEnd
<1>9. CASE PostPacket BY <1>0, <1>9, RxKept DEF PostPacket
<1>10. CASE SendDataEnd BY <1>0, <1>10, RxKept DEF SendDataEnd
<1>11. CASE SendData BY <1>0, <1>11, RxKept DEF SendData
<1>12. CASE PanelsEnd BY <1>0, <1>12, RxKept DEF PanelsEnd
<1>13. CASE Stop BY <1>0, <1>13, RxKept DEF Stop
<1>14. CASE StopJoined BY <1>0, <1>14, RxKept DEF StopJoined
<1>15. CASE ReadFrame BY <1>0, <1>15, ReadFrameRx
<1>16. CASE ReadEmpty BY <1>0, <1>16, RxKept DEF ReadEmpty
<1>17. CASE ReadError BY <1>0, <1>17, RxKept DEF ReadError
<1>18. CASE PushLock BY <1>0, <1>18, RxKept DEF PushLock
<1>19. CASE Push BY <1>0, <1>19, PushRx
<1>20. CASE StartRead BY <1>0, <1>20, RxKept DEF StartRead
<1>21. CASE RunPosted BY <1>0, <1>21, RxKept DEF RunPosted
<1>22. CASE WriteDone BY <1>0, <1>22, RxKept DEF WriteDone
<1>23. CASE WriteError BY <1>0, <1>23, RxKept DEF WriteError
<1>24. CASE RunReturns BY <1>0, <1>24, RxKept DEF RunReturns
<1>25. CASE UNCHANGED vars BY <1>0, <1>25, RxKept DEF vars
<1>26. QED
  BY <1>1, <1>2, <1>3, <1>4, <1>5, <1>6, <1>7, <1>8, <1>9, <1>10, <1>11,
     <1>12, <1>13, <1>14, <1>15, <1>16, <1>17, <1>18, <1>19, <1>20, <1>21,
     <1>22, <1>23, <1>24, <1>25
  DEF Next, UIStep, UserStep, ReadStep, RxHandler, WriteStep, Deleted

LEMMA TypedRxInit == Init => TypedRx
<1>1. Init => LockHeld /\ BatchShape
  BY DEF Init, LockHeld, BatchShape
<1>2. Init => AcceptedTaken /\ RxInOrder
  BY EmptyNat DEF Init, AcceptedTaken, RxInOrder, InBatch
<1>3. QED
  BY <1>1, <1>2, TypedWritesInit DEF TypedRx, RxInv

(* No accepted frame is lost, duplicated or reordered between the port and *)
(* the dispatcher, for every interleaving of produce() with the read       *)
(* handler and every capacity of rx_queue_.                                *)
THEOREM RxInOrderAlways == Spec => []RxInOrder
  BY TypedRxInit, TypedRxNext, PTL DEF Spec, TypedRx, RxInv

-----------------------------------------------------------------------------
(* After an error the stalled direction stays stalled in every step: the   *)
(* handlers that could revive it are only issued by handlers that succeed. *)
LEMMA WriteStalledNext ==
  ASSUME TypeOK, WriteStalled, [Next]_vars
  PROVE  WriteStalled' /\ written' = written
<1> USE DEF WriteStalled, rxVars, txVars
<1>1. CASE RunPosted
  <2>1. inflight' = inflight /\ written' = written
    BY <1>1 DEF RunPosted, WriteInProgress
  <2>2. tx_queue_' # <<>>
    BY <1>1, TxLengths, TailNat, AppendNat DEF RunPosted
  <2>3. QED
    BY <2>1, <2>2
<1>2. CASE WriteStep
  BY <1>2 DEF WriteStep, WriteDone, WriteError
<1>3. CASE UIStep
  BY <1>3 DEF UIStep, KeepAttached, ProduceLock, ProduceEmpty, SwapOut,
              SwapIn, Dispatch, DispatchEnd, PostPacket, SendDataEnd,
              PanelsEnd, StopJoined
<1>4. CASE UserStep
  BY <1>4 DEF UserStep, Start, Stop, SendData
<1>5. CASE ReadStep \/ RxHandler \/ RunReturns
  BY <1>5 DEF ReadStep, ReadFrame, ReadEmpty, ReadError,
              RxHandler, PushLock, Push, StartRead, RunReturns
<1>6. CASE UNCHANGED vars
  BY <1>6 DEF vars
<1>7. QED
  BY <1>1, <1>2, <1>3, <1>4, <1>5, <1>6 DEF Next, Deleted

LEMMA ReadStalledNext ==
  ASSUME LockHeld, ReadStalled, io' # "exited", [Next]_vars
  PROVE  ReadStalled' /\ taken' = taken
<1> USE DEF ReadStalled, LockHeld, rxVars, txVars
<1>1. CASE UIStep
  BY <1>1 DEF UIStep, KeepAttached, ProduceLock, ProduceEmpty, SwapOut,
              SwapIn, Dispatch, DispatchEnd, PostPacket, SendDataEnd,
              PanelsEnd, StopJoined
<1>2. CASE UserStep
  BY <1>2 DEF UserStep, Start, Stop, SendData
<1>3. CASE ReadStep \/ RxHandler
  BY <1>3 DEF ReadStep, ReadFrame, ReadEmpty, ReadError,
              RxHandler, PushLock, Push, StartRead
<1>4. CASE RunPosted \/ WriteStep \/ RunReturns
  BY <1>4 DEF RunPosted, WriteStep, WriteDone, WriteError, RunReturns
<1>5. CASE UNCHANGED vars
  BY <1>5 DEF vars
<1>6. QED
  BY <1>1, <1>2, <1>3, <1>4, <1>5 DEF Next, Deleted

(* A write error stops the writing and a read error the reading, for the   *)
(* rest of the attachment.                                                 *)
THEOREM ErrorsAreFinalAlways == Spec => ErrorsAreFinal
<1>1. TypedRx /\ [Next]_vars =>
        [/\ WriteStalled => WriteStalled' /\ written' = written
         /\ ReadStalled /\ io' # "exited"
              => ReadStalled' /\ taken' = taken]_vars
  BY WriteStalledNext, ReadStalledNext DEF TypedRx, TypedWrites, RxInv
<1>2. QED
  BY <1>1, TypedRxInit, TypedRxNext, PTL DEF Spec, ErrorsAreFinal

LEMMA AppendNonEmpty ==
  ASSUME NEW s \in Seq(Nat), NEW x
  PROVE  Append(s, x) # <<>>
<1>1. Len(Append(s, x)) = Len(s) + 1 /\ Len(s) \in Nat /\ Len(<<>>) = 0
  OBVIOUS
<1>2. QED
  BY <1>1

(* A write that succeeds leaves the next one in flight, if there is one.   *)
LEMMA WriteStallBegins ==
  ASSUME TypeOK, ~WriteStalled, WriteStalled', io # "exited", [Next]_vars
  PROVE  tx_queue_' = tx_queue_
<1> USE DEF WriteStalled, rxVars, txVars
<1>1. CASE RunPosted
  <2>1. CASE tx_queue_ = <<>>
    <3>1. inflight' = Append(inflight, Head(tx_queue_'))
      BY <1>1, <2>1 DEF RunPosted, WriteInProgress, StartWrite
    <3>2. inflight \in Seq(Nat)
      BY DEF TypeOK
    <3>3. inflight' # <<>>
      BY <3>1, <3>2, AppendNonEmpty
    <3>4. QED
      BY <3>3
  <2>2. CASE tx_queue_ # <<>>
    BY <1>1, <2>2 DEF RunPosted, WriteInProgress
  <2>3. QED
    BY <2>1, <2>2
<1>2. CASE WriteDone
  <2>1. inflight' = Append(Tail(inflight), Head(tx_queue_'))
    BY <1>2 DEF WriteDone, ContinueWriting, StartWrite
  <2>2. Tail(inflight) \in Seq(Nat)
    BY <1>2, TailNat DEF WriteDone, TypeOK
  <2>3. inflight' # <<>>
    BY <2>1, <2>2, AppendNonEmpty
  <2>4. QED
    BY <2>3
<1>3. CASE WriteError
  BY <1>3 DEF WriteError
<1>4. CASE UIStep
  BY <1>4 DEF UIStep, KeepAttached, ProduceLock, ProduceEmpty, SwapOut,
              SwapIn, Dispatch, DispatchEnd, PostPacket, SendDataEnd,
              PanelsEnd, StopJoined
<1>5. CASE UserStep
  BY <1>5 DEF UserStep, Start, Stop, SendData
<1>6. CASE ReadStep \/ RxHandler \/ RunReturns
  BY <1>6 DEF ReadStep, ReadFrame, ReadEmpty, ReadError,
              RxHandler, PushLock, Push, StartRead, RunReturns
<1>7. CASE UNCHANGED vars
  BY <1>7 DEF vars
<1>8. QED
  BY <1>1, <1>2, <1>3, <1>4, <1>5, <1>6, <1>7 DEF Next, WriteStep, Deleted

(* A read handler that is not failing comes back to run() by start_read(). *)
LEMMA ReadStallBegins ==
  ASSUME ~ReadStalled, ReadStalled', [Next]_vars
  PROVE  io = "run"
<1> USE DEF ReadStalled, rxVars, txVars
<1>1. CASE UIStep
  BY <1>1 DEF UIStep, KeepAttached, ProduceLock, ProduceEmpty, SwapOut,
              SwapIn, Dispatch, DispatchEnd, PostPacket, SendDataEnd,
              PanelsEnd, StopJoined
<1>2. CASE UserStep
  BY <1>2 DEF UserStep, Start, Stop, SendData
<1>3. CASE ReadStep \/ RxHandler
  BY <1>3 DEF ReadStep, ReadFrame, ReadEmpty, ReadError, BetweenHandlers,
              RxHandler, PushLock, Push, StartRead
<1>4. CASE RunPosted \/ WriteStep \/ RunReturns
  BY <1>4 DEF RunPosted, WriteStep, WriteDone, WriteError, BetweenHandlers, RunReturns
<1>5. CASE UNCHANGED vars
  BY <1>5 DEF vars
<1>6. QED
  BY <1>1, <1>2, <1>3, <1>4, <1>5 DEF Next, Deleted

(* The chains of writes and of reads end only in an error.                 *)
THEOREM OnlyErrorsStallAlways == Spec => OnlyErrorsStall
<1>1. TypedRx /\ [Next]_vars =>
        [/\ ~WriteStalled /\ WriteStalled' /\ io # "exited" => tx_queue_' = tx_queue_
         /\ ~ReadStalled /\ ReadStalled' => io = "run"]_vars
  BY WriteStallBegins, ReadStallBegins DEF TypedRx, TypedWrites
<1>2. QED
  BY <1>1, TypedRxInit, TypedRxNext, PTL DEF Spec, OnlyErrorsStall
=============================================================================
