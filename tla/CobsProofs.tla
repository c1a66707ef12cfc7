----------------------------- MODULE CobsProofs -----------------------------
(***************************************************************************)
(* Proofs about Cobs: for all buffer sizes, every message, every content   *)
(* of alertBufferCOBS and every frame of noise.                            *)
(***************************************************************************)
EXTENDS Cobs, Integers, TLAPS

LEMMA DivNat ==
  ASSUME NEW a \in Nat, NEW b \in Nat, b > 0
  PROVE  a \div b \in Nat
  OBVIOUS

LEMMA Sizes ==
  /\ MaxCode \in Nat /\ MaxCode > 1 /\ BufSize \in Nat /\ BufSize > 0
  /\ DestSize \in Nat /\ DestSize > 0
<1>1. /\ MaxCode \in Nat /\ MaxCode > 1 /\ BufSize \in Nat /\ BufSize > 0
  BY SizeAssumption DEF SizeAssumption
<1>2. BufSize \div (MaxCode - 1) \in Nat
  BY <1>1, DivNat
<1>3. QED
  BY <1>1, <1>2 DEF DestSize

(* Writing a byte into a buffer.                                           *)
LEMMA WriteByte ==
  ASSUME NEW n \in Nat, NEW f \in Buffers(n), NEW k, NEW b \in Byte
  PROVE  /\ [f EXCEPT ![k] = b] \in Buffers(n)
         /\ \A j \in 0..(n - 1) : j # k => [f EXCEPT ![k] = b][j] = f[j]
         /\ k \in 0..(n - 1) => [f EXCEPT ![k] = b][k] = b
  BY DEF Buffers

LEMMA ReadByte ==
  ASSUME NEW n \in Nat, NEW f \in Buffers(n), NEW k \in 0..(n - 1)
  PROVE  f[k] \in Byte
  BY DEF Buffers

-----------------------------------------------------------------------------
(* Types and in-place decoding, by one invariant: the types of what the    *)
(* decoder writes depend on its indices staying inside the frame.          *)
DecodeInv ==
  pc \in {"block", "copy"} =>
    read_idx \in 1..frame_size /\ block = wire[read_idx - 1]

Safe == TypeOK /\ DecodeInv /\ InPlace

LEMMA SafeInit == Init => Safe
<1> SUFFICES ASSUME Init PROVE Safe
  OBVIOUS
<1> USE DEF Init
<1>1. /\ dest \in Buffers(DestSize) /\ read_index = 0 /\ write_index = 1
      /\ code_index = 0 /\ counter = 1
      /\ frame = wire /\ read_idx = 1 /\ write_idx = 0 /\ i = 0
  BY SizeAssumption DEF SizeAssumption
<1>2. /\ read_index \in 0..size \/ size \notin Nat
      /\ code_index \in 0..(DestSize - 1) /\ code_index < write_index
      /\ write_index \in 1..DestSize /\ counter \in 1..MaxCode
      /\ read_idx \in Nat /\ write_idx \in Nat /\ i \in Nat
  BY <1>1, Sizes
<1>3. CASE InitDevice
  <2>1. /\ pc = "encode" /\ source = "device"
        /\ size \in 0..BufSize /\ size \in Nat /\ buf \in Buffers(size)
        /\ wire = NoFrame /\ frame_size = 0 /\ block = 0
    BY <1>3, Sizes DEF InitDevice
  <2>2. wire \in Buffers(frame_size) /\ block \in Byte
    BY <2>1, Sizes DEF NoFrame, Buffers, Byte
  <2>3. QED
    BY <1>1, <1>2, <2>1, <2>2 DEF Safe, TypeOK, DecodeInv, InPlace, Places
<1>4. CASE InitNoise
  <2>1. PICK n \in 1..NoiseSize, f \in [0..NoiseSize -> Byte] :
          /\ wire = [k \in 0..n |-> f[k]] /\ frame_size = n + 1
          /\ block = f[0]
          /\ pc = IF n + 1 < MinFrame THEN "rejected" ELSE "block"
    BY <1>4 DEF InitNoise
  <2>2. n \in Nat /\ n > 0 /\ 0..n \subseteq 0..NoiseSize /\ frame_size \in Nat
        /\ 0..n = 0..(frame_size - 1) /\ 1 \in 1..frame_size
    BY <2>1, SizeAssumption DEF SizeAssumption
  <2>3. wire \in Buffers(frame_size) /\ wire[0] = f[0] /\ f[0] \in Byte
    BY <2>1, <2>2 DEF Buffers
  <2>4. /\ source = "noise" /\ size = 0 /\ buf = NoFrame /\ size \in 0..BufSize
        /\ size \in Nat
    BY <1>4, Sizes DEF InitNoise
  <2>5. buf \in Buffers(size)
    BY <2>4 DEF NoFrame, Buffers
  <2>6. pc \in {"rejected", "block"}
    BY <2>1
  <2>7. TypeOK
    BY <1>1, <1>2, <2>1, <2>2, <2>3, <2>4, <2>5, <2>6
    DEF TypeOK, Places, Finished
  <2>8. DecodeInv
    BY <1>1, <2>1, <2>2, <2>3 DEF DecodeInv
  <2>9. InPlace
    BY <1>1, <2>2, <2>6 DEF InPlace, Unread
  <2>10. QED
    BY <2>7, <2>8, <2>9 DEF Safe
<1>5. QED
  BY <1>3, <1>4

(* The encoder's iterations: the space check bounds the index written.     *)
LEMMA EncodeSafe ==
  ASSUME Safe, Encode
  PROVE  Safe'
<1>1. /\ pc = "encode" /\ UNCHANGED <<source, size, buf>>
      /\ UNCHANGED <<wire, frame_size, frame, read_idx, write_idx, i, block>>
      /\ pc' \in {"encode", "encoded", "refused"}
  BY DEF Encode, EncodeZero, EncodeFullBlock, EncodeByte, EncodeEnd,
         EncodeNoSpace, message, decoder
<1>2. DecodeInv' /\ InPlace'
  BY <1>1 DEF DecodeInv, InPlace
<1>3. /\ read_index \in Nat /\ size \in Nat /\ read_index <= size
      /\ code_index \in Nat /\ write_index \in Nat /\ counter \in Nat
      /\ code_index < DestSize /\ code_index < write_index
      /\ write_index >= 1 /\ write_index <= DestSize
      /\ counter >= 1 /\ counter <= MaxCode
      /\ dest \in Buffers(DestSize) /\ buf \in Buffers(size)
      /\ counter \in Byte
  BY Sizes DEF Safe, TypeOK, Byte
<1>4. PatchCode \in Buffers(DestSize)
  BY <1>3, Sizes, WriteByte DEF PatchCode
<1>5. AtFullBlock \/ AtByte => buf[read_index] \in Byte
  <2>1. Reading => read_index \in 0..(size - 1)
    BY <1>3 DEF Reading
  <2>2. QED
    BY <1>3, <2>1, ReadByte DEF AtFullBlock, AtByte
<1>6. 0 \in Byte
  BY Sizes DEF Byte
<1> DEFINE Typed ==
      /\ dest' \in Buffers(DestSize)
      /\ read_index' \in 0..size
      /\ code_index' \in 0..(DestSize - 1) /\ code_index' < write_index'
      /\ write_index' \in 1..DestSize
      /\ counter' \in 1..MaxCode
<1>7. ASSUME EncodeZero PROVE Typed
  <2>1. read_index < size /\ write_index + 1 <= DestSize
    BY <1>7 DEF EncodeZero, AtZero, AtFullBlock, Reading, HasSpace, Needed
  <2>2. /\ read_index' = read_index + 1 /\ code_index' = write_index
        /\ write_index' = write_index + 1 /\ counter' = 1
        /\ dest' = PatchCode
    BY <1>7 DEF EncodeZero, FirstCount
  <2>3. QED
    BY <1>3, <1>4, <2>1, <2>2, Sizes
<1>8. ASSUME EncodeFullBlock PROVE Typed
  <2>1. read_index < size /\ write_index + 2 <= DestSize
    BY <1>8 DEF EncodeFullBlock, AtFullBlock, Reading, HasSpace, Needed
  <2>2. /\ read_index' = read_index + 1 /\ code_index' = write_index
        /\ write_index' = write_index + 2 /\ counter' = 2
    BY <1>8 DEF EncodeFullBlock
  <2>3. dest' \in Buffers(DestSize)
    BY <1>4, <1>5, <1>8, Sizes, WriteByte DEF EncodeFullBlock
  <2>4. QED
    BY <1>3, <2>1, <2>2, <2>3, Sizes
<1>9. ASSUME EncodeByte PROVE Typed
  <2>1. read_index < size /\ write_index + 1 <= DestSize /\ counter # MaxCode
    BY <1>9 DEF EncodeByte, AtByte, AtFullBlock, Reading, HasSpace, Needed
  <2>2. /\ read_index' = read_index + 1 /\ code_index' = code_index
        /\ write_index' = write_index + 1 /\ counter' = counter + 1
    BY <1>9 DEF EncodeByte
  <2>3. dest' \in Buffers(DestSize)
    BY <1>3, <1>5, <1>9, Sizes, WriteByte DEF EncodeByte
  <2>4. QED
    BY <1>3, <2>1, <2>2, <2>3, Sizes
<1>10. ASSUME EncodeEnd PROVE Typed
  <2>1. write_index + 1 <= DestSize
    BY <1>10 DEF EncodeEnd, AtFullBlock, HasSpace, Needed
  <2>2. /\ UNCHANGED <<read_index, code_index, counter>>
        /\ write_index' = write_index + 1
    BY <1>10 DEF EncodeEnd
  <2>3. dest' \in Buffers(DestSize)
    BY <1>4, <1>6, <1>10, Sizes, WriteByte DEF EncodeEnd
  <2>4. QED
    BY <1>3, <2>1, <2>2, <2>3, Sizes
<1>11. ASSUME EncodeNoSpace PROVE Typed
  <2>1. dest' \in Buffers(DestSize)
    BY <1>3, <1>4, <1>11 DEF EncodeNoSpace
  <2>2. UNCHANGED <<read_index, write_index, code_index, counter>>
    BY <1>11 DEF EncodeNoSpace
  <2>3. QED
    BY <2>1, <2>2 DEF Safe, TypeOK
<1>12. Typed
  BY <1>7, <1>8, <1>9, <1>10, <1>11 DEF Encode
<1>13. TypeOK'
  BY <1>1, <1>12 DEF Safe, TypeOK, Places, Finished
<1>14. QED
  BY <1>2, <1>13 DEF Safe

(* A frame reaches the decoder as it was received.                         *)
LEMMA DeliverSafe ==
  ASSUME Safe, Deliver
  PROVE  Safe'
<1>1. PICK k \in 0..(write_index - 1) :
        /\ wire' = [j \in 0..k |-> dest[j]] /\ frame_size' = k + 1
        /\ pc' = IF k + 1 < MinFrame THEN "rejected" ELSE "block"
  BY DEF Deliver
<1>2. /\ frame' = wire' /\ read_idx' = 1 /\ write_idx' = 0 /\ i' = 0
      /\ block' = dest[0] /\ UNCHANGED <<message, encoder>>
  BY DEF Deliver
<1>3. /\ k \in Nat /\ k < DestSize /\ frame_size' \in Nat
      /\ 0..k = 0..(frame_size' - 1) /\ 0..k \subseteq 0..(DestSize - 1)
      /\ 0 \in 0..k /\ 1 \in 1..frame_size' /\ 0 \in 0..(DestSize - 1)
      /\ dest \in Buffers(DestSize)
  BY <1>1, Sizes DEF Safe, TypeOK
<1>4. wire' \in Buffers(frame_size') /\ wire'[0] = dest[0] /\ dest[0] \in Byte
  BY <1>1, <1>3 DEF Buffers
<1>5. pc' \in {"rejected", "block"}
  BY <1>1
<1>6. TypeOK'
  BY <1>2, <1>3, <1>4, <1>5
  DEF Safe, TypeOK, Places, Finished, message, encoder
<1>7. DecodeInv'
  BY <1>2, <1>3, <1>4 DEF DecodeInv
<1>8. InPlace'
  BY <1>2, <1>3, <1>5 DEF InPlace, Unread
<1>9. QED
  BY <1>6, <1>7, <1>8 DEF Safe

(* What the decoder's invariant says, in numbers.                          *)
LEMMA DecoderFacts ==
  ASSUME Safe, pc \in {"block", "copy"}
  PROVE  /\ frame_size \in Nat /\ read_idx \in Nat /\ write_idx \in Nat
         /\ i \in Nat /\ block \in Nat /\ block <= MaxCode /\ block \in Byte
         /\ read_idx >= 1 /\ read_idx <= frame_size
         /\ wire \in Buffers(frame_size) /\ frame \in Buffers(frame_size)
         /\ Unread \in Nat /\ Unread < frame_size /\ write_idx <= Unread
         /\ \A k \in Unread..(frame_size - 1) : frame[k] = wire[k]
  BY Sizes DEF Safe, TypeOK, DecodeInv, InPlace, Unread, Byte

LEMMA DecodeSafe ==
  ASSUME Safe, Decode
  PROVE  Safe'
<1>1. pc \in {"block", "copy"} /\ UNCHANGED <<message, encoder, wire, frame_size>>
  BY DEF Decode, DecodeEnd, DecodeBlock, DecodeCopy, DecodeNext, decoder
<1>2. /\ frame_size \in Nat /\ read_idx \in Nat /\ write_idx \in Nat
      /\ i \in Nat /\ block \in Nat /\ block \in Byte
      /\ read_idx >= 1 /\ read_idx <= frame_size
      /\ Unread \in Nat /\ Unread < frame_size /\ write_idx <= Unread
  BY <1>1, DecoderFacts
<1>3. wire \in Buffers(frame_size) /\ frame \in Buffers(frame_size)
  BY <1>1, DecoderFacts
<1>4. \A k \in Unread..(frame_size - 1) : frame[k] = wire[k]
  BY <1>1, DecoderFacts
<1>5. ASSUME frame' \in Buffers(frame_size), pc' \in Places,
             read_idx' \in Nat, write_idx' \in Nat, i' \in Nat, block' \in Byte
      PROVE  TypeOK'
  BY <1>1, <1>5 DEF Safe, TypeOK, message, encoder
<1>6. CASE DecodeEnd
  <2>1. pc' \in {"decoded", "rejected"} /\ UNCHANGED decoder
    BY <1>6 DEF DecodeEnd
  <2>2. TypeOK'
    BY <1>2, <1>3, <1>5, <2>1 DEF decoder, Places, Finished
  <2>3. QED
    BY <2>1, <2>2 DEF Safe, DecodeInv, InPlace
<1>7. CASE DecodeBlock
  <2>1. /\ pc = "block" /\ block # 0 /\ i' = 0
        /\ pc' = IF read_idx + block - 1 < frame_size
                 THEN "copy" ELSE "rejected"
        /\ UNCHANGED <<frame, read_idx, write_idx, block>>
    BY <1>7 DEF DecodeBlock, BlockFits
  <2>2. pc' \in {"copy", "rejected"}
    BY <2>1
  <2>3. TypeOK'
    BY <1>2, <1>3, <1>5, <2>1, <2>2 DEF Places, Finished
  <2>4. DecodeInv'
    BY <1>1, <2>1 DEF Safe, DecodeInv
  <2>5. CASE pc' = "copy"
    <3>1. read_idx + block - 1 < frame_size
      BY <2>1, <2>5
    <3>2. Unread = read_idx - 1 /\ Unread' = Unread
      BY <1>2, <2>1, <2>5 DEF Unread
    <3>3. InPlace'
      BY <1>1, <1>2, <1>4, <2>1, <3>1, <3>2 DEF InPlace
    <3>4. QED
      BY <2>3, <2>4, <3>3 DEF Safe
  <2>6. CASE pc' = "rejected"
    BY <2>3, <2>4, <2>6 DEF Safe, InPlace
  <2>7. QED
    BY <2>2, <2>5, <2>6
<1>8. CASE DecodeCopy
  <2>1. /\ pc = "copy" /\ pc' = "copy" /\ i < block - 1 /\ i' = i + 1
        /\ frame' = [frame EXCEPT ![write_idx] = frame[read_idx + i]]
        /\ write_idx' = write_idx + 1
        /\ UNCHANGED <<read_idx, block>>
    BY <1>8 DEF DecodeCopy
  <2>2. read_idx + block - 1 < frame_size
    BY <2>1 DEF Safe, InPlace
  <2>3. /\ Unread = read_idx - 1 + i /\ Unread' = Unread + 1
        /\ Unread' < frame_size /\ read_idx + i \in 0..(frame_size - 1)
    BY <1>2, <2>1, <2>2 DEF Unread
  <2>4. frame[read_idx + i] \in Byte
    BY <1>2, <1>3, <2>3, ReadByte
  <2>5. /\ frame' \in Buffers(frame_size)
        /\ \A k \in 0..(frame_size - 1) : k # write_idx => frame'[k] = frame[k]
    <3> DEFINE b == frame[read_idx + i]
    <3>1. b \in Byte /\ frame' = [frame EXCEPT ![write_idx] = b]
      BY <2>1, <2>4
    <3> HIDE DEF b
    <3>2. frame' \in Buffers(frame_size)
      BY <1>3, <3>1 DEF Buffers
    <3>3. \A k \in 0..(frame_size - 1) : k # write_idx => frame'[k] = frame[k]
      BY <1>3, <3>1 DEF Buffers
    <3>4. QED
      BY <3>2, <3>3
  <2>6. TypeOK'
    BY <1>2, <1>5, <2>1, <2>5 DEF Places
  <2>7. \A k \in Unread'..(frame_size - 1) : frame'[k] = wire[k]
    <3> TAKE k \in Unread'..(frame_size - 1)
    <3>1. k \in Unread..(frame_size - 1) /\ k \in 0..(frame_size - 1)
          /\ k # write_idx
      BY <1>2, <2>3
    <3>2. QED
      BY <1>4, <2>5, <3>1
  <2>8. DecodeInv'
    BY <1>1, <2>1 DEF Safe, DecodeInv
  <2>9. write_idx' <= Unread' /\ i' < block
    BY <1>2, <2>1, <2>3
  <2>10. InPlace'
    BY <1>1, <2>1, <2>2, <2>3, <2>7, <2>9 DEF InPlace
  <2>11. QED
    BY <2>6, <2>8, <2>10 DEF Safe
<1>9. CASE DecodeNext
  <2>1. /\ pc = "copy" /\ pc' = "block" /\ i = block - 1 /\ i' = i
        /\ block' = frame[read_idx + block - 1]
        /\ read_idx' = read_idx + block
    BY <1>9 DEF DecodeNext
  <2>2. read_idx + block - 1 < frame_size /\ block >= 1
    BY <1>2, <2>1 DEF Safe, InPlace
  <2>3. /\ Unread = read_idx + block - 2 /\ Unread' = Unread + 1
        /\ Unread' < frame_size /\ read_idx' \in 1..frame_size
        /\ read_idx' - 1 = read_idx + block - 1
        /\ read_idx + block - 1 \in Unread..(frame_size - 1)
        /\ read_idx + block - 1 \in 0..(frame_size - 1)
    BY <1>2, <2>1, <2>2 DEF Unread
  <2>4. block' \in Byte /\ block' = wire[read_idx' - 1]
    BY <1>2, <1>3, <1>4, <2>1, <2>3, ReadByte
  <2>5. /\ frame' \in Buffers(frame_size)
        /\ \A k \in 0..(frame_size - 1) : k # write_idx => frame'[k] = frame[k]
        /\ write_idx' \in {write_idx, write_idx + 1}
    <3>1. CASE /\ frame' = [frame EXCEPT ![write_idx] = 0]
               /\ write_idx' = write_idx + 1
      <4>1. 0 \in Byte
        BY Sizes DEF Byte
      <4>2. frame' \in Buffers(frame_size)
        BY <1>3, <3>1, <4>1 DEF Buffers
      <4>3. \A k \in 0..(frame_size - 1) :
               k # write_idx => frame'[k] = frame[k]
        BY <1>3, <3>1 DEF Buffers
      <4>4. QED
        BY <3>1, <4>2, <4>3
    <3>2. CASE UNCHANGED <<frame, write_idx>>
      BY <1>3, <3>2
    <3>3. QED
      BY <1>9, <3>1, <3>2 DEF DecodeNext
  <2>6. TypeOK'
    BY <1>2, <1>5, <2>1, <2>3, <2>4, <2>5 DEF Places
  <2>7. \A k \in Unread'..(frame_size - 1) : frame'[k] = wire[k]
    <3> TAKE k \in Unread'..(frame_size - 1)
    <3>1. k \in Unread..(frame_size - 1) /\ k \in 0..(frame_size - 1)
          /\ k # write_idx
      BY <1>2, <2>3
    <3>2. QED
      BY <1>4, <2>5, <3>1
  <2>8. DecodeInv'
    BY <1>1, <2>3, <2>4 DEF DecodeInv
  <2>9. write_idx' <= Unread'
    BY <1>2, <2>3, <2>5
  <2>10. InPlace'
    BY <1>1, <2>1, <2>3, <2>7, <2>9 DEF InPlace
  <2>11. QED
    BY <2>6, <2>8, <2>10 DEF Safe
<1>10. QED
  BY <1>6, <1>7, <1>8, <1>9 DEF Decode

LEMMA SafeNext == Safe /\ [Next]_vars => Safe'
<1> SUFFICES ASSUME Safe, [Next]_vars PROVE Safe'
  OBVIOUS
<1>1. CASE UNCHANGED vars
  BY <1>1 DEF vars, message, encoder, decoder, Safe, TypeOK, DecodeInv,
              InPlace, Unread
<1>2. QED
  BY <1>1, EncodeSafe, DeliverSafe, DecodeSafe DEF Next, Done

(* Every reachable state has its types: no index leaves its buffer.        *)
THEOREM TypeCorrect == Spec => []TypeOK
  BY SafeInit, SafeNext, PTL DEF Spec, Safe

(* Whatever frame arrives, the decoder stays inside it and overwrites only *)
(* what it has read.                                                       *)
THEOREM InPlaceAlways == Spec => []InPlace
  BY SafeInit, SafeNext, PTL DEF Spec, Safe

-----------------------------------------------------------------------------
(* Remainders, by the size of a full block.                                *)
LEMMA DivMod ==
  ASSUME NEW a \in Nat, NEW d \in Nat, d > 0
  PROVE  /\ a \div d \in Int /\ a % d \in Nat /\ a % d < d
         /\ a = (d * (a \div d)) + (a % d)
  OBVIOUS

LEMMA SameRemainder ==
  ASSUME NEW d \in Nat, d > 0, NEW q \in Int, NEW r \in Int,
         NEW s \in Nat, s < d, NEW t \in Nat, t < d,
         (d * q) + s = (d * r) + t
  PROVE  s = t
<1> DEFINE z == q - r
<1>1. z \in Int /\ d * z = t - s
  OBVIOUS
<1>2. z >= 1 => d * z >= d
  BY <1>1
<1>3. z <= -1 => d * z <= -d
  BY <1>1
<1>4. z = 0
  BY <1>1, <1>2, <1>3
<1>5. QED
  BY <1>1, <1>4

LEMMA AddRemainder ==
  ASSUME NEW d \in Nat, d > 0, NEW r \in Nat, r % d = 0
  PROVE  /\ (r + d) % d = 0
         /\ \A s \in 0..(d - 1) : (r + s) % d = s
<1>1. r \div d \in Int /\ r = d * (r \div d)
  BY DivMod
<1>2. ASSUME NEW a \in Nat, NEW q \in Int, NEW s \in Nat, s < d,
             a = (d * q) + s
      PROVE  a % d = s
  <2>1. /\ a \div d \in Int /\ a % d \in Nat /\ a % d < d
        /\ a = (d * (a \div d)) + (a % d)
    BY DivMod
  <2>2. QED
    BY <1>2, <2>1, SameRemainder
<1>3. (r + d) % d = 0
  <2> DEFINE q == r \div d
  <2>1. q \in Int /\ r = d * q
    BY <1>1
  <2> HIDE DEF q
  <2>2. /\ r + d \in Nat /\ q + 1 \in Int /\ 0 \in Nat /\ 0 < d
        /\ r + d = (d * (q + 1)) + 0
    BY <2>1
  <2>3. QED
    BY <1>2, <2>2
<1>4. ASSUME NEW s \in 0..(d - 1) PROVE (r + s) % d = s
  <2>1. /\ r + s \in Nat /\ s \in Nat /\ s < d
        /\ r + s = (d * (r \div d)) + s
    BY <1>1
  <2>2. QED
    BY <1>1, <1>2, <2>1
<1>5. QED
  BY <1>3, <1>4

LEMMA ZeroRemainder ==
  ASSUME NEW d \in Nat, d > 0
  PROVE  0 % d = 0
  OBVIOUS

LEMMA Multiples ==
  ASSUME NEW d \in Nat, d > 0, NEW x \in Nat, NEW b \in Nat
  PROVE  /\ x * d <= b => x <= b \div d
         /\ (x + 1) * d = x * d + d /\ x * d \in Nat
         /\ b \div d >= 1 => b >= d
<1>1. x * d <= b => x <= b \div d
  OBVIOUS
<1>2. (x + 1) * d = x * d + d /\ x * d \in Nat
  OBVIOUS
<1>3. b \div d >= 1 => b >= d
  OBVIOUS
<1>4. QED
  BY <1>1, <1>2, <1>3

-----------------------------------------------------------------------------
(* The round trip, for blocks and messages of every size.                  *)
Full == MaxCode - 1    \* the bytes of a full block

(* The message is a parameter, b: it stays while the frame goes its way.   *)
(* The n bytes before byte k are a longest row of bytes other than zero.   *)
Run(b, k, n) ==
  /\ \A j \in (k - n)..(k - 1) : b[j] # 0
  /\ n < k => b[k - n - 1] = 0

(* Byte k is a zero directly after full blocks: LosesZero, of one byte.    *)
Lost(b, k) == b[k] = 0 /\ \E n \in 1..k : n % Full = 0 /\ Run(b, k, n)

(* A block may begin with byte k: at the start, after a zero, or, when     *)
(* byte k is not a zero itself, after full blocks.                         *)
Opens(b, k) ==
  \E n \in 0..k : n % Full = 0 /\ Run(b, k, n) /\ (n > 0 => b[k] # 0)

(* The code at byte p of d counts c, and the block holds the bytes of the  *)
(* message from byte k on.                                                 *)
Data(b, d, p, k, c) ==
  \A q \in k..(k + c - 2) : b[q] # 0 /\ d[q - k + p + 1] = b[q]

(* codes: where the codes of d are.  org[p]: the byte of the message with  *)
(* which the block of the code at p begins.                                *)
Closed(b, d, codes, org, p) ==
  /\ d[p] \in 1..MaxCode /\ p + d[p] \in codes
  /\ Data(b, d, p, org[p], d[p])
  /\ \/ /\ b[org[p] + d[p] - 1] = 0
        /\ org[p + d[p]] = org[p] + d[p]
     \/ /\ d[p] = MaxCode /\ b[org[p] + d[p] - 1] # 0
        /\ org[p + d[p]] = org[p] + d[p] - 1

Layout(b, d, codes, org, last) ==
  /\ codes \subseteq 0..last /\ 0 \in codes /\ last \in codes
  /\ org \in [Nat -> Nat] /\ org[0] = 0
  /\ \A p \in codes : Opens(b, org[p])
  /\ \A p \in codes : p # last => Closed(b, d, codes, org, p)

(* The encoder has read the first read_index bytes of the message.         *)
Open(codes, org) ==
  /\ Layout(buf, dest, codes, org, code_index)
  /\ org[code_index] + counter - 1 = read_index
  /\ Data(buf, dest, code_index, org[code_index], counter)

(* x full blocks have been closed by a code of their own.                  *)
Overhead(x) ==
  write_index = read_index + 1 + x /\ x * Full + counter - 1 <= read_index

EncodeInv ==
  pc = "encode" =>
    /\ \E codes \in SUBSET Nat, org \in [Nat -> Nat] : Open(codes, org)
    /\ code_index + counter = write_index
    /\ \A k \in 0..(write_index - 1) : k # code_index => dest[k] # 0
    /\ \E x \in Nat : Overhead(x)

(* d holds the frame of the message, of z bytes, with the delimiter at     *)
(* byte end.                                                               *)
Framed(b, z, d, end, codes, org, last) ==
  /\ Layout(b, d, codes, org, last)
  /\ d[last] \in 1..MaxCode /\ Data(b, d, last, org[last], d[last])
  /\ org[last] + d[last] - 1 = z /\ last + d[last] = end
  /\ d[end] = 0 /\ \A k \in 0..(end - 1) : d[k] # 0

FrameOf(b, z, d, end) ==
  \E codes \in SUBSET Nat, org \in [Nat -> Nat], last \in Nat :
    Framed(b, z, d, end, codes, org, last)

EncodedInv == pc = "encoded" => FrameOf(buf, size, dest, write_index - 1)

(* The first n bytes of the message have been decoded into the first w     *)
(* bytes of f: to themselves, or to fewer.                                 *)
Output(b, f, w, n) ==
  /\ (\E k \in 0..(n - 1) : Lost(b, k)) => w < n
  /\ (\A k \in 0..(n - 1) : ~Lost(b, k)) =>
        w = n /\ \A k \in 0..(n - 1) : f[k] = b[k]

Decoded(n) == Output(buf, frame, write_idx, n)

Decoding(codes, org) ==
  /\ pc = "copy" => read_idx - 1 \in codes /\ Decoded(org[read_idx - 1] + i)
  /\ pc = "block" /\ block # 0 =>
        read_idx - 1 \in codes /\ Decoded(org[read_idx - 1])
  /\ pc = "block" /\ block = 0 => Decoded(size)

TripInv ==
  source = "device" /\ pc \in {"block", "copy"} =>
    \E codes \in SUBSET Nat, org \in [Nat -> Nat], last \in Nat :
      /\ Framed(buf, size, wire, frame_size - 1, codes, org, last)
      /\ Decoding(codes, org)

EndInv ==
  /\ pc = "refused" => size = BufSize
  /\ source = "device" /\ pc \in {"encoded", "block", "copy", "decoded"}
        /\ size = BufSize => BufSize >= Full
  /\ pc = "decoded" /\ source = "device" => Decoded(size)
  /\ pc \in {"encode", "encoded"} => source = "device"

Trip == EncodeInv /\ EncodedInv /\ TripInv /\ EndInv

LEMMA FullSize ==
  /\ Full \in Nat /\ Full > 0 /\ MaxCode = Full + 1 /\ MaxCode \in Nat
  /\ BufSize \in Nat /\ BufSize \div Full \in Nat
  /\ DestSize = BufSize + (BufSize \div Full) + 1 /\ DestSize \in Nat
<1>1. /\ MaxCode \in Nat /\ MaxCode > 1 /\ BufSize \in Nat
      /\ DestSize \in Nat
  BY Sizes
<1>2. Full \in Nat /\ Full > 0 /\ MaxCode = Full + 1
  BY <1>1 DEF Full
<1>3. BufSize \div Full \in Nat
  BY <1>1, <1>2, DivNat
<1>4. DestSize = BufSize + (BufSize \div Full) + 1
  BY DEF DestSize, Full
<1>5. QED
  BY <1>1, <1>2, <1>3, <1>4

-----------------------------------------------------------------------------
(* Rows of bytes other than zero.                                          *)
LEMMA RunUnique ==
  ASSUME NEW k \in Nat, NEW n \in 0..k, NEW m \in 0..k,
         Run(buf, k, n), Run(buf, k, m)
  PROVE  n = m
<1>1. ASSUME NEW a \in 0..k, NEW b \in 0..k, Run(buf, k, a), Run(buf, k, b)
      PROVE  ~(a < b)
  <2> SUFFICES ASSUME a < b PROVE FALSE
    OBVIOUS
  <2>1. k - a - 1 \in (k - b)..(k - 1) /\ a < k
    OBVIOUS
  <2>2. QED
    BY <1>1, <2>1 DEF Run
<1>2. ~(n < m) /\ ~(m < n)
  BY <1>1
<1>3. QED
  BY <1>2

(* A row goes on behind the bytes of a block.                              *)
LEMMA RunOn ==
  ASSUME NEW k \in Nat, NEW n \in 0..k, Run(buf, k, n), NEW c \in Nat,
         \A q \in k..(k + c - 1) : buf[q] # 0
  PROVE  n + c \in 0..(k + c) /\ Run(buf, k + c, n + c)
<1>1. \A j \in (k + c - (n + c))..(k + c - 1) : buf[j] # 0
  <2> TAKE j \in (k + c - (n + c))..(k + c - 1)
  <2>1. j \in (k - n)..(k - 1) \/ j \in k..(k + c - 1)
    OBVIOUS
  <2>2. QED
    BY <2>1 DEF Run
<1>2. n + c < k + c => buf[k + c - (n + c) - 1] = 0
  <2> SUFFICES ASSUME n + c < k + c PROVE buf[k + c - (n + c) - 1] = 0
    OBVIOUS
  <2>1. n < k /\ k + c - (n + c) - 1 = k - n - 1
    OBVIOUS
  <2>2. QED
    BY <2>1 DEF Run
<1>3. QED
  BY <1>1, <1>2 DEF Run

(* A zero behind a full block is lost, behind any other block it is not.   *)
LEMMA ZeroBehindBlock ==
  ASSUME NEW k \in Nat, Opens(buf, k), NEW c \in 1..MaxCode,
         \A q \in k..(k + c - 2) : buf[q] # 0, buf[k + c - 1] = 0
  PROVE  Lost(buf, k + c - 1) <=> c = MaxCode
<1>1. PICK n \in 0..k : n % Full = 0 /\ Run(buf, k, n) /\ (n > 0 => buf[k] # 0)
  BY DEF Opens
<1> DEFINE s == c - 1
<1>2. /\ s \in Nat /\ c = s + 1 /\ k + c - 1 = k + s /\ k + c - 2 = k + s - 1
      /\ n \in Nat /\ s <= Full
  BY FullSize
<1> HIDE DEF s
<1>3. n + s \in 0..(k + s) /\ Run(buf, k + s, n + s)
  BY <1>1, <1>2, RunOn
<1>4. CASE c = MaxCode
  <2>1. s = Full /\ (n + s) % Full = 0 /\ n + s \in 1..(k + s)
    BY <1>1, <1>2, <1>3, <1>4, FullSize, AddRemainder
  <2>2. QED
    BY <1>2, <1>3, <1>4, <2>1 DEF Lost
<1>5. CASE c # MaxCode
  <2>1. s \in 0..(Full - 1)
    BY <1>2, <1>5, FullSize
  <2>2. (n + s) % Full = s
    BY <1>1, <1>2, <2>1, FullSize, AddRemainder
  <2>3. ASSUME NEW m \in 1..(k + s), m % Full = 0, Run(buf, k + s, m)
        PROVE  FALSE
    <3>1. k + s \in Nat /\ m \in 0..(k + s)
      BY <1>2
    <3>2. m = n + s
      BY <1>3, <2>3, <3>1, RunUnique
    <3>3. s = 0
      BY <2>2, <2>3, <3>2
    <3>4. n > 0 /\ k + c - 1 = k
      BY <1>2, <3>2, <3>3
    <3>5. QED
      BY <1>1, <3>4
  <2>4. QED
    BY <1>2, <1>5, <2>3 DEF Lost
<1>6. QED
  BY <1>4, <1>5

-----------------------------------------------------------------------------
(* What an invariant says of a buffer depends on few of its bytes.         *)
LEMMA KeepClosed ==
  ASSUME NEW d, NEW e, NEW p \in Nat, NEW last \in Nat, p < last,
         NEW codes, codes \subseteq 0..last, NEW org \in [Nat -> Nat],
         NEW more, codes \subseteq more, NEW origin \in [Nat -> Nat],
         \A q \in 0..last : origin[q] = org[q],
         \A q \in 0..(last - 1) : e[q] = d[q],
         Closed(buf, d, codes, org, p)
  PROVE  Closed(buf, e, more, origin, p)
<1>1. e[p] = d[p] /\ origin[p] = org[p] /\ org[p] \in Nat
  OBVIOUS
<1>2. d[p] \in 1..MaxCode /\ d[p] \in Nat /\ p + d[p] \in codes
  BY FullSize DEF Closed
<1>3. p + d[p] \in 0..last /\ origin[p + d[p]] = org[p + d[p]]
  BY <1>2
<1>4. Data(buf, e, p, org[p], d[p])
  <2> SUFFICES ASSUME NEW q \in org[p]..(org[p] + d[p] - 2)
               PROVE  buf[q] # 0 /\ e[q - org[p] + p + 1] = buf[q]
    BY DEF Data
  <2>1. buf[q] # 0 /\ d[q - org[p] + p + 1] = buf[q]
    BY DEF Closed, Data
  <2>2. q - org[p] + p + 1 \in 0..(last - 1)
    BY <1>1, <1>2, <1>3
  <2>3. QED
    BY <2>1, <2>2
<1>5. QED
  BY <1>1, <1>2, <1>3, <1>4 DEF Closed

LEMMA KeepLayout ==
  ASSUME NEW d, NEW e, NEW last \in Nat, NEW codes, NEW org \in [Nat -> Nat],
         Layout(buf, d, codes, org, last), \A q \in 0..(last - 1) : e[q] = d[q]
  PROVE  Layout(buf, e, codes, org, last)
<1>1. codes \subseteq 0..last
  BY DEF Layout
<1>2. ASSUME NEW p \in codes, p # last PROVE Closed(buf, e, codes, org, p)
  <2>1. Closed(buf, d, codes, org, p) /\ p \in Nat /\ p < last
    BY <1>1, <1>2 DEF Layout
  <2>2. QED
    BY <1>1, <2>1, KeepClosed
<1>3. QED
  BY <1>2 DEF Layout

(* A block is closed, and a code opens the next one.                       *)
LEMMA NextBlock ==
  ASSUME NEW d, NEW e, NEW last \in Nat, NEW codes \in SUBSET Nat,
         NEW org \in [Nat -> Nat], Layout(buf, d, codes, org, last),
         \A q \in 0..(last - 1) : e[q] = d[q],
         NEW w \in Nat, last < w, NEW n \in Nat, Opens(buf, n),
         Closed(buf, e, codes \union {w}, [org EXCEPT ![w] = n], last)
  PROVE  Layout(buf, e, codes \union {w}, [org EXCEPT ![w] = n], w)
<1> DEFINE more == codes \union {w}
           origin == [org EXCEPT ![w] = n]
<1>1. /\ origin \in [Nat -> Nat] /\ origin[w] = n
      /\ \A q \in 0..last : origin[q] = org[q]
  OBVIOUS
<1>2. codes \subseteq 0..last /\ 0 \in codes /\ last \in codes
  BY DEF Layout
<1>3. more \subseteq 0..w /\ 0 \in more /\ w \in more /\ codes \subseteq more
  BY <1>2
<1>4. origin[0] = 0
  BY <1>1, <1>2 DEF Layout
<1>5. ASSUME NEW p \in more PROVE Opens(buf, origin[p])
  <2>1. p \in codes => p \in 0..last /\ Opens(buf, org[p])
    BY <1>2 DEF Layout
  <2>2. QED
    BY <1>1, <2>1
<1>6. ASSUME NEW p \in more, p # w PROVE Closed(buf, e, more, origin, p)
  <2>1. CASE p = last
    BY <2>1
  <2>2. CASE p # last
    <3>1. Closed(buf, d, codes, org, p) /\ p \in Nat /\ p < last
      BY <1>2, <1>6, <2>2 DEF Layout
    <3> HIDE DEF more, origin
    <3>2. QED
      BY <1>1, <1>2, <1>3, <3>1, KeepClosed
  <2>3. QED
    BY <2>1, <2>2
<1> HIDE DEF more, origin
<1>7. Layout(buf, e, more, origin, w)
  BY <1>1, <1>3, <1>4, <1>5, <1>6 DEF Layout
<1>8. QED
  BY <1>7 DEF more, origin

-----------------------------------------------------------------------------
(* The encoder.                                                            *)
LEMMA TripInit == Init => Trip
<1> SUFFICES ASSUME Init PROVE Trip
  OBVIOUS
<1>1. /\ read_index = 0 /\ write_index = 1 /\ code_index = 0 /\ counter = 1
  BY DEF Init
<1>2. CASE InitDevice
  <2>1. pc = "encode" /\ source = "device" /\ size \in Nat
    BY <1>2, Sizes DEF InitDevice
  <2> DEFINE codes == {0}
             org == [p \in Nat |-> 0]
  <2>2. codes \in SUBSET Nat /\ org \in [Nat -> Nat]
    OBVIOUS
  <2>3. Opens(buf, 0)
    <3>1. 0 % Full = 0 /\ 0 \in 0..0
      BY FullSize, ZeroRemainder
    <3>2. Run(buf, 0, 0)
      BY DEF Run
    <3>3. QED
      BY <3>1, <3>2 DEF Opens
  <2>4. Layout(buf, dest, codes, org, 0)
    BY <2>3 DEF Layout
  <2>5. Data(buf, dest, 0, 0, 1)
    BY DEF Data
  <2>6. Open(codes, org)
    BY <1>1, <2>4, <2>5 DEF Open
  <2> HIDE DEF codes, org
  <2>7. Overhead(0)
    <3>1. 0 * Full + 1 - 1 = 0
      BY FullSize
    <3>2. QED
      BY <1>1, <3>1 DEF Overhead
  <2>8. EncodeInv
    <3>1. \E x \in Nat : Overhead(x)
      BY <2>7
    <3>2. \A k \in 0..(write_index - 1) : k # code_index => dest[k] # 0
      BY <1>1
    <3>3. code_index + counter = write_index
      BY <1>1
    <3>4. QED
      BY <2>2, <2>6, <3>1, <3>2, <3>3 DEF EncodeInv
  <2>9. QED
    BY <2>1, <2>8 DEF Trip, EncodedInv, TripInv, EndInv
<1>3. CASE InitNoise
  BY <1>3 DEF InitNoise, Trip, EncodeInv, EncodedInv, TripInv, EndInv
<1>4. QED
  BY <1>2, <1>3 DEF Init

(* What the invariants say of an encoder at work, in numbers.              *)
LEMMA EncoderFacts ==
  ASSUME Safe, Trip, pc = "encode"
  PROVE  /\ read_index \in Nat /\ size \in Nat /\ code_index \in Nat
         /\ write_index \in Nat /\ counter \in Nat
         /\ read_index <= size /\ size <= BufSize
         /\ write_index <= DestSize
         /\ counter >= 1 /\ counter <= MaxCode /\ counter \in Byte
         /\ code_index + counter = write_index /\ source = "device"
<1>1. /\ read_index \in Nat /\ size \in Nat /\ code_index \in Nat
      /\ write_index \in Nat /\ counter \in Nat
      /\ read_index <= size /\ size <= BufSize
      /\ write_index <= DestSize
      /\ counter >= 1 /\ counter <= MaxCode /\ counter \in Byte
  BY Sizes DEF Safe, TypeOK, Byte
<1>2. code_index + counter = write_index /\ source = "device"
  BY DEF Trip, EncodeInv, EndInv
<1>3. QED
  BY <1>1, <1>2

(* There is space for every byte but, after a message that fills           *)
(* alertBuffer, the delimiter.                                             *)
LEMMA Space ==
  ASSUME Safe, Trip, pc = "encode"
  PROVE  /\ Reading => HasSpace
         /\ ~HasSpace => size = BufSize
         /\ ~Reading /\ HasSpace /\ size = BufSize => BufSize >= Full
<1>1. /\ read_index \in Nat /\ size \in Nat /\ counter \in Nat
      /\ read_index <= size /\ size <= BufSize /\ counter >= 1
  BY EncoderFacts
<1>2. PICK x \in Nat :
        /\ write_index = read_index + 1 + x
        /\ x * Full + counter - 1 <= read_index
  BY DEF Trip, EncodeInv, Overhead
<1> DEFINE y == BufSize \div Full
<1>3. /\ y \in Nat /\ DestSize = BufSize + y + 1 /\ BufSize \in Nat
      /\ Full \in Nat /\ Full > 0 /\ MaxCode = Full + 1
      /\ y >= 1 => BufSize >= Full
  BY FullSize, Multiples
<1>4. x * Full \in Nat /\ (x + 1) * Full = x * Full + Full
  BY <1>3, Multiples
<1>5. x <= y
  <2>1. x * Full <= BufSize
    BY <1>1, <1>2, <1>3, <1>4
  <2>2. QED
    BY <1>3, <2>1, Multiples
<1>6. counter = MaxCode => x + 1 <= y
  <2> SUFFICES ASSUME counter = MaxCode PROVE x + 1 <= y
    OBVIOUS
  <2>1. (x + 1) * Full <= BufSize /\ x + 1 \in Nat
    BY <1>1, <1>2, <1>3, <1>4
  <2>2. QED
    BY <1>3, <2>1, Multiples
<1> HIDE DEF y
<1>7. Reading => HasSpace
  <2> SUFFICES ASSUME Reading PROVE HasSpace
    OBVIOUS
  <2>1. read_index < size
    BY DEF Reading
  <2>2. CASE AtFullBlock
    <3>1. counter = MaxCode /\ Needed = 2
      BY <2>2 DEF AtFullBlock, Needed
    <3>2. write_index + 2 <= DestSize
      BY <1>1, <1>2, <1>3, <1>6, <2>1, <3>1
    <3>3. QED
      BY <3>1, <3>2 DEF HasSpace
  <2>3. CASE ~AtFullBlock
    <3>1. Needed = 1
      BY <2>3 DEF Needed
    <3>2. write_index + 1 <= DestSize
      BY <1>1, <1>2, <1>3, <1>5, <2>1
    <3>3. QED
      BY <3>1, <3>2 DEF HasSpace
  <2>4. QED
    BY <2>2, <2>3
<1>8. ~Reading =>
        /\ read_index = size
        /\ HasSpace <=> write_index + 1 <= DestSize
  BY <1>1 DEF Reading, HasSpace, Needed, AtFullBlock
<1>9. ~HasSpace => size = BufSize
  BY <1>1, <1>2, <1>3, <1>5, <1>7, <1>8
<1>10. ~Reading /\ HasSpace /\ size = BufSize => BufSize >= Full
  <2> SUFFICES ASSUME ~Reading, HasSpace, size = BufSize PROVE y >= 1
    BY <1>3
  <2>1. BufSize + 1 + x + 1 <= BufSize + y + 1
    BY <1>2, <1>3, <1>8
  <2>2. QED
    BY <1>3, <2>1
<1>11. QED
  BY <1>7, <1>9, <1>10

LEMMA EncodeZeroTrip ==
  ASSUME Safe, Trip, EncodeZero
  PROVE  EncodeInv'
<1>0. pc = "encode" /\ read_index < size /\ buf[read_index] = 0
  BY DEF EncodeZero, AtZero, Reading
<1>1. /\ read_index \in Nat /\ size \in Nat /\ code_index \in Nat
      /\ write_index \in Nat /\ counter \in Nat /\ counter >= 1
      /\ counter \in 1..MaxCode
      /\ code_index + counter = write_index /\ write_index <= DestSize
      /\ DestSize \in Nat
  BY <1>0, EncoderFacts, FullSize
<1>2. /\ read_index' = read_index + 1 /\ code_index' = write_index
      /\ write_index' = write_index + 1 /\ counter' = 1
      /\ dest' = [dest EXCEPT ![code_index] = counter]
      /\ buf' = buf /\ size' = size
  BY DEF EncodeZero, PatchCode, FirstCount, message
<1>3. /\ dest'[code_index] = counter
      /\ \A k \in 0..(DestSize - 1) : k # code_index => dest'[k] = dest[k]
  BY <1>1, <1>2 DEF Safe, TypeOK, Buffers
<1>4. write_index < DestSize
  <2>1. write_index + 1 <= DestSize
    BY <1>0 DEF EncodeZero, HasSpace, Needed, AtFullBlock
  <2>2. QED
    BY <1>1, <2>1
<1>5. PICK codes \in SUBSET Nat, org \in [Nat -> Nat] : Open(codes, org)
  BY <1>0 DEF Trip, EncodeInv
<1>6. /\ Layout(buf, dest, codes, org, code_index)
      /\ org[code_index] + counter = read_index + 1
      /\ Data(buf, dest, code_index, org[code_index], counter)
      /\ org[code_index] \in Nat
  BY <1>1, <1>5 DEF Open
<1>7. PICK more \in SUBSET Nat, origin \in [Nat -> Nat] :
        /\ more = codes \union {write_index}
        /\ origin = [org EXCEPT ![write_index] = read_index + 1]
  <2>1. /\ codes \union {write_index} \in SUBSET Nat
        /\ [org EXCEPT ![write_index] = read_index + 1] \in [Nat -> Nat]
    BY <1>1
  <2>2. QED
    BY <2>1
<1>8. Data(buf, dest', code_index, org[code_index], counter)
  <2> SUFFICES ASSUME NEW q \in org[code_index]..(org[code_index] + counter - 2)
               PROVE  /\ buf[q] # 0
                      /\ dest'[q - org[code_index] + code_index + 1] = buf[q]
    BY DEF Data
  <2>1. /\ q - org[code_index] + code_index + 1 \in 0..(DestSize - 1)
        /\ q - org[code_index] + code_index + 1 # code_index
    BY <1>1, <1>4, <1>6
  <2>2. QED
    BY <1>3, <1>6, <2>1 DEF Data
<1>9. Closed(buf, dest', more, origin, code_index)
  <2>1. /\ dest'[code_index] = counter /\ write_index \in more
        /\ origin[code_index] = org[code_index]
    BY <1>1, <1>3, <1>7
  <2>2. buf[org[code_index] + counter - 1] = 0
    BY <1>0, <1>1, <1>6
  <2>3. origin[code_index + counter] = org[code_index] + counter
    BY <1>1, <1>6, <1>7
  <2>4. QED
    BY <1>1, <1>8, <2>1, <2>2, <2>3 DEF Closed
<1>10. Opens(buf, read_index + 1)
  <2>1. 0 % Full = 0 /\ 0 \in 0..(read_index + 1)
    BY <1>1, FullSize, ZeroRemainder
  <2>2. Run(buf, read_index + 1, 0)
    BY <1>0, <1>1 DEF Run
  <2>3. QED
    BY <2>1, <2>2 DEF Opens
<1>11. Layout(buf, dest', more, origin, write_index)
  <2>1. \A q \in 0..(code_index - 1) : dest'[q] = dest[q]
    BY <1>1, <1>3, <1>4
  <2>2. code_index < write_index /\ read_index + 1 \in Nat
    BY <1>1
  <2>3. QED
    BY <1>1, <1>6, <1>7, <1>9, <1>10, <2>1, <2>2, NextBlock
<1>12. Open(more, origin)'
  <2>1. Data(buf, dest', write_index, read_index + 1, 1)
    BY <1>1 DEF Data
  <2>2. read_index + 1 + 1 - 1 = read_index'
    BY <1>1, <1>2
  <2>3. QED
    BY <1>1, <1>2, <1>7, <1>11, <2>1, <2>2 DEF Open
<1>13. \A k \in 0..write_index : k # write_index => dest'[k] # 0
  <2> TAKE k \in 0..write_index
  <2>1. k # write_index => k \in 0..(write_index - 1) /\ k \in 0..(DestSize - 1)
    BY <1>1, <1>4
  <2>2. k \in 0..(write_index - 1) /\ k # code_index => dest[k] # 0
    BY <1>0 DEF Trip, EncodeInv
  <2>3. QED
    BY <1>1, <1>3, <2>1, <2>2
<1>14. \E x \in Nat : Overhead(x)'
  <2>1. PICK x \in Nat : Overhead(x)
    BY <1>0 DEF Trip, EncodeInv
  <2>2. x * Full \in Nat
    BY FullSize, Multiples
  <2>3. Overhead(x)'
    BY <1>1, <1>2, <2>1, <2>2 DEF Overhead, Full
  <2>4. QED
    BY <2>3
<1>15. write_index' - 1 = write_index /\ code_index' + counter' = write_index'
  BY <1>1, <1>2
<1>16. QED
  BY <1>2, <1>7, <1>12, <1>13, <1>14, <1>15 DEF EncodeInv

LEMMA EncodeFullBlockTrip ==
  ASSUME Safe, Trip, EncodeFullBlock
  PROVE  EncodeInv'
<1>0. /\ pc = "encode" /\ read_index < size /\ buf[read_index] # 0
      /\ counter = MaxCode /\ write_index + 2 <= DestSize
  BY DEF EncodeFullBlock, AtFullBlock, Reading, HasSpace, Needed
<1>1. /\ read_index \in Nat /\ size \in Nat /\ code_index \in Nat
      /\ write_index \in Nat /\ counter \in Nat /\ counter >= 1
      /\ counter \in 1..MaxCode /\ counter = Full + 1
      /\ Full \in Nat /\ Full > 0
      /\ code_index + counter = write_index /\ DestSize \in Nat
  BY <1>0, EncoderFacts, FullSize
<1>2. /\ read_index' = read_index + 1 /\ code_index' = write_index
      /\ write_index' = write_index + 2 /\ counter' = 2
      /\ dest' = [[dest EXCEPT ![code_index] = counter]
                       EXCEPT ![write_index + 1] = buf[read_index]]
      /\ buf' = buf /\ size' = size
  BY DEF EncodeFullBlock, PatchCode, message
<1>3. /\ dest'[code_index] = counter /\ dest'[write_index + 1] = buf[read_index]
      /\ \A k \in 0..(DestSize - 1) :
            k # code_index /\ k # write_index + 1 => dest'[k] = dest[k]
  <2>1. dest \in Buffers(DestSize)
    BY DEF Safe, TypeOK
  <2>2. /\ code_index \in 0..(DestSize - 1)
        /\ write_index + 1 \in 0..(DestSize - 1)
        /\ code_index # write_index + 1
    BY <1>0, <1>1
  <2>3. QED
    BY <1>2, <2>1, <2>2 DEF Buffers
<1>4. PICK codes \in SUBSET Nat, org \in [Nat -> Nat] : Open(codes, org)
  BY <1>0 DEF Trip, EncodeInv
<1>5. /\ Layout(buf, dest, codes, org, code_index)
      /\ org[code_index] + counter = read_index + 1
      /\ Data(buf, dest, code_index, org[code_index], counter)
      /\ org[code_index] \in Nat /\ code_index \in codes
  BY <1>1, <1>4 DEF Open, Layout
<1>6. PICK more \in SUBSET Nat, origin \in [Nat -> Nat] :
        /\ more = codes \union {write_index}
        /\ origin = [org EXCEPT ![write_index] = read_index]
  <2>1. /\ codes \union {write_index} \in SUBSET Nat
        /\ [org EXCEPT ![write_index] = read_index] \in [Nat -> Nat]
    BY <1>1
  <2>2. QED
    BY <2>1
<1>7. Data(buf, dest', code_index, org[code_index], counter)
  <2> SUFFICES ASSUME NEW q \in org[code_index]..(org[code_index] + counter - 2)
               PROVE  /\ buf[q] # 0
                      /\ dest'[q - org[code_index] + code_index + 1] = buf[q]
    BY DEF Data
  <2>1. /\ q - org[code_index] + code_index + 1 \in 0..(DestSize - 1)
        /\ q - org[code_index] + code_index + 1 # code_index
        /\ q - org[code_index] + code_index + 1 # write_index + 1
    BY <1>0, <1>1, <1>5
  <2>2. QED
    BY <1>3, <1>5, <2>1 DEF Data
<1>8. Closed(buf, dest', more, origin, code_index)
  <2>1. /\ dest'[code_index] = counter /\ write_index \in more
        /\ origin[code_index] = org[code_index]
    BY <1>1, <1>3, <1>6
  <2>2. buf[org[code_index] + counter - 1] # 0
    BY <1>0, <1>1, <1>5
  <2>3. origin[code_index + counter] = org[code_index] + counter - 1
    BY <1>1, <1>5, <1>6
  <2>4. QED
    BY <1>0, <1>1, <1>7, <2>1, <2>2, <2>3 DEF Closed
<1>9. Opens(buf, read_index)
  <2> DEFINE k == org[code_index]
  <2>1. PICK n \in 0..k : n % Full = 0 /\ Run(buf, k, n)
    BY <1>5 DEF Layout, Opens
  <2>2. k \in Nat /\ read_index = k + Full /\ n \in Nat
    BY <1>1, <1>5
  <2>3. \A q \in k..(k + Full - 1) : buf[q] # 0
    BY <1>1, <1>5 DEF Data
  <2> HIDE DEF k
  <2>4. n + Full \in 0..read_index /\ Run(buf, read_index, n + Full)
    BY <1>1, <2>1, <2>2, <2>3, RunOn
  <2>5. (n + Full) % Full = 0
    BY <1>1, <2>1, <2>2, AddRemainder
  <2>6. QED
    BY <1>0, <2>4, <2>5 DEF Opens
<1>10. Layout(buf, dest', more, origin, write_index)
  <2>1. \A q \in 0..(code_index - 1) : dest'[q] = dest[q]
    BY <1>0, <1>1, <1>3
  <2>2. code_index < write_index
    BY <1>1
  <2>3. QED
    BY <1>1, <1>5, <1>6, <1>8, <1>9, <2>1, <2>2, NextBlock
<1>11. Open(more, origin)'
  <2>1. Data(buf, dest', write_index, read_index, 2)
    <3> SUFFICES ASSUME NEW q \in read_index..read_index
                 PROVE  /\ buf[q] # 0
                        /\ dest'[q - read_index + write_index + 1] = buf[q]
      BY <1>1 DEF Data
    <3>1. q = read_index /\ q - read_index + write_index + 1 = write_index + 1
      BY <1>1
    <3>2. QED
      BY <1>0, <1>3, <3>1
  <2>2. read_index + 2 - 1 = read_index' /\ origin[write_index] = read_index
    BY <1>1, <1>2, <1>6
  <2>3. QED
    BY <1>2, <1>10, <2>1, <2>2 DEF Open
<1>12. \A k \in 0..(write_index + 1) : k # write_index => dest'[k] # 0
  <2> TAKE k \in 0..(write_index + 1)
  <2>1. k # write_index =>
          /\ k \in 0..(write_index - 1) \/ k = write_index + 1
          /\ k \in 0..(DestSize - 1)
    BY <1>0, <1>1
  <2>2. k \in 0..(write_index - 1) /\ k # code_index => dest[k] # 0
    BY <1>0 DEF Trip, EncodeInv
  <2>3. QED
    BY <1>0, <1>1, <1>3, <2>1, <2>2
<1>13. \E x \in Nat : Overhead(x)'
  <2>1. PICK x \in Nat : Overhead(x)
    BY <1>0 DEF Trip, EncodeInv
  <2>2. x * Full \in Nat /\ (x + 1) * Full = x * Full + Full /\ x + 1 \in Nat
    BY <1>1, Multiples
  <2>3. /\ write_index' = read_index' + 1 + (x + 1)
        /\ (x + 1) * Full + counter' - 1 <= read_index'
    BY <1>1, <1>2, <2>1, <2>2 DEF Overhead
  <2>4. Overhead(x + 1)'
    BY <2>3 DEF Overhead, Full
  <2>5. QED
    BY <2>2, <2>4
<1>14. /\ write_index' - 1 = write_index + 1
       /\ code_index' + counter' = write_index'
  BY <1>1, <1>2
<1>15. QED
  BY <1>2, <1>6, <1>11, <1>12, <1>13, <1>14 DEF EncodeInv

LEMMA EncodeByteTrip ==
  ASSUME Safe, Trip, EncodeByte
  PROVE  EncodeInv'
<1>0. /\ pc = "encode" /\ read_index < size /\ buf[read_index] # 0
      /\ counter # MaxCode /\ write_index + 1 <= DestSize
  BY DEF EncodeByte, AtByte, AtFullBlock, Reading, HasSpace, Needed
<1>1. /\ read_index \in Nat /\ size \in Nat /\ code_index \in Nat
      /\ write_index \in Nat /\ counter \in Nat /\ counter >= 1
      /\ code_index + counter = write_index /\ DestSize \in Nat
  BY <1>0, EncoderFacts, FullSize
<1>2. /\ read_index' = read_index + 1 /\ code_index' = code_index
      /\ write_index' = write_index + 1 /\ counter' = counter + 1
      /\ dest' = [dest EXCEPT ![write_index] = buf[read_index]]
      /\ buf' = buf
  BY DEF EncodeByte, message
<1>3. /\ dest'[write_index] = buf[read_index]
      /\ \A k \in 0..(DestSize - 1) : k # write_index => dest'[k] = dest[k]
  <2>1. dest \in Buffers(DestSize) /\ write_index \in 0..(DestSize - 1)
    BY <1>0, <1>1 DEF Safe, TypeOK
  <2>2. QED
    BY <1>2, <2>1 DEF Buffers
<1>4. PICK codes \in SUBSET Nat, org \in [Nat -> Nat] : Open(codes, org)
  BY <1>0 DEF Trip, EncodeInv
<1>5. /\ Layout(buf, dest, codes, org, code_index)
      /\ org[code_index] + counter = read_index + 1
      /\ Data(buf, dest, code_index, org[code_index], counter)
      /\ org[code_index] \in Nat
  BY <1>1, <1>4 DEF Open, Layout
<1>6. Layout(buf, dest', codes, org, code_index)
  <2>1. \A q \in 0..(code_index - 1) : dest'[q] = dest[q]
    BY <1>0, <1>1, <1>3
  <2>2. QED
    BY <1>1, <1>5, <2>1, KeepLayout
<1>7. Data(buf, dest', code_index, org[code_index], counter + 1)
  <2> DEFINE k == org[code_index]
  <2> SUFFICES ASSUME NEW q \in k..(k + counter - 1)
               PROVE  buf[q] # 0 /\ dest'[q - k + code_index + 1] = buf[q]
    BY <1>1, <1>5 DEF Data
  <2>1. CASE q = read_index
    <3>1. q - k + code_index + 1 = write_index
      BY <1>1, <1>5, <2>1
    <3>2. QED
      BY <1>0, <1>3, <2>1, <3>1
  <2>2. CASE q # read_index
    <3>1. /\ q \in k..(k + counter - 2)
          /\ q - k + code_index + 1 \in 0..(DestSize - 1)
          /\ q - k + code_index + 1 # write_index
      BY <1>0, <1>1, <1>5, <2>2
    <3>2. QED
      BY <1>3, <1>5, <3>1 DEF Data
  <2>3. QED
    BY <2>1, <2>2
<1>8. Open(codes, org)'
  <2>1. org[code_index] + (counter + 1) - 1 = read_index + 1
    BY <1>1, <1>5
  <2>2. QED
    BY <1>2, <1>6, <1>7, <2>1 DEF Open
<1>9. \A k \in 0..write_index : k # code_index => dest'[k] # 0
  <2> TAKE k \in 0..write_index
  <2>1. /\ k \in 0..(write_index - 1) \/ k = write_index
        /\ k \in 0..(DestSize - 1)
    BY <1>0, <1>1
  <2>2. k \in 0..(write_index - 1) /\ k # code_index => dest[k] # 0
    BY <1>0 DEF Trip, EncodeInv
  <2>3. QED
    BY <1>0, <1>3, <2>1, <2>2
<1>10. \E x \in Nat : Overhead(x)'
  <2>1. PICK x \in Nat : Overhead(x)
    BY <1>0 DEF Trip, EncodeInv
  <2>2. x * Full \in Nat
    BY FullSize, Multiples
  <2>3. Overhead(x)'
    BY <1>1, <1>2, <2>1, <2>2 DEF Overhead, Full
  <2>4. QED
    BY <2>3
<1>11. write_index' - 1 = write_index /\ code_index' + counter' = write_index'
  BY <1>1, <1>2
<1>12. QED
  BY <1>2, <1>8, <1>9, <1>10, <1>11 DEF EncodeInv

(* The last code and the delimiter complete the frame.                     *)
LEMMA EncodeEndTrip ==
  ASSUME Safe, Trip, EncodeEnd
  PROVE  /\ FrameOf(buf, size, dest', write_index)
         /\ write_index' - 1 = write_index
         /\ size = BufSize => BufSize >= Full
<1>0. /\ pc = "encode" /\ ~Reading /\ HasSpace /\ write_index + 1 <= DestSize
  BY DEF EncodeEnd, HasSpace, Needed, AtFullBlock
<1>1. /\ read_index = size /\ size \in Nat /\ code_index \in Nat
      /\ write_index \in Nat /\ counter \in Nat /\ counter >= 1
      /\ counter \in 1..MaxCode
      /\ code_index + counter = write_index /\ DestSize \in Nat
  BY <1>0, EncoderFacts, FullSize DEF Reading
<1>2. /\ write_index' = write_index + 1
      /\ dest' = [[dest EXCEPT ![code_index] = counter]
                       EXCEPT ![write_index] = 0]
  BY DEF EncodeEnd, PatchCode
<1>3. /\ dest'[code_index] = counter /\ dest'[write_index] = 0
      /\ \A k \in 0..(DestSize - 1) :
            k # code_index /\ k # write_index => dest'[k] = dest[k]
  <2>1. dest \in Buffers(DestSize)
    BY DEF Safe, TypeOK
  <2>2. /\ code_index \in 0..(DestSize - 1) /\ write_index \in 0..(DestSize - 1)
        /\ code_index # write_index
    BY <1>0, <1>1
  <2>3. QED
    BY <1>2, <2>1, <2>2 DEF Buffers
<1>4. PICK codes \in SUBSET Nat, org \in [Nat -> Nat] : Open(codes, org)
  BY <1>0 DEF Trip, EncodeInv
<1>5. /\ Layout(buf, dest, codes, org, code_index)
      /\ org[code_index] + counter - 1 = size
      /\ Data(buf, dest, code_index, org[code_index], counter)
      /\ org[code_index] \in Nat
  BY <1>1, <1>4 DEF Open
<1>6. Layout(buf, dest', codes, org, code_index)
  <2>1. \A q \in 0..(code_index - 1) : dest'[q] = dest[q]
    BY <1>0, <1>1, <1>3
  <2>2. QED
    BY <1>1, <1>5, <2>1, KeepLayout
<1>7. Data(buf, dest', code_index, org[code_index], counter)
  <2> SUFFICES ASSUME NEW q \in org[code_index]..(org[code_index] + counter - 2)
               PROVE  /\ buf[q] # 0
                      /\ dest'[q - org[code_index] + code_index + 1] = buf[q]
    BY DEF Data
  <2>1. /\ q - org[code_index] + code_index + 1 \in 0..(DestSize - 1)
        /\ q - org[code_index] + code_index + 1 # code_index
        /\ q - org[code_index] + code_index + 1 # write_index
    BY <1>0, <1>1, <1>5
  <2>2. QED
    BY <1>3, <1>5, <2>1 DEF Data
<1>8. \A k \in 0..(write_index - 1) : dest'[k] # 0
  <2> TAKE k \in 0..(write_index - 1)
  <2>1. k \in 0..(DestSize - 1) /\ k # write_index
    BY <1>0, <1>1
  <2>2. k # code_index => dest[k] # 0
    BY <1>0 DEF Trip, EncodeInv
  <2>3. QED
    BY <1>1, <1>3, <2>1, <2>2
<1>9. Framed(buf, size, dest', write_index, codes, org, code_index)
  BY <1>1, <1>3, <1>5, <1>6, <1>7, <1>8 DEF Framed
<1>10. FrameOf(buf, size, dest', write_index)
  BY <1>1, <1>9 DEF FrameOf
<1>11. QED
  BY <1>0, <1>1, <1>2, <1>10, Space

LEMMA EncodeTrip ==
  ASSUME Safe, Trip, Encode
  PROVE  Trip'
<1>1. /\ pc = "encode" /\ source = "device" /\ source' = source
      /\ size' = size /\ buf' = buf
  BY EncoderFacts DEF Encode, EncodeZero, EncodeFullBlock, EncodeByte,
                      EncodeEnd, EncodeNoSpace, message
<1>2. CASE EncodeZero \/ EncodeFullBlock \/ EncodeByte
  <2>1. EncodeInv' /\ pc' = "encode"
    BY <1>1, <1>2, EncodeZeroTrip, EncodeFullBlockTrip, EncodeByteTrip
    DEF EncodeZero, EncodeFullBlock, EncodeByte
  <2>2. QED
    BY <1>1, <2>1 DEF Trip, EncodedInv, TripInv, EndInv
<1>3. CASE EncodeEnd
  <2>1. /\ pc' = "encoded" /\ write_index' - 1 = write_index
        /\ FrameOf(buf, size, dest', write_index)
        /\ size = BufSize => BufSize >= Full
    BY <1>3, EncodeEndTrip DEF EncodeEnd
  <2>2. EncodedInv'
    BY <1>1, <2>1 DEF EncodedInv
  <2>3. EndInv'
    BY <1>1, <2>1 DEF EndInv, Full
  <2>4. QED
    BY <2>1, <2>2, <2>3 DEF Trip, EncodeInv, TripInv
<1>4. CASE EncodeNoSpace
  <2>1. pc' = "refused" /\ size = BufSize
    BY <1>1, <1>4, Space DEF EncodeNoSpace
  <2>2. QED
    BY <1>1, <2>1 DEF Trip, EncodeInv, EncodedInv, TripInv, EndInv
<1>5. QED
  BY <1>2, <1>3, <1>4 DEF Encode

-----------------------------------------------------------------------------
(* Every byte of a frame but the last is nonzero, so it is cut where it    *)
(* ends.                                                                   *)
LEMMA DeliverTrip ==
  ASSUME Safe, Trip, Deliver
  PROVE  Trip'
<1> DEFINE end == write_index - 1
<1>1. /\ pc = "encoded" /\ source = "device" /\ source' = source
      /\ buf' = buf /\ size' = size /\ dest' = dest
  BY DEF Deliver, Trip, EndInv, message, encoder
<1>2. PICK codes \in SUBSET Nat, org \in [Nat -> Nat], last \in Nat :
        Framed(buf, size, dest, end, codes, org, last)
  BY <1>1 DEF Trip, EncodedInv, FrameOf
<1>3. /\ Layout(buf, dest, codes, org, last) /\ dest[last] \in 1..MaxCode
      /\ Data(buf, dest, last, org[last], dest[last])
      /\ org[last] + dest[last] - 1 = size /\ last + dest[last] = end
      /\ dest[end] = 0 /\ \A k \in 0..(end - 1) : dest[k] # 0
  BY <1>2 DEF Framed
<1>4. end \in Nat /\ last < end /\ dest[last] \in Nat /\ org[last] \in Nat
  BY <1>3, FullSize
<1>5. PICK k \in 0..end :
        /\ dest[k] = 0
        /\ wire' = [j \in 0..k |-> dest[j]] /\ frame_size' = k + 1
        /\ pc' = IF k + 1 < MinFrame THEN "rejected" ELSE "block"
  BY DEF Deliver
<1>6. k = end
  <2>1. k = end \/ k \in 0..(end - 1)
    <3>1. write_index \in Nat
      BY Sizes DEF Safe, TypeOK
    <3>2. QED
      BY <1>4, <1>5, <3>1
  <2>2. QED
    BY <1>3, <1>5, <2>1
<1>7. /\ frame_size' - 1 = end /\ pc' \in {"rejected", "block"}
      /\ \A j \in 0..end : wire'[j] = dest[j]
  BY <1>4, <1>5, <1>6
<1>8. /\ read_idx' = 1 /\ write_idx' = 0 /\ block' = dest[0] /\ dest[0] # 0
  BY <1>3, <1>4 DEF Deliver
<1> HIDE DEF end
<1>9. Framed(buf, size, wire', end, codes, org, last)
  <2>1. Layout(buf, wire', codes, org, last)
    <3>1. \A q \in 0..(last - 1) : wire'[q] = dest[q]
      BY <1>4, <1>7
    <3>2. QED
      BY <1>3, <3>1, KeepLayout
  <2>2. wire'[last] = dest[last] /\ wire'[end] = dest[end]
    BY <1>4, <1>7
  <2>3. Data(buf, wire', last, org[last], dest[last])
    <3> SUFFICES ASSUME NEW q \in org[last]..(org[last] + dest[last] - 2)
                 PROVE  /\ buf[q] # 0
                        /\ wire'[q - org[last] + last + 1] = buf[q]
      BY DEF Data
    <3>1. q - org[last] + last + 1 \in 0..end
      BY <1>3, <1>4
    <3>2. QED
      BY <1>3, <1>7, <3>1 DEF Data
  <2>4. \A q \in 0..(end - 1) : wire'[q] # 0
    BY <1>3, <1>4, <1>7
  <2>5. QED
    BY <1>3, <2>1, <2>2, <2>3, <2>4 DEF Framed
<1>10. Decoding(codes, org)'
  <2>1. 0 \in codes /\ org[0] = 0 /\ read_idx' - 1 = 0
    BY <1>3, <1>8 DEF Layout
  <2>2. Output(buf', frame', write_idx', 0)
    BY <1>8 DEF Output
  <2>3. QED
    BY <1>7, <1>8, <2>1, <2>2 DEF Decoding, Decoded
<1>11. TripInv'
  BY <1>1, <1>7, <1>9, <1>10 DEF TripInv
<1>12. EndInv'
  BY <1>1, <1>7 DEF Trip, EndInv, Full
<1>13. QED
  BY <1>7, <1>11, <1>12 DEF Trip, EncodeInv, EncodedInv

-----------------------------------------------------------------------------
(* The decoder.  It copies one more byte, or one more zero, of the message *)
(* or it leaves out a lost one.                                            *)
LEMMA OutputNext ==
  ASSUME NEW b, NEW f, NEW g, NEW w \in Nat, NEW v, NEW n \in Nat,
         Output(b, f, w, n),
         \/ /\ ~Lost(b, n) /\ v = w + 1
            /\ \A k \in Nat : k < w => g[k] = f[k]
            /\ w = n => g[w] = b[n]
         \/ Lost(b, n) /\ v = w /\ g = f
  PROVE  Output(b, g, v, n + 1)
<1>1. 0..(n + 1 - 1) = 0..(n - 1) \union {n}
  OBVIOUS
<1>2. w <= n
  BY DEF Output
<1>3. CASE Lost(b, n)
  <2>1. v < n + 1
    BY <1>2, <1>3
  <2>2. QED
    BY <1>1, <1>3, <2>1 DEF Output
<1>4. CASE ~Lost(b, n)
  <2>1. (\E k \in 0..n : Lost(b, k)) => v < n + 1
    <3> SUFFICES ASSUME NEW j \in 0..n, Lost(b, j)
                 PROVE  v < n + 1
      OBVIOUS
    <3>1. j \in 0..(n - 1)
      BY <1>4
    <3>2. w < n
      BY <3>1 DEF Output
    <3>3. QED
      BY <1>4, <3>2
  <2>2. (\A k \in 0..n : ~Lost(b, k)) =>
           /\ v = n + 1
           /\ \A k \in 0..n : g[k] = b[k]
    <3> SUFFICES ASSUME \A k \in 0..n : ~Lost(b, k)
                 PROVE  /\ v = n + 1
                        /\ \A k \in 0..n : g[k] = b[k]
      OBVIOUS
    <3>1. w = n /\ \A k \in 0..(n - 1) : f[k] = b[k]
      BY DEF Output
    <3>2. \A k \in 0..n : g[k] = b[k]
      <4> TAKE k \in 0..n
      <4>1. k = n \/ (k \in 0..(n - 1) /\ k < w)
        BY <3>1
      <4>2. QED
        BY <1>4, <3>1, <4>1
    <3>3. QED
      BY <1>4, <3>1, <3>2
  <2>3. n + 1 - 1 = n
    OBVIOUS
  <2>4. QED
    BY <2>1, <2>2, <2>3 DEF Output
<1>5. QED
  BY <1>3, <1>4

(* What the invariants say of a block that is being copied.                *)
LEMMA BlockFacts ==
  ASSUME Safe, pc = "copy", NEW codes \in SUBSET Nat, NEW org \in [Nat -> Nat],
         NEW last \in Nat, Decoding(codes, org),
         Framed(buf, size, wire, frame_size - 1, codes, org, last),
         NEW p, p = read_idx - 1, NEW k, k = org[p]
  PROVE  /\ p \in codes /\ p \in Nat /\ p <= last /\ k \in Nat /\ i \in Nat
         /\ block \in 1..MaxCode /\ block \in Nat /\ block = wire[p]
         /\ i <= block - 1
         /\ frame_size \in Nat /\ p + block <= frame_size - 1
         /\ write_idx \in Nat /\ write_idx <= p + i
         /\ Output(buf, frame, write_idx, k + i) /\ Opens(buf, k)
         /\ Data(buf, wire, p, k, block)
         /\ \A q \in (p + i)..(frame_size - 1) : frame[q] = wire[q]
<1>1. /\ frame_size \in Nat /\ read_idx \in Nat /\ write_idx \in Nat
      /\ i \in Nat /\ block \in Nat /\ block = wire[p]
      /\ Unread = p + i /\ write_idx <= p + i
      /\ \A q \in (p + i)..(frame_size - 1) : frame[q] = wire[q]
      /\ p + block <= frame_size - 1 /\ i <= block - 1
  <2>1. /\ frame_size \in Nat /\ read_idx \in Nat /\ write_idx \in Nat
        /\ i \in Nat /\ block \in Nat /\ Unread = p + i
    BY DecoderFacts DEF Unread
  <2>2. /\ write_idx <= Unread
        /\ \A q \in Unread..(frame_size - 1) : frame[q] = wire[q]
    BY DecoderFacts
  <2>3. read_idx + block - 1 < frame_size /\ i < block
    BY DEF Safe, InPlace
  <2>4. block = wire[p]
    BY DEF Safe, DecodeInv
  <2>5. QED
    BY <2>1, <2>2, <2>3, <2>4
<1>2. p \in codes /\ Output(buf, frame, write_idx, k + i)
  BY DEF Decoding, Decoded
<1>3. p \in 0..last /\ Opens(buf, k) /\ k \in Nat
  BY <1>2 DEF Framed, Layout
<1>4. wire[p] \in 1..MaxCode /\ Data(buf, wire, p, k, wire[p])
  BY <1>2 DEF Framed, Layout, Closed
<1>5. QED
  BY <1>1, <1>2, <1>3, <1>4

LEMMA DecodeCopyTrip ==
  ASSUME Safe, DecodeCopy, NEW codes \in SUBSET Nat, NEW org \in [Nat -> Nat],
         NEW last \in Nat, Decoding(codes, org),
         Framed(buf, size, wire, frame_size - 1, codes, org, last)
  PROVE  Decoding(codes, org)'
<1>1. /\ pc = "copy" /\ pc' = "copy" /\ i < block - 1 /\ i' = i + 1
      /\ frame' = [frame EXCEPT ![write_idx] = frame[read_idx + i]]
      /\ write_idx' = write_idx + 1 /\ buf' = buf /\ read_idx' = read_idx
  BY DEF DecodeCopy, message
<1>2. PICK p : p = read_idx - 1
  OBVIOUS
<1>3. PICK k : k = org[p]
  OBVIOUS
<1>4. /\ p \in codes /\ p \in Nat /\ k \in Nat /\ i \in Nat
      /\ block \in Nat /\ frame_size \in Nat /\ p + block <= frame_size - 1
      /\ write_idx \in Nat /\ write_idx <= p + i
      /\ Output(buf, frame, write_idx, k + i) /\ Data(buf, wire, p, k, block)
      /\ \A q \in (p + i)..(frame_size - 1) : frame[q] = wire[q]
  BY <1>1, <1>2, <1>3, BlockFacts
<1>5. read_idx + i = p + i + 1
  BY <1>2, <1>4, DecoderFacts, <1>1
<1>6. buf[k + i] # 0 /\ wire[p + i + 1] = buf[k + i]
  <2>1. k + i \in k..(k + block - 2) /\ k + i - k + p + 1 = p + i + 1
    BY <1>1, <1>4
  <2>2. QED
    BY <1>4, <2>1 DEF Data
<1>7. frame[read_idx + i] = buf[k + i]
  <2>1. p + i + 1 \in (p + i)..(frame_size - 1)
    BY <1>1, <1>4
  <2>2. QED
    BY <1>4, <1>5, <1>6, <2>1
<1>8. /\ frame'[write_idx] = buf[k + i]
      /\ \A q \in Nat : q < write_idx => frame'[q] = frame[q]
  <2>1. frame \in Buffers(frame_size) /\ write_idx \in 0..(frame_size - 1)
    BY <1>1, <1>4 DEF Safe, TypeOK
  <2>2. \A q \in Nat : q < write_idx => q \in 0..(frame_size - 1) /\ q # write_idx
    BY <1>4, <2>1
  <2>3. QED
    BY <1>1, <1>7, <2>1, <2>2 DEF Buffers
<1>9. ~Lost(buf, k + i)
  BY <1>6 DEF Lost
<1>10. PICK n \in Nat : n = k + i
  BY <1>4
<1>11. Output(buf, frame', write_idx', n + 1)
  BY <1>1, <1>4, <1>8, <1>9, <1>10, OutputNext
<1>12. n + 1 = org[p] + i'
  BY <1>1, <1>3, <1>4, <1>10
<1>13. QED
  BY <1>1, <1>2, <1>4, <1>11, <1>12 DEF Decoding, Decoded

(* The next code is read; the zero that closed the block is put back, or   *)
(* lost.                                                                   *)
LEMMA DecodeNextTrip ==
  ASSUME Safe, DecodeNext, NEW codes \in SUBSET Nat, NEW org \in [Nat -> Nat],
         NEW last \in Nat, Decoding(codes, org),
         Framed(buf, size, wire, frame_size - 1, codes, org, last)
  PROVE  Decoding(codes, org)'
<1>1. /\ pc = "copy" /\ pc' = "block" /\ i = block - 1
      /\ block' = frame[read_idx + block - 1]
      /\ read_idx' = read_idx + block /\ buf' = buf /\ size' = size
  BY DEF DecodeNext, message
<1>2. PICK p : p = read_idx - 1
  OBVIOUS
<1>3. PICK k : k = org[p]
  OBVIOUS
<1>4. /\ p \in codes /\ p \in Nat /\ p <= last /\ k \in Nat /\ i \in Nat
      /\ block \in 1..MaxCode /\ block \in Nat /\ block = wire[p]
      /\ frame_size \in Nat /\ p + block <= frame_size - 1
      /\ write_idx \in Nat /\ write_idx <= p + i
      /\ Output(buf, frame, write_idx, k + i) /\ Opens(buf, k)
      /\ Data(buf, wire, p, k, block)
      /\ \A q \in (p + i)..(frame_size - 1) : frame[q] = wire[q]
  BY <1>1, <1>2, <1>3, BlockFacts
<1>5. read_idx + block - 1 = p + block /\ read_idx' - 1 = p + block
  BY <1>1, <1>2, <1>4, DecoderFacts
<1>6. block' = wire[p + block]
  <2>1. p + block \in (p + i)..(frame_size - 1)
    BY <1>1, <1>4
  <2>2. QED
    BY <1>1, <1>4, <1>5, <2>1
<1>7. PICK n \in Nat : n = k + i
  BY <1>4
<1>8. Output(buf, frame, write_idx, n) /\ n = k + block - 1
  BY <1>1, <1>4, <1>7
<1>9. CASE p = last
  <2>1. wire[p + block] = 0 /\ n = size
    BY <1>3, <1>4, <1>8, <1>9 DEF Framed
  <2>2. UNCHANGED <<frame, write_idx>> /\ block' = 0
    BY <1>6, <2>1 DEF DecodeNext, ZeroAfter
  <2>3. Output(buf, frame', write_idx', size)
    BY <1>8, <2>1, <2>2
  <2>4. QED
    BY <1>1, <2>2, <2>3 DEF Decoding, Decoded
<1>10. CASE p # last
  <2>1. /\ p + block \in codes
        /\ \/ buf[n] = 0 /\ org[p + block] = n + 1
           \/ block = MaxCode /\ buf[n] # 0 /\ org[p + block] = n
    <3>1. Closed(buf, wire, codes, org, p)
      BY <1>4, <1>10 DEF Framed, Layout
    <3>2. k + block = n + 1
      BY <1>4, <1>8
    <3>3. QED
      BY <1>3, <1>4, <1>8, <3>1, <3>2 DEF Closed
  <2>2. block' # 0
    <3>1. p + block \in 0..(frame_size - 1 - 1)
      <4>1. /\ codes \subseteq 0..last /\ last + wire[last] = frame_size - 1
            /\ wire[last] \in 1..MaxCode
        BY DEF Framed, Layout
      <4>2. QED
        BY <1>4, <2>1, <4>1, FullSize
    <3>2. QED
      BY <1>6, <3>1 DEF Framed
  <2>3. Output(buf, frame', write_idx', org[p + block])
    <3>1. CASE buf[n] = 0
      <4>1. Lost(buf, n) <=> block = MaxCode
        <5>1. \A q \in k..(k + block - 2) : buf[q] # 0
          BY <1>4 DEF Data
        <5>2. QED
          BY <1>4, <1>8, <3>1, <5>1, ZeroBehindBlock
      <4>2. CASE block = MaxCode
        <5>1. UNCHANGED <<frame, write_idx>>
          BY <4>2 DEF DecodeNext, ZeroAfter
        <5>2. Output(buf, frame', write_idx', n + 1)
          BY <1>1, <1>4, <1>8, <4>1, <4>2, <5>1, OutputNext
        <5>3. QED
          BY <2>1, <3>1, <5>2
      <4>3. CASE block # MaxCode
        <5>1. /\ frame' = [frame EXCEPT ![write_idx] = 0]
              /\ write_idx' = write_idx + 1
          BY <2>2, <4>3 DEF DecodeNext, ZeroAfter
        <5>2. /\ frame'[write_idx] = 0
              /\ \A q \in Nat : q < write_idx => frame'[q] = frame[q]
          <6>1. /\ frame \in Buffers(frame_size)
                /\ write_idx \in 0..(frame_size - 1)
            BY <1>1, <1>4 DEF Safe, TypeOK
          <6>2. \A q \in Nat :
                  q < write_idx => q \in 0..(frame_size - 1) /\ q # write_idx
            BY <1>4, <6>1
          <6>3. QED
            BY <5>1, <6>1, <6>2 DEF Buffers
        <5>3. Output(buf, frame', write_idx', n + 1)
          BY <1>1, <1>4, <1>8, <3>1, <4>1, <4>3, <5>1, <5>2, OutputNext
        <5>4. QED
          BY <2>1, <3>1, <5>3
      <4>4. QED
        BY <4>2, <4>3
    <3>2. CASE buf[n] # 0
      <4>1. UNCHANGED <<frame, write_idx>> /\ org[p + block] = n
        BY <2>1, <3>2 DEF DecodeNext, ZeroAfter
      <4>2. QED
        BY <1>8, <4>1
    <3>3. QED
      BY <3>1, <3>2
  <2>4. QED
    BY <1>1, <1>5, <2>1, <2>2, <2>3 DEF Decoding, Decoded
<1>11. QED
  BY <1>9, <1>10

LEMMA DecodeTrip ==
  ASSUME Safe, Trip, Decode
  PROVE  Trip'
<1>1. /\ pc \in {"block", "copy"}
      /\ pc' \in {"block", "copy", "decoded", "rejected"}
      /\ UNCHANGED <<source, size, buf, wire, frame_size>>
  BY DEF Decode, DecodeEnd, DecodeBlock, DecodeCopy, DecodeNext,
         message, decoder
<1>2. CASE source # "device"
  BY <1>1, <1>2 DEF Trip, EncodeInv, EncodedInv, TripInv, EndInv
<1>3. CASE source = "device"
  <2>1. size = BufSize => BufSize >= Full
    BY <1>1, <1>3 DEF Trip, EndInv
  <2>2. PICK codes \in SUBSET Nat, org \in [Nat -> Nat], last \in Nat :
          /\ Framed(buf, size, wire, frame_size - 1, codes, org, last)
          /\ Decoding(codes, org)
    BY <1>1, <1>3 DEF Trip, TripInv
  <2>3. CASE DecodeEnd
    <3>1. pc' \in {"decoded", "rejected"} /\ UNCHANGED <<frame, write_idx>>
          /\ pc = "block" /\ block = 0
      BY <2>3 DEF DecodeEnd, decoder
    <3>2. Decoded(size)'
      BY <1>1, <2>2, <3>1 DEF Decoding, Decoded
    <3>3. EndInv'
      BY <1>1, <2>1, <3>1, <3>2 DEF EndInv, Full
    <3>4. QED
      BY <3>1, <3>3 DEF Trip, EncodeInv, EncodedInv, TripInv
  <2>4. ASSUME pc' \in {"block", "copy", "rejected"},
               pc' # "rejected" => Decoding(codes, org)'
        PROVE  Trip'
    <3>1. pc' # "rejected" => TripInv'
      BY <1>1, <2>2, <2>4 DEF TripInv
    <3>2. EndInv'
      BY <1>1, <2>1, <2>4 DEF EndInv, Full
    <3>3. QED
      BY <2>4, <3>1, <3>2 DEF Trip, EncodeInv, EncodedInv, TripInv
  <2>5. CASE DecodeBlock
    <3>1. /\ pc = "block" /\ block # 0 /\ i' = 0
          /\ pc' \in {"copy", "rejected"}
          /\ UNCHANGED <<frame, read_idx, write_idx, block>>
      BY <2>5 DEF DecodeBlock
    <3>2. read_idx - 1 \in codes /\ Decoded(org[read_idx - 1])
      BY <2>2, <3>1 DEF Decoding
    <3>3. org[read_idx - 1] + 0 = org[read_idx - 1]
      <4>1. org[read_idx - 1] \in Nat
        BY <3>2
      <4>2. QED
        BY <4>1
    <3>4. Decoding(codes, org)'
      BY <1>1, <3>1, <3>2, <3>3 DEF Decoding, Decoded
    <3>5. QED
      BY <2>4, <3>1, <3>4
  <2>6. CASE DecodeCopy
    <3>1. pc' = "copy"
      BY <2>6 DEF DecodeCopy
    <3>2. QED
      BY <2>2, <2>4, <2>6, <3>1, DecodeCopyTrip
  <2>7. CASE DecodeNext
    <3>1. pc' = "block"
      BY <2>7 DEF DecodeNext
    <3>2. QED
      BY <2>2, <2>4, <2>7, <3>1, DecodeNextTrip
  <2>8. QED
    BY <2>3, <2>5, <2>6, <2>7 DEF Decode
<1>4. QED
  BY <1>2, <1>3

LEMMA TripNext == Safe /\ Trip /\ [Next]_vars => Trip'
<1> SUFFICES ASSUME Safe, Trip, [Next]_vars PROVE Trip'
  OBVIOUS
<1>1. CASE UNCHANGED vars
  <2>1. /\ UNCHANGED <<pc, source, size, buf, dest, read_index, write_index>>
        /\ UNCHANGED <<code_index, counter, wire, frame_size, frame>>
        /\ UNCHANGED <<read_idx, write_idx, i, block>>
    BY <1>1 DEF vars, message, encoder, decoder
  <2>2. EncodeInv'
    BY <2>1 DEF Trip, EncodeInv, Open, Overhead, Full
  <2>3. EncodedInv' /\ EndInv'
    BY <2>1 DEF Trip, EncodedInv, EndInv, Decoded, Full
  <2>4. TripInv'
    BY <2>1 DEF Trip, TripInv, Decoding, Decoded
  <2>5. QED
    BY <2>2, <2>3, <2>4 DEF Trip
<1>2. QED
  BY <1>1, EncodeTrip, DeliverTrip, DecodeTrip DEF Next, Done

LEMMA TripAlways == Spec => [](Safe /\ Trip)
<1>1. Init => Safe /\ Trip
  BY SafeInit, TripInit
<1>2. Safe /\ Trip /\ [Next]_vars => (Safe /\ Trip)'
  BY SafeNext, TripNext
<1>3. QED
  BY <1>1, <1>2, PTL DEF Spec

(* Every message that is decoded is decoded to itself, whatever was in     *)
(* alertBufferCOBS, but for a zero directly after full blocks, whatever    *)
(* the sizes of the blocks and of the message.                             *)
THEOREM RoundTripAlways == Spec => []RoundTrip
<1>1. Safe /\ Trip => RoundTrip
  <2> SUFFICES ASSUME Safe, Trip, pc = "decoded", source = "device"
               PROVE  Unchanged <=> ~LosesZero
    BY DEF RoundTrip
  <2>1. Output(buf, frame, write_idx, size) /\ size \in Nat
    BY Sizes DEF Trip, EndInv, Decoded, Safe, TypeOK
  <2>2. LosesZero <=> \E k \in 0..(size - 1) : Lost(buf, k)
    BY DEF LosesZero, Lost, Run, Full
  <2>3. CASE LosesZero
    <3>1. write_idx < size
      BY <2>1, <2>2, <2>3 DEF Output
    <3>2. write_idx # size
      BY <2>1, <3>1
    <3>3. QED
      BY <2>3, <3>2 DEF Unchanged
  <2>4. CASE ~LosesZero
    BY <2>1, <2>2, <2>4 DEF Output, Unchanged
  <2>5. QED
    BY <2>3, <2>4
<1>2. QED
  BY <1>1, TripAlways, PTL

(* Only messages that fill alertBuffer are refused, and of those every one *)
(* shorter than a full block.                                              *)
THEOREM OnlyFullBufferRefusedAlways == Spec => []OnlyFullBufferRefused
<1>1. Safe /\ Trip => OnlyFullBufferRefused
  BY DEF Trip, EndInv, OnlyFullBufferRefused, Full
<1>2. QED
  BY <1>1, TripAlways, PTL

(* The encoded frame contains its delimiter only at its end.               *)
THEOREM DelimitedOnceAlways == Spec => []DelimitedOnce
<1>1. Safe /\ Trip => DelimitedOnce
  <2> SUFFICES ASSUME Safe, Trip, pc = "encoded",
                      NEW k \in 0..(write_index - 1)
               PROVE  dest[k] = 0 <=> k = write_index - 1
    BY DEF DelimitedOnce
  <2>1. PICK end : end = write_index - 1
    OBVIOUS
  <2>2. dest[end] = 0 /\ \A j \in 0..(end - 1) : dest[j] # 0
    BY <2>1 DEF Trip, EncodedInv, FrameOf, Framed
  <2>3. write_index \in Nat
    BY Sizes DEF Safe, TypeOK
  <2>4. k = end \/ k \in 0..(end - 1)
    BY <2>1, <2>3
  <2>5. ~(end \in 0..(end - 1))
    BY <2>1, <2>3
  <2>6. QED
    BY <2>1, <2>2, <2>4, <2>5
<1>2. QED
  BY <1>1, TripAlways, PTL
=============================================================================
