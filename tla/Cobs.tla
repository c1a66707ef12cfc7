-------------------------------- MODULE Cobs --------------------------------
(***************************************************************************)
(* src/dashboard/COBS.c and the way of one frame through it: the firmware  *)
(* encodes a message into alertBufferCOBS (Dashboard.c), SerialProducer    *)
(* cuts the received bytes at the delimiter, and Dispatcher::dispatchData  *)
(* decodes the frame in place.  A frame may also be line noise: any bytes  *)
(* up to a delimiter.                                                      *)
(*                                                                         *)
(* Each action is one iteration of a loop.  Buffers are functions from     *)
(* 0 .. length-1, indexed as in C.                                         *)
(***************************************************************************)
EXTENDS Naturals

CONSTANTS
  MaxCode,      \* the code of a full block, and the largest byte (0xFF)
  BufSize,      \* kAlertBufSize (100): the longest message
  MinFrame,     \* dispatchData rejects shorter frames (12, a header)
  NoiseSize,    \* bound: bytes of noise before the delimiter
  StaleBuffers  \* what earlier messages left in alertBufferCOBS

Byte == 0..MaxCode

(* kAlertBufCOBSize                                                        *)
DestSize_OneCode == BufSize + 1
DestSize == BufSize + (BufSize \div (MaxCode - 1)) + 1

Buffers(n) == [0..(n - 1) -> Byte]

ASSUME SizeAssumption ==
  /\ MaxCode \in Nat /\ MaxCode > 1
  /\ BufSize \in Nat /\ BufSize > 0
  /\ MinFrame \in Nat /\ MinFrame > 1
  /\ NoiseSize \in Nat
  /\ StaleBuffers \subseteq Buffers(DestSize)

VARIABLES
  pc,           \* where the frame is
  source,       \* "device" or "noise"
  size, buf,    \* cobs_encode: buf_size and buf
  dest,         \* cobs_encode: dest, which is alertBufferCOBS
  read_index, write_index, code_index, counter,   \* cobs_encode: locals
  wire,         \* the frame as received, with its delimiter
  frame_size,   \* cobs_decode: buf_size
  frame,        \* cobs_decode: buf, decoded in place
  read_idx, write_idx, i, block  \* cobs_decode: locals, block is its counter

message == <<source, size, buf>>
encoder == <<dest, read_index, write_index, code_index, counter>>
decoder == <<wire, frame_size, frame, read_idx, write_idx, i, block>>
vars    == <<pc, message, encoder, decoder>>

Finished == {"refused", "rejected", "decoded"}
Places   == {"encode", "encoded", "block", "copy"} \union Finished

NoFrame == [k \in {} |-> 0]


(* A message is about to be encoded.                                       *)
InitDevice ==
  /\ pc = "encode" /\ source = "device"
  /\ size \in 1..BufSize
  /\ buf \in Buffers(size)
  /\ wire = NoFrame /\ frame_size = 0 /\ block = 0

(* Noise up to a delimiter has been received.                              *)
InitNoise ==
  /\ source = "noise"
  /\ size = 0 /\ buf = NoFrame
  /\ \E n \in 1..NoiseSize, f \in [0..NoiseSize -> Byte] :
        /\ \A k \in 0..(n - 1) : f[k] # 0
        /\ \A k \in n..NoiseSize : f[k] = 0
        /\ wire = [k \in 0..n |-> f[k]] /\ frame_size = n + 1 /\ block = f[0]
        /\ pc = IF n + 1 < MinFrame THEN "rejected" ELSE "block"

Init ==
  /\ dest \in StaleBuffers
  /\ read_index = 0 /\ write_index = 1 /\ code_index = 0 /\ counter = 1
  /\ InitDevice \/ InitNoise
  /\ frame = wire /\ read_idx = 1 /\ write_idx = 0 /\ i = 0

-----------------------------------------------------------------------------
(* cobs_encode.                                                            *)

Reading == read_index < size

AtZero == Reading /\ buf[read_index] = 0
AtFullBlock_Never == FALSE
AtFullBlock == Reading /\ buf[read_index] # 0 /\ counter = MaxCode
AtByte == Reading /\ buf[read_index] # 0 /\ ~AtFullBlock

(* Bytes of dest the next iteration, or the delimiter, needs.              *)
Needed == IF AtFullBlock THEN 2 ELSE 1
HasSpace == write_index + Needed <= DestSize

FirstCount_Zero == 0
FirstCount == 1

PatchCode == [dest EXCEPT ![code_index] = counter]

(* A zero closes the block; the next code replaces it.                     *)
EncodeZero ==
  /\ pc = "encode"
  /\ AtZero /\ HasSpace
  /\ dest' = PatchCode
  /\ code_index' = write_index
  /\ counter' = FirstCount
  /\ write_index' = write_index + 1
  /\ read_index' = read_index + 1
  /\ UNCHANGED <<pc, message, decoder>>

(* A nonzero byte after a full block opens a block that no zero precedes.  *)
EncodeFullBlock ==
  /\ pc = "encode"
  /\ AtFullBlock /\ HasSpace
  /\ dest' = [PatchCode EXCEPT ![write_index + 1] = buf[read_index]]
  /\ code_index' = write_index
  /\ counter' = 2
  /\ write_index' = write_index + 2
  /\ read_index' = read_index + 1
  /\ UNCHANGED <<pc, message, decoder>>

EncodeByte ==
  /\ pc = "encode"
  /\ AtByte /\ HasSpace
  /\ dest' = [dest EXCEPT ![write_index] = buf[read_index]]
  /\ counter' = counter + 1
  /\ write_index' = write_index + 1
  /\ read_index' = read_index + 1
  /\ UNCHANGED <<pc, message, code_index, decoder>>

(* After the loop: the last code and the delimiter.                        *)
EncodeEnd ==
  /\ pc = "encode"
  /\ ~Reading /\ HasSpace
  /\ dest' = [PatchCode EXCEPT ![write_index] = 0]
  /\ write_index' = write_index + 1
  /\ pc' = "encoded"
  /\ UNCHANGED <<message, read_index, code_index, counter, decoder>>

(* COBS_ENCODING_NOT_ENOUGH_SPACE: nothing is sent.                        *)
EncodeNoSpace ==
  /\ pc = "encode"
  /\ ~HasSpace
  /\ dest' = IF AtByte THEN dest ELSE PatchCode
  /\ pc' = "refused"
  /\ UNCHANGED <<message, read_index, write_index, code_index, counter,
                 decoder>>

(* The bytes are sent; the producer cuts them after the first zero, and    *)
(* dispatchData hands the frame to cobs_decode unless it is too short.     *)
Deliver ==
  /\ pc = "encoded"
  /\ \E k \in 0..(write_index - 1) :
        /\ dest[k] = 0
        /\ \A j \in 0..(k - 1) : dest[j] # 0
        /\ wire' = [j \in 0..k |-> dest[j]]
        /\ frame_size' = k + 1
        /\ pc' = IF k + 1 < MinFrame THEN "rejected" ELSE "block"
  /\ frame' = wire'
  /\ read_idx' = 1 /\ write_idx' = 0 /\ i' = 0
  /\ block' = dest[0]
  /\ UNCHANGED <<message, encoder>>

-----------------------------------------------------------------------------
(* cobs_decode.                                                            *)

BlockFits_PastEnd == read_idx + block - 1 <= frame_size
BlockFits == read_idx + block - 1 < frame_size

(* The top of the while loop: the code is the delimiter, or a block that   *)
(* must lie inside the frame.                                              *)
DecodeEnd ==
  /\ pc = "block"
  /\ block = 0
  /\ pc' = IF read_idx = frame_size THEN "decoded" ELSE "rejected"
  /\ UNCHANGED <<message, encoder, decoder>>

DecodeBlock ==
  /\ pc = "block"
  /\ block # 0
  /\ pc' = IF BlockFits THEN "copy" ELSE "rejected"
  /\ i' = 0
  /\ UNCHANGED <<message, encoder, wire, frame_size, frame, read_idx,
                 write_idx, block>>

(* The for loop moves the block's bytes towards the front.                 *)
DecodeCopy ==
  /\ pc = "copy"
  /\ i < block - 1
  /\ frame' = [frame EXCEPT ![write_idx] = frame[read_idx + i]]
  /\ write_idx' = write_idx + 1
  /\ i' = i + 1
  /\ UNCHANGED <<pc, message, encoder, wire, frame_size, read_idx, block>>

ZeroAfter_Always(next_counter) == next_counter # 0
ZeroAfter(next_counter) == block # MaxCode /\ next_counter # 0

(* The next code is read; a zero goes between two blocks, unless the first *)
(* one is full.                                                            *)
DecodeNext ==
  /\ pc = "copy"
  /\ i = block - 1
  /\ block' = frame[read_idx + block - 1]
  /\ read_idx' = read_idx + block
  /\ \/ /\ ZeroAfter(block')
        /\ frame' = [frame EXCEPT ![write_idx] = 0]
        /\ write_idx' = write_idx + 1
     \/ /\ ~ZeroAfter(block')
        /\ UNCHANGED <<frame, write_idx>>
  /\ pc' = "block"
  /\ UNCHANGED <<message, encoder, wire, frame_size, i>>

Done ==
  /\ pc \in Finished
  /\ UNCHANGED vars

Encode == EncodeZero \/ EncodeFullBlock \/ EncodeByte \/ EncodeEnd
            \/ EncodeNoSpace
Decode == DecodeEnd \/ DecodeBlock \/ DecodeCopy \/ DecodeNext

Next == Encode \/ Deliver \/ Decode \/ Done

(* Both functions are plain loops: they run until they return.             *)
Spec == Init /\ [][Next]_vars /\ WF_vars(Encode \/ Deliver \/ Decode)
-----------------------------------------------------------------------------
(* Types.  Every index at which a byte is written lies in its buffer:      *)
(* code_index and, before the space checks, write_index in dest.           *)
TypeOK ==
  /\ pc \in Places /\ source \in {"device", "noise"}
  /\ size \in 0..BufSize /\ buf \in Buffers(size)
  /\ dest \in Buffers(DestSize)
  /\ read_index \in 0..size
  /\ code_index \in 0..(DestSize - 1) /\ code_index < write_index
  /\ write_index \in 1..DestSize
  /\ counter \in 1..MaxCode
  /\ frame_size \in Nat
  /\ wire \in Buffers(frame_size) /\ frame \in Buffers(frame_size)
  /\ read_idx \in Nat /\ write_idx \in Nat /\ i \in Nat /\ block \in Byte

(* A message is encoded and decoded to itself, whatever earlier messages   *)
(* left in alertBufferCOBS, unless a zero directly follows full blocks of  *)
(* nonzero bytes: the encoder then closes the last full block with a code  *)
(* after which the decoder puts no zero.  No message shorter than a full   *)
(* block, and so none the firmware can send, is one of those.              *)
LosesZero ==
  \E k \in 0..(size - 1) : \E n \in 1..k :
    /\ n % (MaxCode - 1) = 0
    /\ buf[k] = 0 /\ \A j \in (k - n)..(k - 1) : buf[j] # 0
    /\ n < k => buf[k - n - 1] = 0

Unchanged ==
  /\ write_idx = size
  /\ \A k \in 0..(size - 1) : frame[k] = buf[k]

RoundTrip ==
  pc = "decoded" /\ source = "device" => (Unchanged <=> ~LosesZero)

(* The encoded frame holds exactly one zero, its last byte, so that the    *)
(* reader cuts it where the encoder ended it.                              *)
DelimitedOnce ==
  pc = "encoded" =>
    \A k \in 0..(write_index - 1) : dest[k] = 0 <=> k = write_index - 1

(* kAlertBufCOBSize counts the codes but not the delimiter: a message that *)
(* fills alertBuffer is refused, when it is shorter than a full block      *)
(* always, and no shorter message is.                                      *)
OnlyFullBufferRefused ==
  /\ pc = "refused" => size = BufSize
  /\ source = "device" /\ pc \in {"encoded", "decoded"} /\ size = BufSize
       => BufSize >= MaxCode - 1

(* In-place decoding stays inside the frame and never overwrites a byte it *)
(* has still to read, whatever bytes arrive.                               *)
Unread == IF pc = "copy" THEN read_idx - 1 + i ELSE read_idx - 1

InPlace ==
  pc \in {"block", "copy"} =>
    /\ Unread < frame_size /\ write_idx <= Unread
    /\ \A k \in Unread..(frame_size - 1) : frame[k] = wire[k]
    /\ pc = "copy" => read_idx + block - 1 < frame_size /\ i < block

(* Every message shorter than alertBuffer reaches the dispatcher.          *)
Arrives == source = "device" /\ size < BufSize => <>(pc = "decoded")
=============================================================================
