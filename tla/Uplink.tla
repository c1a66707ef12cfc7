------------------------------- MODULE Uplink -------------------------------
(***************************************************************************)
(* From the firmware to the panels: Dashboard.c's sending functions put    *)
(* header, payload and tail behind each other, encode them and hand them   *)
(* to sendData; the line damages some bytes; start_read of                 *)
(* SerialProducer.h cuts what arrives at zero bytes; and                   *)
(* Dispatcher::dispatchData decides which pieces reach a consumer.  The    *)
(* host starts to listen at any moment.                                    *)
(*                                                                         *)
(* A byte is known by the message and offset it was sent as and by what    *)
(* the line made of it.  A message is one code byte, header, payload and   *)
(* tail, and the delimiter: COBS shifts what it encodes by one byte, as    *)
(* Cobs.tla shows of the messages the firmware can send.  A checksum holds *)
(* for the bytes it was computed of, in their order, and for no others.    *)
(***************************************************************************)
EXTENDS Integers, Sequences, FiniteSets, SequencesExt

CONSTANTS
  HeaderSize,     \* sizeof(DashboardPacketHeader_t)
  TailSize,       \* sizeof(DashboardPacketTail_t)
  kAlertBufSize,
  Messages,       \* [packetType, keySize, valueSize] of the firmware's calls
  MaxMessages,    \* bound: messages sent
  MaxFaults       \* bound: bytes corrupted and runs of bytes lost

payload(m)   == m.keySize + m.valueSize
writeSize(m) == HeaderSize + payload(m) + TailSize

(* alertBuffer is written before any length is checked: the calls of this  *)
(* model do not overrun it.                                                *)
ASSUME UplinkAssumption ==
  /\ HeaderSize \in Nat \ {0} /\ TailSize \in Nat \ {0}
  /\ kAlertBufSize \in Nat /\ MaxMessages \in Nat /\ MaxFaults \in Nat
  /\ Messages \subseteq [packetType : {"telemetry", "alert", "response"},
                         keySize : Nat, valueSize : Nat]
  /\ \A m \in Messages : writeSize(m) <= kAlertBufSize

VARIABLES
  \* the firmware and the line
  sent,         \* messages handed to sendData
  off,          \* bytes of the last message that have left
  damaged,      \* {<<message, offset>>} lost or corrupted
  losing,       \* the last byte that left was lost
  faults,
  \* the host
  listening,    \* the port is open and read
  buffer,       \* read_buffer_: what arrived since the last zero byte
  frames,       \* rx_queue_: the pieces, without their zero bytes
  consumed      \* [head, body]: whose header and whose payload consume got

air  == <<off, damaged, losing, faults>>
vars == <<sent, air, listening, buffer, frames, consumed>>

FrameSize(m) == 1 + writeSize(m) + 1
Sending      == sent # <<>> /\ off < FrameSize(Last(sent))

-----------------------------------------------------------------------------
(* Dashboard_Alert, Dashboard_Telemetry_..., the response.  cobs_encode    *)
(* refuses what fills alertBuffer to its last byte, and sendData may fail: *)
(* such a call only returns its error.  Otherwise it returns when the      *)
(* message has left.                                                       *)
Encodes(m) == writeSize(m) < kAlertBufSize

Send(m) ==
  /\ ~Sending /\ Len(sent) < MaxMessages
  /\ Encodes(m)
  /\ sent' = Append(sent, m) /\ off' = 0
  /\ UNCHANGED <<damaged, losing, faults, listening, buffer, frames, consumed>>

-----------------------------------------------------------------------------
(* The line and start_read                                                 *)

Current == <<Len(sent), off>>

Leaves == Sending /\ off' = off + 1

Delimiter(c) == c[2] = FrameSize(sent[c[1]]) - 1

(* async_read_until and getline: a zero byte ends a piece, an empty piece  *)
(* is dropped.                                                             *)
ReadByte ==
  /\ buffer' = Append(buffer, [at |-> Current, intact |-> Current \notin damaged'])
  /\ UNCHANGED frames

AfterZero_Always == Append(frames, buffer)
AfterZero == IF buffer = <<>> THEN frames ELSE Append(frames, buffer)

ReadZero == buffer' = <<>> /\ frames' = AfterZero

Arrives ==
  /\ listening /\ Leaves
  /\ losing' = FALSE
  /\ UNCHANGED <<sent, listening, consumed>>

ArriveByte == Arrives /\ ~Delimiter(Current) /\ UNCHANGED <<damaged, faults>> /\ ReadByte
ArriveZero == Arrives /\ Delimiter(Current) /\ UNCHANGED <<damaged, faults>> /\ ReadZero

Fault == faults < MaxFaults /\ faults' = faults + 1 /\ damaged' = damaged \union {Current}

CorruptByte == Arrives /\ Fault /\ ReadByte
CorruptZero == Arrives /\ ~Delimiter(Current) /\ Fault /\ ReadZero

Lost ==
  /\ Leaves /\ losing' = TRUE
  /\ UNCHANGED <<sent, listening, buffer, frames, consumed>>

LoseByte == listening /\ ~losing /\ Lost /\ Fault

LoseMore ==
  /\ listening /\ losing /\ Lost
  /\ damaged' = damaged \union {Current} /\ UNCHANGED faults

NotListening ==
  /\ ~listening /\ Lost
  /\ damaged' = damaged \union {Current} /\ UNCHANGED faults

(* ControlPanel attaches.                                                  *)
Listen ==
  /\ ~listening /\ listening' = TRUE /\ losing' = FALSE
  /\ UNCHANGED <<sent, off, damaged, faults, buffer, frames, consumed>>

-----------------------------------------------------------------------------
(* Dispatcher::dispatchData, of one piece and its zero byte.               *)

size(f)       == Len(f) + 1
decodeSize(f) == size(f) - 2

(* f holds at place k the byte that message m was sent with at offset o    *)
Holds(f, k, m, o) == f[k] = [at |-> <<m, o>>, intact |-> TRUE]

Whole(f, m) ==
  Len(f) = FrameSize(sent[m]) - 1 /\ \A k \in DOMAIN f : Holds(f, k, m, k - 1)

BigEnough_Strict(f) == decodeSize(f) > HeaderSize + TailSize
BigEnough(f) == size(f) >= HeaderSize /\ decodeSize(f) >= HeaderSize + TailSize

(* the message, if any, whose header the checksum finds                    *)
HeaderOf(f, h) == \A k \in 1..(1 + HeaderSize) : Holds(f, k, h, k - 1)

SizeMatches(f, h) == decodeSize(f) = writeSize(sent[h])

(* the message whose payload and tail are in their place                   *)
PayloadOf_Unchecked(f, h, p) == p = h
PayloadOf(f, h, p) ==
  /\ payload(sent[p]) = payload(sent[h])
  /\ \A k \in (2 + HeaderSize)..(1 + writeSize(sent[h])) : Holds(f, k, p, k - 1)

Passes(f, h, p) ==
  BigEnough(f) /\ HeaderOf(f, h) /\ SizeMatches(f, h) /\ PayloadOf(f, h, p)

Dispatched ==
  /\ frames # <<>> /\ frames' = Tail(frames)
  /\ UNCHANGED <<sent, air, listening, buffer>>

(* The consumer of the header's type gets it.                              *)
Consume ==
  /\ Dispatched
  /\ \E h, p \in DOMAIN sent :
       Passes(Head(frames), h, p) /\ consumed' = Append(consumed, [head |-> h, body |-> p])

(* A check fails.  Of a piece that is no whole message the decoding may    *)
(* fail even if its checksums would hold.                                  *)
Reject ==
  /\ Dispatched
  /\ \A m \in DOMAIN sent : ~(Whole(Head(frames), m) /\ Passes(Head(frames), m, m))
  /\ UNCHANGED consumed

-----------------------------------------------------------------------------
Init ==
  /\ sent = <<>> /\ off = 0
  /\ damaged = {} /\ losing = FALSE /\ faults = 0
  /\ listening = FALSE /\ buffer = <<>> /\ frames = <<>> /\ consumed = <<>>

Next ==
  \/ \E m \in Messages : Send(m)
  \/ ArriveByte \/ ArriveZero \/ CorruptByte \/ CorruptZero
  \/ LoseByte \/ LoseMore \/ NotListening
  \/ Listen
  \/ Consume \/ Reject

(* sendData puts on the line what it was given, the background thread      *)
(* reads, and every frame of the main loop dispatches what was read.       *)
Spec ==
  Init /\ [][Next]_vars /\ WF_vars(ArriveByte \/ ArriveZero) /\ WF_vars(Consume \/ Reject)

-----------------------------------------------------------------------------
TypeOK ==
  /\ sent \in Seq(Messages) /\ Len(sent) <= MaxMessages
  /\ off \in Nat /\ (sent # <<>> => off <= FrameSize(Last(sent)))
  /\ faults \in 0..MaxFaults
  /\ damaged \subseteq (DOMAIN sent) \X Nat
  /\ \A k \in DOMAIN frames : frames[k] # <<>>
  /\ consumed \in Seq([head : DOMAIN sent, body : DOMAIN sent])

(* What a consumer gets is as long as its header says, and header and      *)
(* payload are each one that was sent, undamaged, in the order of sending  *)
(* and none twice.  They are of one message, unless the line swallowed all *)
(* from the payload of the one to the header of another of its size: no    *)
(* checksum covers both, and nothing numbers the messages.                 *)
Damaged(m, from, to) == \A o \in from..to : <<m, o>> \in damaged

ConsumedAsSent ==
  /\ \A k \in DOMAIN consumed :
       LET h == consumed[k].head
           p == consumed[k].body
       IN /\ h <= p /\ payload(sent[h]) = payload(sent[p])
          /\ \A o \in 1..HeaderSize : <<h, o>> \notin damaged
          /\ \A o \in (1 + HeaderSize)..writeSize(sent[p]) : <<p, o>> \notin damaged
          /\ h # p => /\ Damaged(h, 1 + HeaderSize, FrameSize(sent[h]) - 1)
                      /\ Damaged(p, 0, HeaderSize)
  /\ \A j, k \in DOMAIN consumed : j < k => consumed[j].body < consumed[k].head

(* The stream is found again at the next zero byte: a message that arrives *)
(* whole, the first or after an undamaged delimiter, is consumed, whatever *)
(* happened to all the bytes before.                                       *)
Undamaged(m) == \A d \in damaged : d[1] # m

FoundAgain(m) == m = 1 \/ <<m - 1, FrameSize(sent[m - 1]) - 1>> \notin damaged

WholeConsumed ==
  <>[](\A m \in DOMAIN sent :
         Undamaged(m) /\ FoundAgain(m) /\ ~(m = Len(sent) /\ Sending)
           => \E k \in DOMAIN consumed : consumed[k] = [head |-> m, body |-> m])
=============================================================================
