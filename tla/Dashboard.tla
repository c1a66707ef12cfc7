------------------------------ MODULE Dashboard ------------------------------
(***************************************************************************)
(* The firmware side of the link, src/dashboard/Dashboard.c: how           *)
(* Dashboard_Update finds packets in a stream of bytes that has no         *)
(* delimiters, and how processPacket applies them to the registered        *)
(* variables.  LiveDataPanel's two packets are the traffic.                *)
(*                                                                         *)
(* A byte on the line is known by the packet and offset it was sent as and *)
(* by what the line made of it.  Sizes are scaled: only their ratios       *)
(* 12 : 8 : 4 (header, LiveDataPacket_t, tail) and the buffer's limit      *)
(* matter.                                                                 *)
(***************************************************************************)
EXTENDS Integers, Sequences, FiniteSets, SequencesExt, TLC

CONSTANTS
  HeaderSize,         \* sizeof(DashboardPacketHeader_t)
  TailSize,           \* sizeof(DashboardPacketTail_t)
  RxSize,             \* kAlertBufCOBSize, the size of rxBuffer
  kLiveDataBufSize,   \* how many variables can be registered
  Packets,            \* [packetType, size, data] a host may send
  Registrations,      \* [packetID, valueType] the firmware may register
  Unit,               \* divides the size of every read
  MaxPackets,         \* bound: packets sent
  MaxFaults           \* bound: bytes lost or corrupted

ASSUME SizeAssumption ==
  /\ HeaderSize \in Nat /\ TailSize \in Nat /\ TailSize > 0
  /\ HeaderSize > TailSize /\ RxSize > HeaderSize + TailSize
  /\ Unit \in Nat /\ Unit > 0 /\ HeaderSize % Unit = 0 /\ TailSize % Unit = 0
  /\ kLiveDataBufSize \in Nat /\ MaxPackets \in Nat /\ MaxFaults \in Nat

(* Payloads keep the grid: none, or whole LiveDataPacket_t.                *)
ASSUME PacketsAssumption ==
  \A p \in Packets : p.size \in Nat /\ p.size % Unit = 0

VARIABLES
  \* the host and the line
  sent,            \* the packets sent so far
  off,             \* bytes of the last of them that have left
  startAt,         \* bytes that arrived before the first byte of each packet
  arrived,         \* bytes that arrived
  line,            \* bytes that hasData counts
  damaged,         \* {<<packet, offset>>} lost or corrupted
  \* Dashboard_t and the static buffers
  pc,              \* in Dashboard_Update: "header" part or "payload" part
  packetStatus,
  rxHeader,        \* whose header is in rxBuffer, 0 for all zeros
  liveDataBuffer,  \* [packetID, valueType, value], liveDataCount of them
  memory,          \* *liveDataPtr[i]
  \* what the firmware has done
  processed,       \* packets given to processPacket, as it saw them
  replies          \* live data responses that were sent

host  == <<sent, off, startAt, arrived, damaged>>
vars_ == <<memory, liveDataBuffer>>
done  == <<processed, replies>>
vars  == <<host, line, pc, packetStatus, rxHeader, vars_, done>>

TYPE_STRING  == 4
NumericTypes == 0..3     \* TYPE_UINT32, TYPE_INT32, TYPE_FLOAT, TYPE_BOOL
ZeroData     == [packetID |-> 0, valueType |-> 0, value |-> 0]

PacketSize(p) == HeaderSize + p.size + TailSize
Sending       == sent # <<>> /\ off < PacketSize(Last(sent))

-----------------------------------------------------------------------------
(* The bytes of a packet.  The checks start from zero, so the tail of an   *)
(* empty or all-zero payload is zero as well.                              *)

ZeroTail(p) == p.size = 0 \/ p.data = ZeroData

ZeroByte(p, o) ==
  \/ o >= HeaderSize /\ ZeroTail(p)
  \/ o \in (IF p.size = 0 THEN 1 ELSE 2)..(HeaderSize - 2)

IsZero(c) ==
  c.byte = "zero" \/ (c.byte = "sent" /\ ZeroByte(sent[c.pkt], c.off))

AllZero(bytes) == \A k \in DOMAIN bytes : IsZero(bytes[k])

(* bytes are packet p's, unharmed, from offset o on                        *)
FromPacket(bytes, p, o) ==
  \A k \in DOMAIN bytes : bytes[k] = [pkt |-> p, off |-> o + k - 1, byte |-> "sent"]

-----------------------------------------------------------------------------
(* The host and the line                                                   *)

(* LiveDataPanel sends a packet: no COBS, no delimiter.                    *)
Send(p) ==
  /\ Len(sent) < MaxPackets /\ ~Sending
  /\ sent' = Append(sent, p)
  /\ off' = 0
  /\ startAt' = Append(startAt, arrived)
  /\ UNCHANGED <<arrived, line, damaged, pc, packetStatus, rxHeader, vars_, done>>

Deliver(byte) ==
  /\ Sending
  /\ line' = Append(line, [pkt |-> Len(sent), off |-> off, byte |-> byte])
  /\ arrived' = arrived + 1
  /\ off' = off + 1
  /\ UNCHANGED <<sent, startAt, pc, packetStatus, rxHeader, vars_, done>>

ArriveByte == Deliver("sent") /\ UNCHANGED damaged

Fault == Cardinality(damaged) < MaxFaults /\ damaged' = damaged \union {<<Len(sent), off>>}

CorruptByte ==
  \E byte \in {"zero", "junk"} :
    /\ Deliver(byte)
    /\ byte = "zero" => ~ZeroByte(Last(sent), off)
    /\ Fault

LoseByte ==
  /\ Sending /\ Fault
  /\ off' = off + 1
  /\ UNCHANGED <<sent, startAt, arrived, line, pc, packetStatus, rxHeader, vars_, done>>

-----------------------------------------------------------------------------
(* Dashboard_Register_LiveData                                             *)

RoomToRegister_OneMore == Len(liveDataBuffer) <= kLiveDataBufSize
RoomToRegister == Len(liveDataBuffer) < kLiveDataBufSize

Register(r) ==
  /\ pc = "header"
  /\ RoomToRegister
  /\ liveDataBuffer' = Append(liveDataBuffer,
       [packetID |-> r.packetID, valueType |-> r.valueType, value |-> 0])
  /\ memory' = Append(memory, 0)
  /\ UNCHANGED <<host, line, pc, packetStatus, rxHeader, done>>

-----------------------------------------------------------------------------
(* Dashboard_Update, from the first hasData to the second                  *)

HeaderWindow == SubSeq(line, 1, HeaderSize)
Holders(w)   == {p \in DOMAIN sent : FromPacket(w, p, 0)}
HeaderOk     == Holders(HeaderWindow) # {} \/ AllZero(HeaderWindow)

HeaderOf(w) == IF AllZero(w) THEN 0 ELSE CHOOSE p \in Holders(w) : TRUE

PayloadSize(h)  == IF h = 0 THEN 0 ELSE sent[h].size
ExpectedSize(h) == PayloadSize(h) + TailSize
Fits(h)         == HeaderSize + ExpectedSize(h) < RxSize

(* how many bytes a header that is no header costs                         *)
RejectedSize_One == 1
RejectedSize == HeaderSize

HasHeader == packetStatus = "WAITING" /\ Len(line) > HeaderSize

Read(n) == line' = SubSeq(line, n + 1, Len(line))

Unread  == UNCHANGED <<host, vars_, done>>

NoHeader ==
  /\ pc = "header" /\ ~HasHeader
  /\ pc' = "payload"
  /\ UNCHANGED <<line, packetStatus, rxHeader>> /\ Unread

RejectHeader ==
  /\ pc = "header" /\ HasHeader /\ ~HeaderOk
  /\ Read(RejectedSize)
  /\ pc' = "payload"
  /\ UNCHANGED <<packetStatus, rxHeader>> /\ Unread

TooLarge ==
  /\ pc = "header" /\ HasHeader /\ HeaderOk
  /\ ~Fits(HeaderOf(HeaderWindow))
  /\ Read(HeaderSize)
  /\ pc' = "payload"
  /\ UNCHANGED <<packetStatus, rxHeader>> /\ Unread

AcceptHeader ==
  /\ pc = "header" /\ HasHeader /\ HeaderOk
  /\ LET h == HeaderOf(HeaderWindow)
     IN Fits(h) /\ rxHeader' = h
  /\ Read(HeaderSize)
  /\ packetStatus' = "HEADER_RECEIVED"
  /\ pc' = "payload"
  /\ Unread

-----------------------------------------------------------------------------
(* Dashboard_Update, from the second hasData to the return                 *)

HasPayload ==
  packetStatus = "HEADER_RECEIVED" /\ Len(line) >= ExpectedSize(rxHeader)

PayloadWindow == SubSeq(line, 1, ExpectedSize(rxHeader))

(* the packets whose payload and tail the window holds                     *)
Bodies(w) ==
  {p \in DOMAIN sent : ExpectedSize(p) = Len(w) /\ FromPacket(w, p, HeaderSize)}

PayloadOk_Unchecked == TRUE
PayloadOk == AllZero(PayloadWindow) \/ Bodies(PayloadWindow) # {}

(* the LiveDataPacket_t that processPacket finds behind the header         *)
PayloadData ==
  IF AllZero(PayloadWindow) \/ Bodies(PayloadWindow) = {} THEN ZeroData
  ELSE sent[CHOOSE p \in Bodies(PayloadWindow) : TRUE].data

StatusAfterPayload_Kept == packetStatus
StatusAfterPayload == "WAITING"

NoPayload ==
  /\ pc = "payload" /\ ~HasPayload
  /\ pc' = "header"
  /\ UNCHANGED <<line, packetStatus, rxHeader>> /\ Unread

Consume ==
  /\ pc = "payload" /\ HasPayload
  /\ Read(ExpectedSize(rxHeader))
  /\ packetStatus' = StatusAfterPayload
  /\ pc' = "header"
  /\ UNCHANGED <<host, rxHeader>>

RejectPayload == Consume /\ ~PayloadOk /\ UNCHANGED <<vars_, done>>

Accepted(type) ==
  Consume /\ PayloadOk /\ rxHeader # 0 /\ sent[rxHeader].packetType = type

Process == processed' = Append(processed,
  [pkt |-> rxHeader, data |-> PayloadData, known |-> Len(liveDataBuffer)])

(* The all-zero header has a type that processPacket does not know.        *)
ProcessUnknown == Consume /\ PayloadOk /\ rxHeader = 0 /\ UNCHANGED <<vars_, done>>

(* A request refreshes liveDataBuffer and sends it; sendData may fail.     *)
SnapshotValue_Stale(i) == liveDataBuffer[i].value
SnapshotValue(i) ==
  IF liveDataBuffer[i].valueType \in NumericTypes THEN memory[i]
  ELSE liveDataBuffer[i].value

Snapshot ==
  [i \in DOMAIN liveDataBuffer |-> [liveDataBuffer[i] EXCEPT !.value = SnapshotValue(i)]]

ProcessRequest ==
  /\ Accepted("request") /\ Process
  /\ liveDataBuffer' = Snapshot
  /\ \E ok \in BOOLEAN :
       replies' = IF ok THEN Append(replies, [after |-> Len(processed), live |-> Snapshot])
                  ELSE replies
  /\ UNCHANGED memory

(* A modify writes every variable of its id, up to the first one whose     *)
(* type is another: there the loop is left, and what it wrote stays.       *)
SameID(d)     == {i \in DOMAIN liveDataBuffer : liveDataBuffer[i].packetID = d.packetID}
Mismatches(d) == {i \in SameID(d) : liveDataBuffer[i].valueType # d.valueType}

WrittenTo_AnyID(d) == DOMAIN liveDataBuffer
WrittenTo(d) ==
  IF d.valueType \in NumericTypes
  THEN {i \in SameID(d) : \A j \in Mismatches(d) : i < j}
  ELSE {}

ProcessModify ==
  /\ Accepted("modify") /\ Process
  /\ memory' = [i \in DOMAIN memory |->
                  IF i \in WrittenTo(PayloadData) THEN PayloadData.value ELSE memory[i]]
  /\ UNCHANGED <<liveDataBuffer, replies>>

-----------------------------------------------------------------------------
Init ==
  /\ sent = <<>> /\ off = 0 /\ startAt = <<>> /\ arrived = 0
  /\ line = <<>> /\ damaged = {}
  /\ pc = "header" /\ packetStatus = "WAITING" /\ rxHeader = 0
  /\ liveDataBuffer = <<>> /\ memory = <<>>
  /\ processed = <<>> /\ replies = <<>>

Update ==
  \/ NoHeader \/ RejectHeader \/ TooLarge \/ AcceptHeader
  \/ NoPayload \/ RejectPayload \/ ProcessUnknown \/ ProcessRequest \/ ProcessModify

Next ==
  \/ \E p \in Packets : Send(p)
  \/ ArriveByte \/ CorruptByte \/ LoseByte
  \/ \E r \in Registrations : Register(r)
  \/ Update

(* The line carries what was sent and the main loop keeps calling          *)
(* Dashboard_Update.  Nothing obliges the host to send.                    *)
Spec == Init /\ [][Next]_vars /\ WF_vars(ArriveByte) /\ WF_vars(Update)

-----------------------------------------------------------------------------
TypeOK ==
  /\ sent \in Seq(Packets) /\ Len(sent) <= MaxPackets
  /\ off \in Nat /\ arrived \in Nat
  /\ Len(startAt) = Len(sent)
  /\ \A k \in DOMAIN line :
       line[k] \in [pkt : DOMAIN sent, off : Nat, byte : {"sent", "zero", "junk"}]
  /\ pc \in {"header", "payload"}
  /\ packetStatus \in {"WAITING", "HEADER_RECEIVED"}
  /\ rxHeader \in 0..Len(sent)
  /\ Len(liveDataBuffer) = Len(memory)
  /\ Len(liveDataBuffer) <= kLiveDataBufSize

(* A packet takes effect only as the host sent it: its header arrived      *)
(* unharmed, the payload that processPacket reads is the payload that was  *)
(* sent with that header, and packets are taken in order, none twice.      *)
OnlyAsSent ==
  /\ \A k \in DOMAIN processed :
       /\ \A o \in 0..(HeaderSize - 1) : <<processed[k].pkt, o>> \notin damaged
       /\ sent[processed[k].pkt].size > 0 =>
            processed[k].data = sent[processed[k].pkt].data
  /\ \A j, k \in DOMAIN processed : j < k => processed[j].pkt < processed[k].pkt

(* Every read of Dashboard_Update is a multiple of Unit (4 bytes), whether *)
(* it finds a packet or drops a header: a packet that starts elsewhere,    *)
(* after a loss of any other number of bytes, is never processed.          *)
Aligned ==
  \A k \in DOMAIN processed : startAt[processed[k].pkt] % Unit = 0

(* A response shows, for the first variable registered with an id, the     *)
(* value of the last modify of that id and type that was processed before  *)
(* the request (and after the variable was registered), or its first       *)
(* value: neither an older one nor another variable's.                     *)
First(live, i) == \A j \in 1..(i - 1) : live[j].packetID # live[i].packetID

Modifies(live, i, n) ==
  {k \in 1..n :
     /\ sent[processed[k].pkt].packetType = "modify"
     /\ processed[k].known >= i
     /\ processed[k].data.packetID = live[i].packetID
     /\ processed[k].data.valueType = live[i].valueType
     /\ live[i].valueType \in NumericTypes}

RepliesCurrent ==
  \A r \in DOMAIN replies :
    LET live == replies[r].live
        ms(i) == Modifies(live, i, replies[r].after)
    IN \A i \in DOMAIN live :
         First(live, i) =>
           \/ ms(i) = {} /\ live[i].value = 0
           \/ \E k \in ms(i) :
                (\A m \in ms(i) : m <= k) /\ live[i].value = processed[k].data.value

(* The receiver implements the abstract one: whatever the line does to the *)
(* bytes, a step of Dashboard_Update takes one packet that was sent, later *)
(* than all it took before, with that packet's own effect, or none.        *)
TakenUpTo == IF processed = <<>> THEN 0 ELSE Last(processed).pkt

AsPacket(p) ==
  IF p.packetType = "request" THEN [kind |-> "request"]
  ELSE [kind |-> "modify", packetID |-> p.data.packetID,
        valueType |-> p.data.valueType, value |-> p.data.value]

Firmware ==
  INSTANCE Receiver WITH
    Slots    <- 1..kLiveDataBufSize,
    Ids      <- {p.data.packetID : p \in Packets} \union {r.packetID : r \in Registrations},
    Types    <- {p.data.valueType : p \in Packets} \union {r.valueType : r \in Registrations},
    Values   <- {p.data.value : p \in Packets},
    Writable <- NumericTypes,
    queue    <- [k \in 1..(Len(sent) - TakenUpTo) |-> AsPacket(sent[TakenUpTo + k])],
    memory   <- [k \in DOMAIN memory |-> [liveDataBuffer[k] EXCEPT !.value = memory[k]]]

ImplementsReceiver == Firmware!Spec

(* As long as no byte is lost, a packet that is damaged costs only itself, *)
(* except where its remains are not one header long: then the packets that *)
(* follow may be cut wrongly.                                              *)
HeaderDamaged(p) == \E o \in 0..(HeaderSize - 1) : <<p, o>> \in damaged

Misframed ==
  \/ \E p \in DOMAIN sent :
       \/ HeaderDamaged(p) /\ (sent[p].size + TailSize # HeaderSize \/ ZeroTail(sent[p]))
       \/ HeaderSize + sent[p].size + TailSize >= RxSize
  \/ sent # <<>> /\ arrived < startAt[Len(sent)] + off
  \/ \E p \in 2..Len(sent) : startAt[p] # startAt[p - 1] + PacketSize(sent[p - 1])

Unharmed == SelectSeq([p \in DOMAIN sent |-> p],
                      LAMBDA p : \A d \in damaged : d[1] # p)

IntactArrive ==
  <>[](Misframed \/ [k \in DOMAIN processed |-> processed[k].pkt] = Unharmed)
=============================================================================
