--------------------------- MODULE DashboardProofs ---------------------------
(***************************************************************************)
(* Proofs about Dashboard, for every size of header, tail and buffer,      *)
(* every set of packets and registrations, and every number of packets.    *)
(***************************************************************************)
EXTENDS Dashboard, FiniteSetTheorems, SequenceTheorems, TLAPS

-----------------------------------------------------------------------------
(* Arithmetic and sequences                                                *)

LEMMA MultipleMod ==
  ASSUME NEW u \in Nat \ {0}, NEW a \in Int
  PROVE  (u * a) % u = 0
  OBVIOUS

(* Sums of multiples are multiples.                                        *)
LEMMA ModAdd ==
  ASSUME NEW u \in Nat \ {0}, NEW a \in Int, NEW b \in Int,
         a % u = 0, b % u = 0
  PROVE  (a + b) % u = 0
<1>1. a = u * (a \div u) /\ b = u * (b \div u)
  OBVIOUS
<1>2. a + b = u * ((a \div u) + (b \div u))
  BY <1>1
<1>3. (u * ((a \div u) + (b \div u))) % u = 0
  <2>1. (a \div u) + (b \div u) \in Int
    OBVIOUS
  <2>2. QED
    BY <2>1, MultipleMod
<1>4. QED
  BY <1>2, <1>3

LEMMA AppendIn ==
  ASSUME NEW S, NEW s \in Seq(S), NEW x \in S
  PROVE  /\ Append(s, x) \in Seq(S)
         /\ Len(s) \in Nat /\ Len(Append(s, x)) = Len(s) + 1
         /\ \A i \in 1..Len(s) : Append(s, x)[i] = s[i]
         /\ Append(s, x)[Len(s) + 1] = x
  OBVIOUS

LEMMA AtIn ==
  ASSUME NEW S, NEW s \in Seq(S)
  PROVE  /\ Len(s) \in Nat /\ DOMAIN s = 1..Len(s)
         /\ s = <<>> <=> Len(s) = 0
         /\ \A i \in 1..Len(s) : s[i] \in S
  OBVIOUS

(* The first n elements of a sequence, and the others.                     *)
LEMMA FirstOf ==
  ASSUME NEW S, NEW s \in Seq(S), NEW n \in Nat, n <= Len(s)
  PROVE  /\ SubSeq(s, 1, n) \in Seq(S) /\ Len(SubSeq(s, 1, n)) = n
         /\ DOMAIN SubSeq(s, 1, n) = 1..n
         /\ \A i \in 1..n : SubSeq(s, 1, n)[i] = s[i]
<1>1. Len(s) \in Nat /\ \A i \in 1..n : s[i] \in S
  BY AtIn
<1>2. /\ SubSeq(s, 1, n) \in Seq(S)
      /\ Len(SubSeq(s, 1, n)) = IF 1 <= n THEN n - 1 + 1 ELSE 0
      /\ \A i \in 1..n - 1 + 1 : SubSeq(s, 1, n)[i] = s[1 + i - 1]
  BY <1>1, SubSeqProperties
<1>3. Len(SubSeq(s, 1, n)) = n
  BY <1>2
<1>4. QED
  BY <1>2, <1>3, AtIn

LEMMA RestOf ==
  ASSUME NEW S, NEW s \in Seq(S), NEW n \in Nat, n <= Len(s)
  PROVE  LET rest == SubSeq(s, n + 1, Len(s)) IN
         /\ rest \in Seq(S) /\ Len(rest) = Len(s) - n
         /\ \A i \in 1..Len(rest) : rest[i] = s[n + i] /\ n + i \in 1..Len(s)
<1> DEFINE m == n + 1
           l == Len(s)
           rest == SubSeq(s, m, l)
<1>1. l \in Nat /\ l = Len(s) /\ m \in Int /\ m = n + 1
  BY AtIn
<1>2. \A i \in m..l : s[i] \in S
  BY <1>1, AtIn
<1> HIDE DEF m, l
<1>3. /\ rest \in Seq(S)
      /\ Len(rest) = IF m <= l THEN l - m + 1 ELSE 0
      /\ \A i \in 1..l - m + 1 : rest[i] = s[m + i - 1]
  BY <1>1, <1>2, SubSeqProperties
<1> HIDE DEF rest
<1>4. Len(rest) = l - n
  BY <1>1, <1>3
<1>5. ASSUME NEW i \in 1..Len(rest)
      PROVE  rest[i] = s[n + i] /\ n + i \in 1..l
  <2>1. i \in 1..l - m + 1 /\ m + i - 1 = n + i /\ n + i \in 1..l
    BY <1>1, <1>4
  <2>2. QED
    BY <1>3, <2>1
<1>6. QED
  BY <1>3, <1>4, <1>5 DEF rest, m, l

-----------------------------------------------------------------------------
(* The constants and the types                                             *)

LEMMA Sizes ==
  /\ HeaderSize \in Nat /\ TailSize \in Nat /\ TailSize > 0
  /\ HeaderSize > TailSize /\ RxSize > HeaderSize + TailSize
  /\ Unit \in Nat \ {0} /\ HeaderSize % Unit = 0 /\ TailSize % Unit = 0
  /\ kLiveDataBufSize \in Nat /\ MaxPackets \in Nat /\ MaxFaults \in Nat
  BY SizeAssumption DEF SizeAssumption

Bytes(n) == [pkt : 1..n, off : Nat, byte : {"sent", "zero", "junk"}]
Data     == {p.data : p \in Packets} \union {ZeroData}
Contents == {d.value : d \in Data}
Entries  == [packetID  : {r.packetID : r \in Registrations},
             valueType : {r.valueType : r \in Registrations},
             value     : Contents]
Events   == [pkt : Nat, data : Data, known : Nat]

Types ==
  /\ sent \in Seq(Packets) /\ Len(sent) <= MaxPackets
  /\ off \in Nat /\ arrived \in Nat
  /\ startAt \in Seq(Nat) /\ Len(startAt) = Len(sent)
  /\ line \in Seq(Bytes(Len(sent)))
  /\ pc \in {"header", "payload"}
  /\ packetStatus \in {"WAITING", "HEADER_RECEIVED"}
  /\ rxHeader \in 0..Len(sent)
  /\ liveDataBuffer \in Seq(Entries) /\ memory \in Seq(Contents)
  /\ Len(liveDataBuffer) = Len(memory)
  /\ Len(liveDataBuffer) <= kLiveDataBufSize
  /\ processed \in Seq(Events)

LEMMA TypesImplyTypeOK == Types => TypeOK
<1> SUFFICES ASSUME Types PROVE TypeOK
  OBVIOUS
<1>1. /\ Len(sent) \in Nat /\ DOMAIN sent = 1..Len(sent)
      /\ DOMAIN line = 1..Len(line)
      /\ \A k \in 1..Len(line) : line[k] \in Bytes(Len(sent))
  <2>1. sent \in Seq(Packets) /\ line \in Seq(Bytes(Len(sent)))
    BY DEF Types
  <2> HIDE DEF Bytes
  <2>2. QED
    BY <2>1, AtIn
<1>2. QED
  BY <1>1 DEF Types, TypeOK, Bytes

(* A packet on the line, by its number.                                    *)
LEMMA PacketOf ==
  ASSUME sent \in Seq(Packets), NEW p \in 1..Len(sent)
  PROVE  /\ sent[p] \in Packets /\ sent[p].size \in Nat
         /\ PacketSize(sent[p]) \in Nat
         /\ PacketSize(sent[p]) = HeaderSize + sent[p].size + TailSize
<1>1. sent[p] \in Packets
  BY AtIn
<1>2. sent[p].size \in Nat
  BY <1>1, PacketsAssumption DEF PacketsAssumption
<1>3. PacketSize(sent[p]) = HeaderSize + sent[p].size + TailSize
  BY DEF PacketSize
<1>4. QED
  BY <1>1, <1>2, <1>3, Sizes

LEMMA ExpectedOf ==
  ASSUME Types
  PROVE  /\ ExpectedSize(rxHeader) \in Nat /\ ExpectedSize(rxHeader) > 0
         /\ ExpectedSize(rxHeader) % Unit = 0
         /\ rxHeader # 0 => ExpectedSize(rxHeader) = sent[rxHeader].size + TailSize
<1>1. sent \in Seq(Packets) /\ rxHeader \in 0..Len(sent) /\ Len(sent) \in Nat
  BY AtIn DEF Types
<1>2. CASE rxHeader = 0
  BY <1>2, Sizes DEF ExpectedSize, PayloadSize
<1>3. CASE rxHeader # 0
  <2>1. rxHeader \in 1..Len(sent)
    BY <1>1, <1>3
  <2>2. sent[rxHeader] \in Packets /\ sent[rxHeader].size \in Nat
    BY <1>1, <2>1, PacketOf
  <2>3. sent[rxHeader].size % Unit = 0
    BY <2>2, PacketsAssumption DEF PacketsAssumption
  <2>4. (sent[rxHeader].size + TailSize) % Unit = 0
    BY <2>2, <2>3, Sizes, ModAdd
  <2>5. ExpectedSize(rxHeader) = sent[rxHeader].size + TailSize
    BY <1>3 DEF ExpectedSize, PayloadSize
  <2>6. QED
    BY <2>2, <2>4, <2>5, Sizes
<1>4. QED
  BY <1>2, <1>3

-----------------------------------------------------------------------------
(* The steps, by what they do to the stream and to the packet in hand.     *)

ReadStep(n) ==
  /\ n \in Nat /\ n <= Len(line) /\ n % Unit = 0
  /\ Read(n) /\ UNCHANGED host

ArriveStep ==
  \E byte \in {"sent", "zero", "junk"} :
    /\ Deliver(byte)
    /\ IF byte = "sent" THEN UNCHANGED damaged ELSE Fault

Quiet == UNCHANGED <<host, line, packetStatus, rxHeader, processed>>

DropStep == ReadStep(HeaderSize) /\ packetStatus' = "WAITING"
              /\ UNCHANGED <<rxHeader, processed>>

ConsumeStep ==
  /\ HasPayload /\ ReadStep(ExpectedSize(rxHeader))
  /\ packetStatus' = "WAITING" /\ UNCHANGED rxHeader

TakeStep == ConsumeStep /\ PayloadOk /\ rxHeader # 0 /\ Process

LEMMA ConsumeSteps ==
  ASSUME Types, Consume
  PROVE  ConsumeStep
<1>1. HasPayload /\ Read(ExpectedSize(rxHeader)) /\ UNCHANGED host
      /\ packetStatus' = "WAITING" /\ UNCHANGED rxHeader
  BY DEF Consume, StatusAfterPayload
<1>2. Len(line) >= ExpectedSize(rxHeader) /\ line \in Seq(Bytes(Len(sent)))
  BY <1>1 DEF HasPayload, Types
<1>3. Len(line) \in Nat
  BY <1>2, AtIn
<1>4. QED
  BY <1>1, <1>2, <1>3, ExpectedOf DEF ConsumeStep, ReadStep

LEMMA Steps ==
  ASSUME Types, [Next]_vars
  PROVE  \/ \E p \in Packets : Send(p)
         \/ ArriveStep \/ LoseByte \/ Quiet
         \/ DropStep \/ (AcceptHeader /\ ReadStep(HeaderSize))
         \/ (ConsumeStep /\ UNCHANGED processed) \/ TakeStep
<1>a. ASSUME HasHeader, Read(HeaderSize), UNCHANGED host
      PROVE  ReadStep(HeaderSize)
  <2>1. line \in Seq(Bytes(Len(sent)))
    BY DEF Types
  <2>2. Len(line) \in Nat /\ Len(line) > HeaderSize
    BY <1>a, <2>1, AtIn DEF HasHeader
  <2>3. QED
    BY <1>a, <2>2, Sizes DEF ReadStep
<1> HIDE DEF host
<1>1. CASE ArriveByte
  BY <1>1 DEF ArriveByte, ArriveStep, Fault
<1>2. CASE CorruptByte
  BY <1>2 DEF CorruptByte, ArriveStep
<1>3. CASE \E r \in Registrations : Register(r)
  BY <1>3 DEF Register, Quiet, done
<1>4. CASE NoHeader \/ NoPayload
  BY <1>4 DEF NoHeader, NoPayload, Quiet, Unread, done
<1>5. CASE RejectHeader \/ TooLarge
  BY <1>5, <1>a DEF RejectHeader, TooLarge, RejectedSize, Unread, DropStep,
     done, HasHeader
<1>6. CASE AcceptHeader
  BY <1>6, <1>a DEF AcceptHeader, Unread
<1>7. CASE RejectPayload \/ ProcessUnknown
  BY <1>7, ConsumeSteps DEF RejectPayload, ProcessUnknown, done
<1>8. CASE ProcessRequest \/ ProcessModify
  BY <1>8, ConsumeSteps DEF ProcessRequest, ProcessModify, Accepted, TakeStep
<1>9. CASE UNCHANGED vars
  BY <1>9 DEF vars, done, Quiet
<1>10. QED
  BY <1>1, <1>2, <1>3, <1>4, <1>5, <1>6, <1>7, <1>8, <1>9 DEF Next, Update

-----------------------------------------------------------------------------
(* The types are preserved.  The stream and the packet in hand ...         *)
StreamTypes ==
  /\ sent \in Seq(Packets) /\ Len(sent) <= MaxPackets
  /\ off \in Nat /\ arrived \in Nat
  /\ startAt \in Seq(Nat) /\ Len(startAt) = Len(sent)
  /\ line \in Seq(Bytes(Len(sent)))

LEMMA NewByte ==
  ASSUME Types, NEW byte \in {"sent", "zero", "junk"}, Sending
  PROVE  /\ Len(sent) \in Nat /\ Len(sent) \in 1..Len(sent)
         /\ [pkt |-> Len(sent), off |-> off, byte |-> byte] \in Bytes(Len(sent))
<1>1. sent \in Seq(Packets) /\ sent # <<>> /\ off \in Nat
  BY DEF Types, Sending
<1>2. Len(sent) \in Nat /\ Len(sent) \in 1..Len(sent)
  BY <1>1, AtIn
<1>3. QED
  BY <1>1, <1>2 DEF Bytes

LEMMA StreamTypesNext ==
  ASSUME Types, [Next]_vars
  PROVE  StreamTypes'
<1>1. /\ sent \in Seq(Packets) /\ startAt \in Seq(Nat)
      /\ line \in Seq(Bytes(Len(sent)))
      /\ off \in Nat /\ arrived \in Nat /\ Len(sent) \in Nat
      /\ Len(startAt) = Len(sent) /\ Len(sent) <= MaxPackets
  BY AtIn DEF Types
<1> USE DEF StreamTypes
<1>2. CASE \E p \in Packets : Send(p)
  <2>1. PICK p \in Packets : Send(p)
    BY <1>2
  <2>2. /\ sent' = Append(sent, p) /\ off' = 0 /\ startAt' = Append(startAt, arrived)
        /\ arrived' = arrived /\ line' = line /\ Len(sent) < MaxPackets
    BY <2>1 DEF Send
  <2>3. sent' \in Seq(Packets) /\ Len(sent') = Len(sent) + 1
    BY <1>1, <2>2, AppendIn
  <2>4. startAt' \in Seq(Nat) /\ Len(startAt') = Len(sent')
    BY <1>1, <2>2, <2>3, AppendIn
  <2>5. Bytes(Len(sent)) \subseteq Bytes(Len(sent'))
    <3>1. 1..Len(sent) \subseteq 1..Len(sent')
      BY <1>1, <2>3
    <3>2. QED
      BY <3>1 DEF Bytes
  <2>6. line' \in Seq(Bytes(Len(sent')))
    BY <1>1, <2>2, <2>5, SeqMonotonic
  <2>7. Len(sent') <= MaxPackets
    BY <1>1, <2>2, <2>3, Sizes
  <2>8. QED
    BY <1>1, <2>2, <2>3, <2>4, <2>6, <2>7
<1>3. CASE ArriveStep
  <2>1. PICK byte \in {"sent", "zero", "junk"} : Deliver(byte)
    BY <1>3 DEF ArriveStep
  <2>2. /\ line' = Append(line, [pkt |-> Len(sent), off |-> off, byte |-> byte])
        /\ UNCHANGED <<sent, startAt>> /\ Sending
        /\ arrived' = arrived + 1 /\ off' = off + 1
    BY <2>1 DEF Deliver
  <2>4. [pkt |-> Len(sent), off |-> off, byte |-> byte] \in Bytes(Len(sent))
    BY <2>2, NewByte
  <2>5. line' \in Seq(Bytes(Len(sent)))
    BY <1>1, <2>2, <2>4, AppendIn
  <2>6. QED
    BY <1>1, <2>2, <2>5
<1>4. CASE LoseByte
  BY <1>1, <1>4 DEF LoseByte
<1>5. ASSUME NEW n, ReadStep(n)
      PROVE  StreamTypes'
  <2>1. line' = SubSeq(line, n + 1, Len(line)) /\ n \in Nat /\ n <= Len(line)
        /\ UNCHANGED <<sent, off, startAt, arrived>>
    BY <1>5 DEF ReadStep, Read, host
  <2>2. line' \in Seq(Bytes(Len(sent)))
    BY <1>1, <2>1, RestOf
  <2>3. QED
    BY <1>1, <2>1, <2>2
<1>6. CASE Quiet
  BY <1>1, <1>6 DEF Quiet, host
<1>7. QED
  BY <1>2, <1>3, <1>4, <1>5, <1>6, Steps DEF DropStep, ConsumeStep, TakeStep

(* ... the header in rxBuffer, which is some packet's ...                  *)
LEMMA HeaderOfHolder ==
  ASSUME HeaderOk
  PROVE  LET h == HeaderOf(HeaderWindow) IN
         \/ h = 0
         \/ h \in DOMAIN sent /\ FromPacket(HeaderWindow, h, 0)
  BY DEF HeaderOk, HeaderOf, Holders

StatusTypes ==
  /\ pc \in {"header", "payload"}
  /\ packetStatus \in {"WAITING", "HEADER_RECEIVED"}
  /\ rxHeader \in 0..Len(sent)

LEMMA StatusTypesNext ==
  ASSUME Types, [Next]_vars
  PROVE  StatusTypes'
<1>1. /\ pc \in {"header", "payload"}
      /\ packetStatus \in {"WAITING", "HEADER_RECEIVED"}
      /\ rxHeader \in 0..Len(sent)
      /\ Len(sent) \in Nat /\ DOMAIN sent = 1..Len(sent)
  BY AtIn DEF Types
<1> USE DEF StatusTypes
<1>2. pc' \in {"header", "payload"}
  BY <1>1 DEF Next, vars, Send, ArriveByte, CorruptByte, LoseByte, Deliver, Register,
     Update, NoHeader, RejectHeader, TooLarge, AcceptHeader, NoPayload,
     RejectPayload, ProcessUnknown, ProcessRequest, ProcessModify, Accepted,
     Consume
<1>3. CASE \E p \in Packets : Send(p)
  <2>1. PICK p \in Packets : Send(p)
    BY <1>3
  <2>2. sent' = Append(sent, p) /\ UNCHANGED <<packetStatus, rxHeader>>
    BY <2>1 DEF Send
  <2>3. sent \in Seq(Packets)
    BY DEF Types
  <2>4. Len(sent') = Len(sent) + 1
    BY <2>2, <2>3, AppendIn
  <2>5. QED
    BY <1>1, <1>2, <2>2, <2>4
<1>4. CASE AcceptHeader
  <2>1. /\ rxHeader' = HeaderOf(HeaderWindow) /\ HeaderOk
        /\ packetStatus' = "HEADER_RECEIVED" /\ sent' = sent
    BY <1>4 DEF AcceptHeader, Unread, host
  <2>2. rxHeader' = 0 \/ rxHeader' \in 1..Len(sent)
    BY <1>1, <2>1, HeaderOfHolder
  <2>3. QED
    BY <1>1, <1>2, <2>1, <2>2
<1>5. CASE UNCHANGED <<sent, rxHeader>> /\ packetStatus' \in {packetStatus, "WAITING"}
  BY <1>1, <1>2, <1>5
<1>6. QED
  BY <1>3, <1>4, <1>5, Steps
  DEF DropStep, ConsumeStep, TakeStep, ArriveStep, Deliver, LoseByte, Quiet,
      ReadStep, host

(* ... and the registered variables and what was processed.                *)
LEMMA FunctionIsSeq ==
  ASSUME NEW S, NEW n \in Nat, NEW f \in [1..n -> S]
  PROVE  f \in Seq(S) /\ Len(f) = n
  OBVIOUS

LEMMA PayloadInData ==
  ASSUME Types
  PROVE  PayloadData \in Data /\ PayloadData.value \in Contents
<1>1. ASSUME NEW p \in Bodies(PayloadWindow) PROVE sent[p].data \in Data
  <2>1. sent \in Seq(Packets) /\ p \in DOMAIN sent
    BY <1>1 DEF Types, Bodies
  <2>2. sent[p] \in Packets
    BY <2>1, AtIn
  <2>3. QED
    BY <2>2 DEF Data
<1>2. PayloadData \in Data
  <2>1. CASE AllZero(PayloadWindow) \/ Bodies(PayloadWindow) = {}
    BY <2>1 DEF PayloadData, Data
  <2>2. CASE ~AllZero(PayloadWindow) /\ Bodies(PayloadWindow) # {}
    <3>1. (CHOOSE p \in Bodies(PayloadWindow) : TRUE) \in Bodies(PayloadWindow)
      BY <2>2
    <3>2. QED
      BY <1>1, <2>2, <3>1 DEF PayloadData
  <2>3. QED
    BY <2>1, <2>2
<1>3. QED
  BY <1>2 DEF Contents

DataTypes ==
  /\ liveDataBuffer \in Seq(Entries) /\ memory \in Seq(Contents)
  /\ Len(liveDataBuffer) = Len(memory)
  /\ Len(liveDataBuffer) <= kLiveDataBufSize
  /\ processed \in Seq(Events)

LEMMA DataTypesNext ==
  ASSUME Types, [Next]_vars
  PROVE  DataTypes'
<1>1. /\ liveDataBuffer \in Seq(Entries) /\ memory \in Seq(Contents)
      /\ Len(liveDataBuffer) \in Nat /\ Len(memory) = Len(liveDataBuffer)
      /\ Len(liveDataBuffer) <= kLiveDataBufSize /\ processed \in Seq(Events)
      /\ DOMAIN liveDataBuffer = 1..Len(liveDataBuffer)
      /\ DOMAIN memory = 1..Len(liveDataBuffer)
      /\ \A i \in 1..Len(liveDataBuffer) : liveDataBuffer[i] \in Entries
      /\ \A i \in 1..Len(liveDataBuffer) : memory[i] \in Contents
  <2> HIDE DEF Entries, Contents, Events
  <2>1. /\ liveDataBuffer \in Seq(Entries) /\ memory \in Seq(Contents)
        /\ processed \in Seq(Events) /\ Len(memory) = Len(liveDataBuffer)
        /\ Len(liveDataBuffer) <= kLiveDataBufSize
    BY DEF Types
  <2>2. QED
    BY <2>1, AtIn
<1>2. 0 \in Contents
  <2>1. ZeroData \in Data
    BY DEF Data
  <2>2. ZeroData.value = 0
    BY DEF ZeroData
  <2> HIDE DEF ZeroData, Data
  <2>3. ZeroData.value \in Contents
    BY <2>1 DEF Contents
  <2>4. QED
    BY <2>2, <2>3
<1>3. ASSUME Process PROVE processed' \in Seq(Events)
  <2>1. [pkt |-> rxHeader, data |-> PayloadData, known |-> Len(liveDataBuffer)]
          \in Events
    <3>1. rxHeader \in Nat
      BY AtIn DEF Types
    <3>2. QED
      BY <1>1, <3>1, PayloadInData DEF Events
  <2> HIDE DEF Events
  <2>2. QED
    BY <1>1, <1>3, <2>1, AppendIn DEF Process
<1> USE DEF DataTypes
<1>4. CASE \E r \in Registrations : Register(r)
  <2>1. PICK r \in Registrations : Register(r)
    BY <1>4
  <2>2. [packetID |-> r.packetID, valueType |-> r.valueType, value |-> 0] \in Entries
    BY <1>2 DEF Entries
  <2> HIDE DEF Entries, Contents
  <2>3. /\ liveDataBuffer' \in Seq(Entries)
        /\ Len(liveDataBuffer') = Len(liveDataBuffer) + 1
    BY <1>1, <2>1, <2>2, AppendIn DEF Register
  <2>4. memory' \in Seq(Contents) /\ Len(memory') = Len(memory) + 1
    BY <1>1, <1>2, <2>1, AppendIn DEF Register
  <2>5. Len(liveDataBuffer) < kLiveDataBufSize /\ processed' = processed
    BY <2>1 DEF Register, RoomToRegister, done
  <2>6. QED
    BY <1>1, <2>3, <2>4, <2>5, Sizes
<1>5. CASE ProcessRequest
  <2>1. liveDataBuffer' = Snapshot /\ memory' = memory /\ Process
    BY <1>5 DEF ProcessRequest
  <2>2. Snapshot \in [1..Len(liveDataBuffer) -> Entries]
    <3>1. ASSUME NEW i \in 1..Len(liveDataBuffer)
          PROVE  [liveDataBuffer[i] EXCEPT !.value = SnapshotValue(i)] \in Entries
      <4>1. SnapshotValue(i) \in Contents
        BY <1>1 DEF SnapshotValue, Entries
      <4>2. QED
        BY <1>1, <4>1 DEF Entries
    <3>2. QED
      BY <1>1, <3>1 DEF Snapshot
  <2> HIDE DEF Entries
  <2>3. Snapshot \in Seq(Entries) /\ Len(Snapshot) = Len(liveDataBuffer)
    BY <1>1, <2>2, FunctionIsSeq
  <2>4. QED
    BY <1>1, <1>3, <2>1, <2>3
<1>6. CASE ProcessModify
  <2>1. /\ memory' = [i \in DOMAIN memory |->
                       IF i \in WrittenTo(PayloadData) THEN PayloadData.value
                       ELSE memory[i]]
        /\ liveDataBuffer' = liveDataBuffer /\ Process
    BY <1>6 DEF ProcessModify
  <2>2. memory' \in [1..Len(liveDataBuffer) -> Contents]
    BY <1>1, <2>1, PayloadInData
  <2>3. memory' \in Seq(Contents) /\ Len(memory') = Len(liveDataBuffer)
    BY <1>1, <2>2, FunctionIsSeq
  <2>4. QED
    BY <1>1, <1>3, <2>1, <2>3
<1>7. CASE UNCHANGED <<vars_, processed>>
  BY <1>1, <1>7 DEF vars_
<1>8. \/ \E r \in Registrations : Register(r)
      \/ ProcessRequest \/ ProcessModify \/ UNCHANGED <<vars_, processed>>
  BY DEF Next, vars, Send, ArriveByte, CorruptByte, LoseByte, Deliver, Update,
      NoHeader, RejectHeader, TooLarge, AcceptHeader, NoPayload, Unread, done,
      RejectPayload, ProcessUnknown
<1>9. QED
  BY <1>4, <1>5, <1>6, <1>7, <1>8

LEMMA TypesInit == Init => Types
<1> SUFFICES ASSUME Init PROVE Types
  OBVIOUS
<1>1. /\ <<>> \in Seq(Packets) /\ <<>> \in Seq(Nat) /\ Len(<<>>) = 0
      /\ <<>> \in Seq(Bytes(Len(<<>>))) /\ <<>> \in Seq(Entries)
      /\ <<>> \in Seq(Contents) /\ <<>> \in Seq(Events)
  BY EmptySeq
<1>2. QED
  BY <1>1, Sizes DEF Init, Types

LEMMA TypesNext == Types /\ [Next]_vars => Types'
  BY StreamTypesNext, StatusTypesNext, DataTypesNext
  DEF Types, StreamTypes, StatusTypes, DataTypes

(* The types: the header in rxBuffer belongs to a packet that was sent, and*)
(* no more variables are registered than the buffers hold.                 *)
THEOREM TypeCorrect == Spec => []TypeOK
  BY TypesInit, TypesNext, TypesImplyTypeOK, PTL DEF Spec

-----------------------------------------------------------------------------
(* What the line keeps of what was sent.                                   *)
HasLeft(p, o) == p < Len(sent) \/ (p = Len(sent) /\ o < off)
Intact(p, o)  == <<p, o>> \notin damaged
HasLeftThen(p, o)  == p < Len(sent') \/ (p = Len(sent') /\ o < off')
StaysIntact(p, o)  == <<p, o>> \notin damaged'
InLine(p, o)  ==
  \E j \in 1..Len(line) : line[j] = [pkt |-> p, off |-> o, byte |-> "sent"]

InLineThen(p, o) ==
  \E j \in 1..Len(line') : line'[j] = [pkt |-> p, off |-> o, byte |-> "sent"]

(* Bytes stay in the order they were sent in: offsets of one packet grow   *)
(* at least as fast as positions.                                          *)
Past     == \A k \in 1..Len(line) : HasLeft(line[k].pkt, line[k].off)
Ordered  == \A j, k \in 1..Len(line) : j < k => line[j].pkt <= line[k].pkt
Spaced   == \A j, k \in 1..Len(line) :
              j < k /\ line[j].pkt = line[k].pkt
                => line[k].off >= line[j].off + (k - j)
SpacedEnd == \A j \in 1..Len(line) :
              line[j].pkt = Len(sent) => off >= line[j].off + (Len(line) + 1 - j)

(* What is damaged has left, and is not on the line as it was sent.        *)
IntactInLine == \A k \in 1..Len(line) :
                  line[k].byte = "sent" => Intact(line[k].pkt, line[k].off)
DamagedPast == \A p, o \in Nat : ~Intact(p, o) => HasLeft(p, o)
DamagedFew  == IsFiniteSet(damaged) /\ Cardinality(damaged) <= MaxFaults

(* Behind a byte on the line, the intact rest of its packet is there too.  *)
NothingSkipped ==
  \A k \in 1..Len(line), o \in Nat :
    /\ line[k].off <= o /\ o < PacketSize(sent[line[k].pkt])
    /\ HasLeft(line[k].pkt, o) /\ Intact(line[k].pkt, o)
    => InLine(line[k].pkt, o)

(* Where packets start, in bytes that arrived.                             *)
Starts == \A k \in 1..Len(line) :
            line[k].off = 0 => startAt[line[k].pkt] = arrived - Len(line) + k - 1
StartsNext == sent # <<>> /\ off = 0 => startAt[Len(sent)] = arrived
Grid       == (arrived - Len(line)) % Unit = 0

LineInv ==
  /\ Past /\ Ordered /\ Spaced /\ SpacedEnd
  /\ IntactInLine /\ DamagedPast /\ DamagedFew
  /\ NothingSkipped
  /\ Starts /\ StartsNext /\ Grid

LEMMA LineTypes ==
  ASSUME Types
  PROVE  /\ Len(line) \in Nat /\ Len(sent) \in Nat
         /\ off \in Nat /\ arrived \in Nat
         /\ \A k \in 1..Len(line) :
               /\ line[k].pkt \in 1..Len(sent)
               /\ line[k].pkt \in Nat /\ line[k].off \in Nat
               /\ line[k].byte \in {"sent", "zero", "junk"}
               /\ line[k] = [pkt |-> line[k].pkt, off |-> line[k].off,
                             byte |-> line[k].byte]
               /\ PacketSize(sent[line[k].pkt]) \in Nat
<1>1. /\ sent \in Seq(Packets) /\ line \in Seq(Bytes(Len(sent)))
      /\ off \in Nat /\ arrived \in Nat
  BY DEF Types
<1>2. /\ Len(line) \in Nat /\ Len(sent) \in Nat
      /\ \A k \in 1..Len(line) : line[k] \in Bytes(Len(sent))
  <2> HIDE DEF Bytes
  <2>1. QED
    BY <1>1, AtIn
<1>3. ASSUME NEW k \in 1..Len(line)
      PROVE  /\ line[k].pkt \in 1..Len(sent) /\ line[k].off \in Nat
             /\ line[k].byte \in {"sent", "zero", "junk"}
             /\ line[k] = [pkt |-> line[k].pkt, off |-> line[k].off,
                           byte |-> line[k].byte]
  BY <1>2 DEF Bytes
<1>4. ASSUME NEW k \in 1..Len(line)
      PROVE  PacketSize(sent[line[k].pkt]) \in Nat
  BY <1>1, <1>3, PacketOf
<1>5. ASSUME NEW k \in 1..Len(line) PROVE line[k].pkt \in Nat
  <2>1. line[k].pkt \in 1..Len(sent)
    BY <1>3
  <2>2. QED
    BY <1>2, <2>1
<1>6. QED
  BY <1>1, <1>2, <1>3, <1>4, <1>5

(* The host hands over the next packet when the last one has left.         *)
LEMMA SendLine ==
  ASSUME Types, LineInv, NEW q \in Packets, Send(q)
  PROVE  LineInv'
<1>1. /\ sent' = Append(sent, q) /\ off' = 0 /\ startAt' = Append(startAt, arrived)
      /\ UNCHANGED <<arrived, damaged, line>> /\ ~Sending
  BY DEF Send
<1>2. /\ sent \in Seq(Packets) /\ startAt \in Seq(Nat) /\ Len(startAt) = Len(sent)
      /\ arrived \in Nat
  BY DEF Types
<1>3. /\ Len(sent) \in Nat /\ Len(sent') = Len(sent) + 1
      /\ \A i \in 1..Len(sent) : sent'[i] = sent[i]
      /\ \A i \in 1..Len(sent) : startAt'[i] = startAt[i]
      /\ startAt'[Len(sent')] = arrived
  BY <1>1, <1>2, AppendIn
<1>4. \A k \in 1..Len(line) :
        line[k].pkt \in 1..Len(sent) /\ line[k].off \in Nat
  BY LineTypes
<1>5. Past' /\ Ordered' /\ Spaced' /\ SpacedEnd'
  BY <1>1, <1>3, <1>4 DEF LineInv, Past, Ordered, Spaced, SpacedEnd, HasLeft
<1>6. IntactInLine' /\ DamagedFew'
  BY <1>1 DEF LineInv, IntactInLine, DamagedFew, Intact
<1>7. DamagedPast'
  BY <1>1, <1>3 DEF LineInv, DamagedPast, Intact, HasLeft
<1>8. NothingSkipped'
  <2> SUFFICES ASSUME NEW k \in 1..Len(line), NEW o \in Nat,
                      line[k].off <= o, o < PacketSize(sent'[line[k].pkt]),
                      Intact(line[k].pkt, o)
               PROVE  InLine(line[k].pkt, o)
    BY <1>1 DEF NothingSkipped, Intact, InLine
  <2> DEFINE p == line[k].pkt
  <2>1. p \in 1..Len(sent) /\ sent'[p] = sent[p]
    BY <1>3, <1>4
  <2>2. PacketSize(sent[p]) \in Nat
    BY <1>2, <2>1, PacketOf
  <2>3. HasLeft(p, o)
    <3>1. CASE p = Len(sent)
      <4>1. off >= PacketSize(sent[p])
        <5>1. sent # <<>>
          BY <1>2, <2>1, AtIn
        <5>2. off \in Nat
          BY LineTypes
        <5>3. ~(off < PacketSize(sent[p]))
          BY <1>1, <3>1, <5>1 DEF Sending, Last
        <5>4. QED
          BY <2>2, <5>2, <5>3
      <4>2. off \in Nat /\ o < PacketSize(sent[p])
        BY <2>1, LineTypes
      <4>3. QED
        BY <2>2, <3>1, <4>1, <4>2 DEF HasLeft
    <3>2. CASE p # Len(sent)
      BY <1>3, <2>1, <3>2 DEF HasLeft
    <3>3. QED
      BY <3>1, <3>2
  <2>4. o < PacketSize(sent[p])
    BY <2>1
  <2>5. QED
    BY <2>3, <2>4 DEF LineInv, NothingSkipped
<1>9. Starts' /\ StartsNext' /\ Grid'
  <2>1. Starts'
    BY <1>1, <1>3, <1>4 DEF LineInv, Starts
  <2>2. StartsNext' /\ Grid'
    BY <1>1, <1>3 DEF LineInv, StartsNext, Grid
  <2>3. QED
    BY <2>1, <2>2
<1>10. QED
  BY <1>5, <1>6, <1>7, <1>8, <1>9 DEF LineInv

(* A fault damages the byte that is leaving, and no more than allowed.     *)
LEMMA FaultFew ==
  ASSUME DamagedFew, Fault
  PROVE  DamagedFew'
<1>1. IsFiniteSet(damaged) /\ Cardinality(damaged) < MaxFaults
      /\ damaged' = damaged \union {<<Len(sent), off>>}
  BY DEF DamagedFew, Fault
<1>2. /\ IsFiniteSet(damaged') /\ Cardinality(damaged) \in Nat
      /\ Cardinality(damaged') \in {Cardinality(damaged), Cardinality(damaged) + 1}
  BY <1>1, FS_AddElement, FS_CardinalityType
<1>3. QED
  BY <1>1, <1>2, Sizes DEF DamagedFew

(* One byte leaves the host: it is damaged, or it arrives unharmed.        *)
LEMMA ByteLeaves ==
  ASSUME Types, LineInv, UNCHANGED sent, off' = off + 1,
         \A p, o \in Nat : ~StaysIntact(p, o) =>
            ~Intact(p, o) \/ (p = Len(sent) /\ o = off),
         \A p, o \in Nat : ~Intact(p, o) => ~StaysIntact(p, o)
  PROVE  /\ DamagedPast'
         /\ \A p, o \in Nat : HasLeft(p, o) => HasLeftThen(p, o)
         /\ \A p, o \in Nat : HasLeftThen(p, o) =>
               HasLeft(p, o) \/ (p = Len(sent) /\ o = off)
         /\ \A k \in 1..Len(line) :
               line[k].byte = "sent" => StaysIntact(line[k].pkt, line[k].off)
<1>1. off \in Nat /\ Len(sent) \in Nat
  BY LineTypes
<1>2. \A p, o \in Nat : HasLeft(p, o) => HasLeftThen(p, o)
  BY <1>1 DEF HasLeft, HasLeftThen
<1>3. \A p, o \in Nat : HasLeftThen(p, o) =>
               HasLeft(p, o) \/ (p = Len(sent) /\ o = off)
  BY <1>1 DEF HasLeft, HasLeftThen
<1>4. DamagedPast'
  <2> SUFFICES ASSUME NEW p \in Nat, NEW o \in Nat, ~StaysIntact(p, o)
               PROVE  HasLeftThen(p, o)
    BY DEF DamagedPast, Intact, StaysIntact, HasLeft, HasLeftThen
  <2>1. CASE ~Intact(p, o)
    BY <1>2, <2>1 DEF LineInv, DamagedPast
  <2>2. CASE p = Len(sent) /\ o = off
    BY <1>1, <2>2 DEF HasLeft, HasLeftThen
  <2>3. QED
    BY <2>1, <2>2
<1>5. ASSUME NEW k \in 1..Len(line), line[k].byte = "sent"
      PROVE  StaysIntact(line[k].pkt, line[k].off)
  <2>1. line[k].pkt \in Nat /\ line[k].off \in Nat
    BY LineTypes
  <2>2. Intact(line[k].pkt, line[k].off) /\ HasLeft(line[k].pkt, line[k].off)
    BY <1>5 DEF LineInv, IntactInLine, Past
  <2>3. ~(line[k].pkt = Len(sent) /\ line[k].off = off)
    BY <1>1, <2>2 DEF HasLeft, HasLeftThen
  <2>4. QED
    BY <2>1, <2>2, <2>3
<1>6. QED
  BY <1>2, <1>3, <1>4, <1>5

LEMMA LoseLine ==
  ASSUME Types, LineInv, LoseByte
  PROVE  LineInv'
<1>1. /\ UNCHANGED <<sent, startAt, arrived, line>> /\ off' = off + 1 /\ Fault
      /\ damaged' = damaged \union {<<Len(sent), off>>}
  BY DEF LoseByte, Fault
<1>2. /\ Len(line) \in Nat /\ Len(sent) \in Nat /\ off \in Nat
      /\ \A k \in 1..Len(line) : line[k].pkt \in Nat /\ line[k].off \in Nat
  BY LineTypes
<1>3. /\ \A p, o \in Nat : ~StaysIntact(p, o) <=>
            ~Intact(p, o) \/ (p = Len(sent) /\ o = off)
  BY <1>1 DEF Intact, StaysIntact
<1>4. /\ DamagedPast'
      /\ \A p, o \in Nat : HasLeft(p, o) => HasLeftThen(p, o)
      /\ \A p, o \in Nat : HasLeftThen(p, o) =>
               HasLeft(p, o) \/ (p = Len(sent) /\ o = off)
      /\ \A k \in 1..Len(line) :
               line[k].byte = "sent" => StaysIntact(line[k].pkt, line[k].off)
  <2>1. /\ UNCHANGED sent
        /\ \A p, o \in Nat : ~StaysIntact(p, o) =>
            ~Intact(p, o) \/ (p = Len(sent) /\ o = off)
        /\ \A p, o \in Nat : ~Intact(p, o) => ~StaysIntact(p, o)
    BY <1>1, <1>3
  <2>2. QED
    BY <1>1, <2>1, ByteLeaves
<1>5. Past' /\ Ordered' /\ Spaced' /\ SpacedEnd'
  <2>1. Past'
    BY <1>1, <1>2, <1>4 DEF LineInv, Past, HasLeft, HasLeftThen
  <2>2. Ordered' /\ Spaced' /\ SpacedEnd'
    BY <1>1, <1>2 DEF LineInv, Ordered, Spaced, SpacedEnd
  <2>3. QED
    BY <2>1, <2>2
<1>6. IntactInLine' /\ DamagedFew'
  BY <1>1, <1>4, FaultFew DEF LineInv, IntactInLine, Intact, StaysIntact
<1>7. NothingSkipped'
  <2> SUFFICES ASSUME NEW k \in 1..Len(line), NEW o \in Nat,
                      line[k].off <= o, o < PacketSize(sent[line[k].pkt]),
                      HasLeftThen(line[k].pkt, o), StaysIntact(line[k].pkt, o)
               PROVE  InLine(line[k].pkt, o)
    BY <1>1 DEF NothingSkipped, InLine, Intact, StaysIntact, HasLeft, HasLeftThen
  <2>1. HasLeft(line[k].pkt, o) /\ Intact(line[k].pkt, o)
    BY <1>2, <1>3, <1>4
  <2>2. QED
    BY <2>1 DEF LineInv, NothingSkipped
<1>8. Starts' /\ StartsNext' /\ Grid'
  BY <1>1, <1>2 DEF LineInv, Starts, StartsNext, Grid
<1>9. QED
  BY <1>4, <1>5, <1>6, <1>7, <1>8 DEF LineInv

LEMMA ArriveLine ==
  ASSUME Types, LineInv, ArriveStep
  PROVE  LineInv'
<1> DEFINE n == Len(line)
           p0 == Len(sent)
<1>1. PICK byte \in {"sent", "zero", "junk"} :
        Deliver(byte) /\ (IF byte = "sent" THEN UNCHANGED damaged ELSE Fault)
  BY DEF ArriveStep
<1> DEFINE b == [pkt |-> p0, off |-> off, byte |-> byte]
<1>2. /\ UNCHANGED <<sent, startAt>> /\ off' = off + 1 /\ arrived' = arrived + 1
      /\ line' = Append(line, b) /\ Sending
      /\ IF byte = "sent" THEN damaged' = damaged
         ELSE damaged' = damaged \union {<<p0, off>>}
  BY <1>1 DEF Deliver, Fault
<1>3. /\ n \in Nat /\ p0 \in Nat /\ off \in Nat /\ arrived \in Nat
      /\ \A k \in 1..n : line[k].pkt \in 1..p0 /\ line[k].off \in Nat
  BY LineTypes
<1>4. /\ Len(line') = n + 1
      /\ \A k \in 1..n : line'[k] = line[k]
      /\ line'[n + 1] = b
  <2>1. line \in Seq(Bytes(p0)) /\ b \in Bytes(p0)
    BY <1>2, NewByte DEF Types
  <2> HIDE DEF b, n, p0
  <2>2. QED
    BY <1>2, <2>1, AppendIn DEF n
<1>5. b.pkt = p0 /\ b.off = off /\ b.byte = byte
  OBVIOUS
<1> HIDE DEF b
<1>6. /\ \A p, o \in Nat : ~StaysIntact(p, o) =>
            ~Intact(p, o) \/ (byte # "sent" /\ p = p0 /\ o = off)
      /\ \A p, o \in Nat : ~Intact(p, o) => ~StaysIntact(p, o)
      /\ byte # "sent" => ~StaysIntact(p0, off)
  BY <1>2 DEF Intact, StaysIntact
<1>7. /\ DamagedPast'
      /\ \A p, o \in Nat : HasLeft(p, o) => HasLeftThen(p, o)
      /\ \A p, o \in Nat : HasLeftThen(p, o) => HasLeft(p, o) \/ (p = p0 /\ o = off)
      /\ \A k \in 1..n :
               line[k].byte = "sent" => StaysIntact(line[k].pkt, line[k].off)
  <2>1. UNCHANGED sent /\ off' = off + 1
    BY <1>2
  <2>2. /\ \A p, o \in Nat : ~StaysIntact(p, o) =>
            ~Intact(p, o) \/ (p = Len(sent) /\ o = off)
        /\ \A p, o \in Nat : ~Intact(p, o) => ~StaysIntact(p, o)
    BY <1>6
  <2>3. QED
    BY <2>1, <2>2, ByteLeaves
<1>8. ASSUME NEW k \in 1..Len(line')
      PROVE  (k \in 1..n /\ line'[k] = line[k]) \/ (k = n + 1 /\ line'[k] = b)
  BY <1>3, <1>4
<1>9. Past'
  <2> SUFFICES ASSUME NEW k \in 1..Len(line')
               PROVE  HasLeftThen(line'[k].pkt, line'[k].off)
    BY DEF Past, HasLeft, HasLeftThen
  <2>1. CASE k \in 1..n /\ line'[k] = line[k]
    <3>1. line[k].pkt \in Nat /\ line[k].off \in Nat
          /\ HasLeft(line[k].pkt, line[k].off)
      BY <1>3, <2>1 DEF LineInv, Past
    <3>2. QED
      BY <1>7, <2>1, <3>1
  <2>2. CASE k = n + 1 /\ line'[k] = b
    BY <1>2, <1>3, <1>5, <2>2 DEF HasLeft, HasLeftThen
  <2>3. QED
    BY <1>8, <2>1, <2>2
<1>10. Ordered' /\ Spaced'
  <2> SUFFICES ASSUME NEW j \in 1..Len(line'), NEW k \in 1..Len(line'), j < k
               PROVE  /\ line'[j].pkt <= line'[k].pkt
                      /\ line'[j].pkt = line'[k].pkt
                           => line'[k].off >= line'[j].off + (k - j)
    BY DEF Ordered, Spaced
  <2>1. j \in 1..n /\ line'[j] = line[j]
    BY <1>3, <1>4
  <2>2. CASE k \in 1..n /\ line'[k] = line[k]
    BY <2>1, <2>2 DEF LineInv, Ordered, Spaced
  <2>3. CASE k = n + 1 /\ line'[k] = b
    <3>1. line[j].pkt <= p0
      BY <1>3, <2>1
    <3>2. line[j].pkt = p0 => off >= line[j].off + (n + 1 - j)
      BY <2>1 DEF LineInv, SpacedEnd
    <3>3. QED
      BY <1>5, <2>1, <2>3, <3>1, <3>2
  <2>4. QED
    BY <1>8, <2>2, <2>3
<1>11. SpacedEnd'
  <2> SUFFICES ASSUME NEW j \in 1..Len(line'), line'[j].pkt = p0
               PROVE  off + 1 >= line'[j].off + ((n + 1) + 1 - j)
    BY <1>2, <1>4 DEF SpacedEnd
  <2>1. CASE j \in 1..n /\ line'[j] = line[j]
    <3>1. off >= line[j].off + (n + 1 - j)
      BY <2>1 DEF LineInv, SpacedEnd
    <3>2. QED
      BY <1>3, <2>1, <3>1
  <2>2. CASE j = n + 1 /\ line'[j] = b
    BY <1>3, <1>5, <2>2
  <2>3. QED
    BY <1>8, <2>1, <2>2
<1>12. IntactInLine'
  <2> SUFFICES ASSUME NEW k \in 1..Len(line'), line'[k].byte = "sent"
               PROVE  StaysIntact(line'[k].pkt, line'[k].off)
    BY DEF IntactInLine, Intact, StaysIntact
  <2>1. CASE k \in 1..n /\ line'[k] = line[k]
    BY <1>7, <2>1
  <2>2. CASE k = n + 1 /\ line'[k] = b
    <3>1. byte = "sent" /\ ~HasLeft(p0, off)
      BY <1>3, <1>5, <2>2 DEF HasLeft, HasLeftThen
    <3>2. Intact(p0, off)
      BY <1>3, <3>1 DEF LineInv, DamagedPast
    <3>3. QED
      BY <1>3, <1>5, <1>6, <2>2, <3>1, <3>2
  <2>3. QED
    BY <1>8, <2>1, <2>2
<1>13. DamagedFew'
  BY <1>1, FaultFew DEF LineInv, DamagedFew
<1>14. NothingSkipped'
  <2> SUFFICES ASSUME NEW k \in 1..Len(line'), NEW o \in Nat,
                      line'[k].off <= o, o < PacketSize(sent[line'[k].pkt]),
                      HasLeftThen(line'[k].pkt, o), StaysIntact(line'[k].pkt, o)
               PROVE  InLineThen(line'[k].pkt, o)
    BY <1>2 DEF NothingSkipped, Intact, StaysIntact, HasLeft, HasLeftThen,
                InLine, InLineThen
  <2>1. CASE line'[k].pkt = p0 /\ o = off
    <3>1. byte = "sent"
      BY <1>6, <2>1
    <3>2. line'[n + 1] = [pkt |-> line'[k].pkt, off |-> o, byte |-> "sent"]
      BY <1>4, <2>1, <3>1 DEF b
    <3>3. n + 1 \in 1..Len(line')
      BY <1>3, <1>4
    <3>4. QED
      BY <3>2, <3>3 DEF InLineThen
  <2>2. CASE ~(line'[k].pkt = p0 /\ o = off)
    <3>1. line'[k].pkt \in Nat
      BY <1>3, <1>5, <1>8
    <3>2. HasLeft(line'[k].pkt, o) /\ Intact(line'[k].pkt, o)
      BY <1>6, <1>7, <2>2, <3>1
    <3>3. k \in 1..n /\ line'[k] = line[k]
      BY <1>3, <1>5, <1>8, <2>2, <3>2 DEF HasLeft, HasLeftThen
    <3>4. InLine(line[k].pkt, o)
      BY <3>2, <3>3 DEF LineInv, NothingSkipped
    <3>5. PICK j \in 1..n : line[j] = [pkt |-> line[k].pkt, off |-> o, byte |-> "sent"]
      BY <3>4 DEF InLine
    <3>6. j \in 1..Len(line') /\ line'[j] = line[j]
      BY <1>3, <1>4
    <3>7. QED
      BY <3>3, <3>5, <3>6 DEF InLineThen
  <2>3. QED
    BY <2>1, <2>2
<1>15. Starts'
  <2> SUFFICES ASSUME NEW k \in 1..Len(line'), line'[k].off = 0
               PROVE  startAt[line'[k].pkt] = (arrived + 1) - (n + 1) + k - 1
    BY <1>2, <1>4 DEF Starts
  <2>1. CASE k \in 1..n /\ line'[k] = line[k]
    <3>1. startAt[line[k].pkt] = arrived - n + k - 1
      BY <2>1 DEF LineInv, Starts
    <3>2. QED
      BY <1>3, <2>1, <3>1
  <2>2. CASE k = n + 1 /\ line'[k] = b
    <3>1. sent # <<>> /\ off = 0
      BY <1>2, <1>5, <2>2 DEF Sending
    <3>2. startAt[p0] = arrived
      BY <3>1 DEF LineInv, StartsNext
    <3>3. QED
      BY <1>3, <1>5, <2>2, <3>2
  <2>3. QED
    BY <1>8, <2>1, <2>2
<1>16. StartsNext' /\ Grid'
  <2>1. arrived' - Len(line') = arrived - n /\ off' # 0
    BY <1>2, <1>3, <1>4
  <2>2. QED
    BY <2>1 DEF LineInv, StartsNext, Grid
<1>17. QED
  BY <1>7, <1>9, <1>10, <1>11, <1>12, <1>13, <1>14, <1>15, <1>16 DEF LineInv

(* Bytes are read from the front of the line, by multiples of Unit.        *)
LEMMA ReadLine ==
  ASSUME Types, NEW n, ReadStep(n)
  PROVE  /\ n \in Nat /\ Len(line') = Len(line) - n /\ n <= Len(line)
         /\ \A k \in 1..Len(line') : line'[k] = line[n + k] /\ n + k \in 1..Len(line)
<1>1. line \in Seq(Bytes(Len(sent))) /\ n \in Nat /\ n <= Len(line)
      /\ line' = SubSeq(line, n + 1, Len(line))
  BY DEF Types, ReadStep, Read
<1> HIDE DEF Bytes
<1>2. QED
  BY <1>1, RestOf

LEMMA ReadKeeps ==
  ASSUME Types, LineInv, NEW n, ReadStep(n)
  PROVE  LineInv'
<1>1. /\ n \in Nat /\ Len(line') = Len(line) - n /\ n <= Len(line)
      /\ \A k \in 1..Len(line') : line'[k] = line[n + k] /\ n + k \in 1..Len(line)
  BY ReadLine
<1>2. /\ UNCHANGED <<sent, off, startAt, arrived, damaged>> /\ n % Unit = 0
  BY DEF ReadStep, host
<1>3. /\ Len(line) \in Nat /\ Len(sent) \in Nat /\ arrived \in Nat
      /\ \A k \in 1..Len(line) : line[k].pkt \in Nat /\ line[k].off \in Nat
  BY LineTypes
<1>4. Past' /\ IntactInLine'
  <2>1. \A k \in 1..Len(line) :
          /\ HasLeft(line[k].pkt, line[k].off)
          /\ line[k].byte = "sent" => Intact(line[k].pkt, line[k].off)
    BY DEF LineInv, Past, IntactInLine
  <2>2. QED
    BY <1>1, <1>2, <2>1 DEF Past, IntactInLine, HasLeft, Intact
<1>5. Ordered' /\ Spaced'
  <2> SUFFICES ASSUME NEW j \in 1..Len(line'), NEW k \in 1..Len(line'), j < k
               PROVE  /\ line'[j].pkt <= line'[k].pkt
                      /\ line'[j].pkt = line'[k].pkt
                           => line'[k].off >= line'[j].off + (k - j)
    BY DEF Ordered, Spaced
  <2>1. /\ line'[j] = line[n + j] /\ n + j \in 1..Len(line)
        /\ line'[k] = line[n + k] /\ n + k \in 1..Len(line)
    BY <1>1
  <2>2. n + j < n + k /\ (n + k) - (n + j) = k - j
    BY <1>1, <1>3
  <2>3. /\ line[n + j].pkt <= line[n + k].pkt
        /\ line[n + j].pkt = line[n + k].pkt
             => line[n + k].off >= line[n + j].off + ((n + k) - (n + j))
    BY <2>1, <2>2 DEF LineInv, Ordered, Spaced
  <2>4. QED
    BY <2>1, <2>2, <2>3
<1>6. SpacedEnd'
  <2> SUFFICES ASSUME NEW j \in 1..Len(line'), line'[j].pkt = Len(sent)
               PROVE  off >= line'[j].off + (Len(line') + 1 - j)
    BY <1>2 DEF SpacedEnd
  <2>1. line'[j] = line[n + j] /\ n + j \in 1..Len(line)
    BY <1>1
  <2>2. off >= line[n + j].off + (Len(line) + 1 - (n + j))
    BY <2>1 DEF LineInv, SpacedEnd
  <2>3. Len(line) + 1 - (n + j) = Len(line') + 1 - j
    BY <1>1, <1>3
  <2>4. QED
    BY <2>1, <2>2, <2>3
<1>7. DamagedPast' /\ DamagedFew' /\ StartsNext'
  BY <1>2 DEF LineInv, DamagedPast, DamagedFew, StartsNext, HasLeft, Intact
<1>8. NothingSkipped'
  <2> SUFFICES ASSUME NEW k \in 1..Len(line'), NEW o \in Nat,
                      line'[k].off <= o, o < PacketSize(sent[line'[k].pkt]),
                      HasLeft(line'[k].pkt, o), Intact(line'[k].pkt, o)
               PROVE  InLineThen(line'[k].pkt, o)
    BY <1>2 DEF NothingSkipped, Intact, HasLeft, InLine, InLineThen
  <2>1. line'[k] = line[n + k] /\ n + k \in 1..Len(line)
    BY <1>1
  <2>2. InLine(line[n + k].pkt, o)
    BY <2>1 DEF LineInv, NothingSkipped
  <2>3. PICK j \in 1..Len(line) :
          line[j] = [pkt |-> line[n + k].pkt, off |-> o, byte |-> "sent"]
    BY <2>2 DEF InLine
  <2>4. line[j].pkt = line[n + k].pkt /\ line[j].off = o
    BY <2>3
  <2>5. ~(j < n + k)
    <3>1. ASSUME j < n + k PROVE line[n + k].off >= line[j].off + ((n + k) - j)
      BY <2>1, <2>4, <3>1 DEF LineInv, Spaced
    <3>2. line[n + k].off <= o /\ line[n + k].off \in Nat /\ n + k \in Nat
      BY <1>3, <2>1
    <3>3. QED
      BY <2>4, <3>1, <3>2
  <2>6. j - n \in 1..Len(line') /\ n + (j - n) = j
    BY <1>1, <1>3, <2>5
  <2>7. line'[j - n] = line[j]
    BY <1>1, <2>6
  <2>8. QED
    BY <2>1, <2>3, <2>6, <2>7 DEF InLineThen
<1>9. Starts'
  <2> SUFFICES ASSUME NEW k \in 1..Len(line'), line'[k].off = 0
               PROVE  startAt[line'[k].pkt] = arrived - Len(line') + k - 1
    BY <1>2 DEF Starts
  <2>1. line'[k] = line[n + k] /\ n + k \in 1..Len(line)
    BY <1>1
  <2>2. startAt[line[n + k].pkt] = arrived - Len(line) + (n + k) - 1
    BY <2>1 DEF LineInv, Starts
  <2>3. QED
    BY <1>1, <1>3, <2>1, <2>2
<1>10. Grid'
  <2>1. ((arrived - Len(line)) + n) % Unit = 0
    <3>1. (arrived - Len(line)) % Unit = 0 /\ arrived - Len(line) \in Int
      BY <1>3 DEF LineInv, Grid
    <3>2. QED
      BY <1>1, <1>2, <3>1, Sizes, ModAdd
  <2>2. arrived - Len(line') = (arrived - Len(line)) + n
    BY <1>1, <1>3
  <2>3. QED
    BY <1>2, <2>1, <2>2 DEF Grid
<1>11. QED
  BY <1>4, <1>5, <1>6, <1>7, <1>8, <1>9, <1>10 DEF LineInv

LEMMA LineNext == Types /\ LineInv /\ [Next]_vars => LineInv'
<1> SUFFICES ASSUME Types, LineInv, [Next]_vars PROVE LineInv'
  OBVIOUS
<1>1. CASE Quiet
  BY <1>1 DEF Quiet, host, LineInv, Past, Ordered, Spaced, SpacedEnd, IntactInLine,
     DamagedPast, DamagedFew, NothingSkipped, Starts, StartsNext, Grid,
     HasLeft, Intact, InLine
<1>2. QED
  BY <1>1, Steps, SendLine, ArriveLine, LoseLine, ReadKeeps
  DEF DropStep, ConsumeStep, TakeStep

LEMMA LineInit == Init => LineInv
<1> SUFFICES ASSUME Init PROVE LineInv
  OBVIOUS
<1>1. Len(<<>>) = 0 /\ line = <<>> /\ sent = <<>> /\ damaged = {} /\ arrived = 0
  BY EmptySeq DEF Init
<1>2. DamagedFew
  BY <1>1, FS_EmptySet, Sizes DEF DamagedFew
<1>3. Grid
  <2>1. (Unit * 0) % Unit = 0 /\ Unit * 0 = 0
    BY Sizes, MultipleMod
  <2>2. Len(line) = 0 /\ arrived = 0
    BY <1>1
  <2>3. arrived - Len(line) = 0
    BY <2>2
  <2>4. QED
    BY <2>1, <2>3 DEF Grid
<1>4. QED
  BY <1>1, <1>2, <1>3
  DEF LineInv, Past, Ordered, Spaced, SpacedEnd, IntactInLine, DamagedPast,
      NothingSkipped, Starts, StartsNext, Intact

-----------------------------------------------------------------------------
(* The packet whose header is in rxBuffer: its header arrived unharmed and *)
(* on the grid, and what is left of the line begins behind it.             *)
Held == packetStatus = "HEADER_RECEIVED" /\ rxHeader # 0

HeldHeader(p) ==
  \A o \in 0..(HeaderSize - 1) : HasLeft(p, o) /\ Intact(p, o)

HeldBehind(p) ==
  /\ \A k \in 1..Len(line) :
       /\ line[k].pkt >= p
       /\ line[k].pkt = p => line[k].off >= HeaderSize + k - 1
  /\ p = Len(sent) => off >= HeaderSize + Len(line)

HeldBody(p) ==
  \A o \in Nat :
    /\ HeaderSize <= o /\ o < PacketSize(sent[p])
    /\ HasLeft(p, o) /\ Intact(p, o)
    => InLine(p, o)

HeldGrid(p) == startAt[p] % Unit = 0

HeldInv ==
  Held => /\ HeldHeader(rxHeader) /\ HeldBehind(rxHeader)
          /\ HeldBody(rxHeader) /\ HeldGrid(rxHeader)

(* The packets that were taken, and the line behind them.                  *)
TakenHeaders ==
  \A j \in 1..Len(processed) :
    /\ processed[j].pkt \in 1..Len(sent)
    /\ HeldHeader(processed[j].pkt)
TakenGrid    == \A j \in 1..Len(processed) : HeldGrid(processed[j].pkt)
TakenInOrder ==
  \A i, j \in 1..Len(processed) : i < j => processed[i].pkt < processed[j].pkt
LineBehind   ==
  \A j \in 1..Len(processed), k \in 1..Len(line) :
    /\ line[k].pkt >= processed[j].pkt
    /\ line[k].pkt = processed[j].pkt => line[k].off >= HeaderSize
HeldBehindTaken ==
  Held => \A j \in 1..Len(processed) : processed[j].pkt < rxHeader

TakenInv ==
  TakenHeaders /\ TakenGrid /\ TakenInOrder /\ LineBehind /\ HeldBehindTaken

PacketInv == LineInv /\ HeldInv /\ TakenInv

(* An accepted header is the front of the line.                            *)
LEMMA FrontOfLine ==
  ASSUME Types, AcceptHeader, ReadStep(HeaderSize), rxHeader' # 0
  PROVE  /\ rxHeader' \in 1..Len(sent)
         /\ HeaderSize \in 1..Len(line)
         /\ \A k \in 1..HeaderSize :
              line[k] = [pkt |-> rxHeader', off |-> k - 1, byte |-> "sent"]
<1>1. HeaderOk /\ rxHeader' = HeaderOf(HeaderWindow) /\ HasHeader
  BY DEF AcceptHeader
<1>2. rxHeader' \in DOMAIN sent /\ FromPacket(HeaderWindow, rxHeader', 0)
  BY <1>1, HeaderOfHolder
<1>3. sent \in Seq(Packets) /\ line \in Seq(Bytes(Len(sent)))
  BY DEF Types
<1>4. rxHeader' \in 1..Len(sent)
  BY <1>2, <1>3, AtIn
<1>5. Len(line) \in Nat /\ HeaderSize \in 1..Len(line)
  BY <1>1, LineTypes, Sizes DEF HasHeader
<1>6. /\ DOMAIN HeaderWindow = 1..HeaderSize
      /\ \A k \in 1..HeaderSize : HeaderWindow[k] = line[k]
  <2> HIDE DEF Bytes
  <2>1. HeaderSize \in Nat /\ HeaderSize <= Len(line)
    BY <1>5, Sizes
  <2>2. QED
    BY <1>3, <2>1, FirstOf DEF HeaderWindow
<1>7. ASSUME NEW k \in 1..HeaderSize
      PROVE  line[k] = [pkt |-> rxHeader', off |-> k - 1, byte |-> "sent"]
  <2>1. HeaderWindow[k] = [pkt |-> rxHeader', off |-> 0 + k - 1, byte |-> "sent"]
    BY <1>2, <1>6 DEF FromPacket
  <2>2. 0 + k - 1 = k - 1
    BY Sizes
  <2>3. QED
    BY <1>6, <2>1, <2>2
<1>8. QED
  BY <1>4, <1>5, <1>7

LEMMA HeldStarts ==
  ASSUME Types, LineInv, TakenInv, AcceptHeader, ReadStep(HeaderSize),
         NEW h, h = rxHeader', h # 0
  PROVE  /\ HeldHeader(h)' /\ HeldBehind(h)' /\ HeldBody(h)' /\ HeldGrid(h)'
         /\ \A j \in 1..Len(processed) : processed[j].pkt < h
<1> DEFINE H == HeaderSize
<1>1. /\ h \in 1..Len(sent) /\ H \in 1..Len(line)
      /\ \A k \in 1..H : line[k] = [pkt |-> h, off |-> k - 1, byte |-> "sent"]
  BY FrontOfLine
<1>2. ASSUME NEW k \in 1..H
      PROVE  line[k].pkt = h /\ line[k].off = k - 1 /\ line[k].byte = "sent"
  <2>1. line[k] = [pkt |-> h, off |-> k - 1, byte |-> "sent"]
    BY <1>1
  <2>2. QED
    BY <2>1
<1>3. /\ Len(line') = Len(line) - H /\ H <= Len(line)
      /\ \A k \in 1..Len(line') : line'[k] = line[H + k] /\ H + k \in 1..Len(line)
  BY ReadLine
<1>4. /\ Len(line) \in Nat /\ Len(sent) \in Nat /\ off \in Nat /\ arrived \in Nat
      /\ \A k \in 1..Len(line) : line[k].pkt \in Nat /\ line[k].off \in Nat
  BY LineTypes
<1>5. UNCHANGED <<sent, off, startAt, arrived, damaged, processed>>
  BY DEF AcceptHeader, Unread, host, done
<1>6. H \in Nat /\ H > 0
  BY Sizes
<1> HIDE DEF H
<1>7. ASSUME NEW o \in 0..(H - 1) PROVE HasLeft(h, o) /\ Intact(h, o)
  <2>1. o + 1 \in 1..H /\ o + 1 \in 1..Len(line) /\ (o + 1) - 1 = o
    BY <1>1, <1>4, <1>6
  <2>2. line[o + 1].pkt = h /\ line[o + 1].off = o /\ line[o + 1].byte = "sent"
    BY <1>2, <2>1
  <2>3. QED
    BY <2>1, <2>2 DEF LineInv, Past, IntactInLine
<1>8. HeldHeader(h)'
  BY <1>5, <1>7 DEF HeldHeader, HasLeft, Intact, H
<1>9. HeldBehind(h)'
  <2>1. line[H].pkt = h /\ line[H].off = H - 1
    BY <1>2, <1>6
  <2>2. ASSUME NEW k \in 1..Len(line')
        PROVE  line'[k].pkt >= h /\ (line'[k].pkt = h => line'[k].off >= H + k - 1)
    <3>1. line'[k] = line[H + k] /\ H + k \in 1..Len(line) /\ H < H + k
      BY <1>3, <1>4, <1>6
    <3>2. /\ line[H].pkt <= line[H + k].pkt
          /\ line[H + k].pkt = line[H].pkt
               => line[H + k].off >= line[H].off + ((H + k) - H)
      BY <1>1, <3>1 DEF LineInv, Ordered, Spaced
    <3>3. QED
      BY <1>4, <1>6, <2>1, <3>1, <3>2
  <2>3. h = Len(sent) => off >= H + Len(line')
    <3>1. h = Len(sent) => off >= line[H].off + (Len(line) + 1 - H)
      BY <1>1, <2>1 DEF LineInv, SpacedEnd
    <3>2. QED
      BY <1>3, <1>4, <1>6, <2>1, <3>1
  <2>4. QED
    BY <1>5, <2>2, <2>3 DEF HeldBehind, H
<1>10. HeldBody(h)'
  <2> SUFFICES ASSUME NEW o \in Nat, H <= o, o < PacketSize(sent[h]),
                      HasLeft(h, o), Intact(h, o)
               PROVE  InLineThen(h, o)
    BY <1>5 DEF HeldBody, HasLeft, Intact, InLine, InLineThen, H
  <2>1. line[H].pkt = h /\ line[H].off = H - 1 /\ line[H].off <= o
    BY <1>2, <1>6
  <2>2. InLine(h, o)
    BY <1>1, <2>1 DEF LineInv, NothingSkipped
  <2>3. PICK j \in 1..Len(line) : line[j] = [pkt |-> h, off |-> o, byte |-> "sent"]
    BY <2>2 DEF InLine
  <2>4. line[j].off = o
    BY <2>3
  <2>5. ~(j <= H)
    <3>1. ASSUME j <= H PROVE line[j].off = j - 1
      BY <1>2, <1>4, <1>6, <3>1
    <3>2. QED
      BY <1>6, <2>4, <3>1
  <2>6. j - H \in 1..Len(line') /\ H + (j - H) = j
    BY <1>3, <1>4, <1>6, <2>5
  <2>7. line'[j - H] = line[j]
    BY <1>3, <2>6
  <2>8. QED
    BY <2>3, <2>6, <2>7 DEF InLineThen
<1>11. HeldGrid(h)'
  <2>1. 1 \in 1..Len(line) /\ line[1].pkt = h /\ line[1].off = 0
    BY <1>1, <1>2, <1>4, <1>6
  <2>2. startAt[h] = arrived - Len(line) + 1 - 1
    BY <2>1 DEF LineInv, Starts
  <2>3. startAt[h] = arrived - Len(line)
    BY <1>4, <2>2
  <2>4. QED
    BY <1>5, <2>3 DEF LineInv, Grid, HeldGrid
<1>12. ASSUME NEW j \in 1..Len(processed) PROVE processed[j].pkt < h
  <2>1. 1 \in 1..Len(line) /\ line[1].pkt = h /\ line[1].off = 0
    BY <1>1, <1>2, <1>4, <1>6
  <2>2. /\ processed[j].pkt \in 1..Len(sent)
        /\ h >= processed[j].pkt /\ (h = processed[j].pkt => 0 >= H)
    BY <2>1 DEF TakenInv, TakenHeaders, LineBehind, H
  <2>3. QED
    BY <1>1, <1>4, <1>6, <2>2
<1>13. QED
  BY <1>8, <1>9, <1>10, <1>11, <1>12

(* What is known of a packet that has left stays known.                    *)
LEMMA HeaderKept ==
  ASSUME Types, LineInv, [Next]_vars, NEW p \in 1..Len(sent), HeldHeader(p)
  PROVE  HeldHeader(p)'
<1>1. p \in Nat /\ Len(sent) \in Nat /\ off \in Nat
  BY LineTypes
<1> SUFFICES ASSUME NEW o \in 0..(HeaderSize - 1)
             PROVE  HasLeftThen(p, o) /\ StaysIntact(p, o)
  BY DEF HeldHeader, HasLeft, Intact, HasLeftThen, StaysIntact
<1>2. HasLeft(p, o) /\ Intact(p, o)
  BY DEF HeldHeader
<1>3. CASE \E q \in Packets : Send(q)
  <2>1. PICK q \in Packets : Send(q)
    BY <1>3
  <2>2. sent' = Append(sent, q) /\ damaged' = damaged /\ sent \in Seq(Packets)
    BY <2>1 DEF Send, Types
  <2>3. Len(sent') = Len(sent) + 1
    BY <2>2, AppendIn
  <2>4. QED
    BY <1>1, <1>2, <2>2, <2>3 DEF HasLeftThen, StaysIntact, Intact
<1>4. ASSUME sent' = sent, off' = off + 1,
             damaged' \subseteq damaged \union {<<Len(sent), off>>}
      PROVE  HasLeftThen(p, o) /\ StaysIntact(p, o)
  <2>1. HasLeftThen(p, o)
    BY <1>1, <1>2, <1>4, Sizes DEF HasLeft, HasLeftThen
  <2>2. ~(p = Len(sent) /\ o = off)
    BY <1>1, <1>2 DEF HasLeft
  <2>3. QED
    BY <1>2, <1>4, <2>1, <2>2 DEF StaysIntact, Intact
<1>5. CASE ArriveStep
  BY <1>4, <1>5 DEF ArriveStep, Deliver, Fault
<1>6. CASE LoseByte
  BY <1>4, <1>6 DEF LoseByte, Fault
<1>7. CASE UNCHANGED <<sent, off, damaged>>
  BY <1>2, <1>7 DEF HasLeft, HasLeftThen, Intact, StaysIntact
<1>8. QED
  BY <1>3, <1>5, <1>6, <1>7, Steps
  DEF Quiet, DropStep, ConsumeStep, TakeStep, ReadStep, host

LEMMA GridKept ==
  ASSUME Types, [Next]_vars, NEW p \in 1..Len(sent), HeldGrid(p)
  PROVE  HeldGrid(p)'
<1>1. startAt \in Seq(Nat) /\ Len(startAt) = Len(sent)
  BY DEF Types
<1>2. CASE \E q \in Packets : Send(q)
  <2>1. startAt' = Append(startAt, arrived) /\ arrived \in Nat
    BY <1>2 DEF Send, Types
  <2>2. startAt'[p] = startAt[p]
    BY <1>1, <2>1, AppendIn
  <2>3. QED
    BY <2>2 DEF HeldGrid
<1>3. CASE startAt' = startAt
  BY <1>3 DEF HeldGrid
<1>4. QED
  BY <1>2, <1>3, Steps
  DEF ArriveStep, Deliver, LoseByte, Quiet, DropStep, ConsumeStep, TakeStep,
      ReadStep, host

LEMMA SentGrows ==
  ASSUME Types, [Next]_vars
  PROVE  Len(sent) \in Nat /\ Len(sent') \in Nat /\ Len(sent') >= Len(sent)
<1>1. sent \in Seq(Packets) /\ Len(sent) \in Nat
  BY LineTypes DEF Types
<1>2. CASE \E q \in Packets : Send(q)
  <2>1. PICK q \in Packets : sent' = Append(sent, q)
    BY <1>2 DEF Send
  <2>2. Len(sent') = Len(sent) + 1
    BY <1>1, <2>1, AppendIn
  <2>3. QED
    BY <1>1, <2>2
<1>3. CASE sent' = sent
  BY <1>1, <1>3
<1>4. QED
  BY <1>2, <1>3, Steps
  DEF ArriveStep, Deliver, LoseByte, Quiet, DropStep, ConsumeStep, TakeStep,
      ReadStep, host

(* While a header waits for its payload, bytes only come behind it.        *)
LEMMA HeldSend ==
  ASSUME Types, NEW q \in Packets, Send(q),
         NEW p \in 1..Len(sent), HeldBehind(p), HeldBody(p)
  PROVE  HeldBehind(p)' /\ HeldBody(p)'
<1>1. /\ sent' = Append(sent, q) /\ off' = 0 /\ ~Sending
      /\ UNCHANGED <<damaged, line>>
  BY DEF Send
<1>2. sent \in Seq(Packets) /\ p \in Nat /\ Len(sent) \in Nat /\ off \in Nat
  BY LineTypes DEF Types
<1>3. Len(sent') = Len(sent) + 1 /\ sent'[p] = sent[p]
  BY <1>1, <1>2, AppendIn
<1>4. HeldBehind(p)'
  BY <1>1, <1>2, <1>3 DEF HeldBehind
<1>5. HeldBody(p)'
  <2> SUFFICES ASSUME NEW o \in Nat, HeaderSize <= o, o < PacketSize(sent[p]),
                      Intact(p, o)
               PROVE  InLine(p, o)
    BY <1>1, <1>3 DEF HeldBody, Intact, InLine
  <2>1. PacketSize(sent[p]) \in Nat
    BY <1>2, PacketOf
  <2>2. HasLeft(p, o)
    <3>1. CASE p = Len(sent)
      <4>1. sent # <<>>
        BY <1>2, <3>1, AtIn
      <4>2. ~(off < PacketSize(sent[p]))
        BY <1>1, <3>1, <4>1 DEF Sending, Last
      <4>3. QED
        BY <1>2, <2>1, <3>1, <4>2 DEF HasLeft
    <3>2. CASE p # Len(sent)
      BY <1>2, <3>2 DEF HasLeft
    <3>3. QED
      BY <3>1, <3>2
  <2>3. QED
    BY <2>2 DEF HeldBody
<1>6. QED
  BY <1>4, <1>5

LEMMA HeldLose ==
  ASSUME Types, LoseByte,
         NEW p \in 1..Len(sent), HeldBehind(p), HeldBody(p)
  PROVE  HeldBehind(p)' /\ HeldBody(p)'
<1>1. /\ UNCHANGED <<sent, line>> /\ off' = off + 1
      /\ damaged' = damaged \union {<<Len(sent), off>>}
  BY DEF LoseByte, Fault
<1>2. p \in Nat /\ Len(sent) \in Nat /\ off \in Nat /\ Len(line) \in Nat
  BY LineTypes
<1>3. HeldBehind(p)'
  <2>1. p = Len(sent) => off + 1 >= HeaderSize + Len(line)
    BY <1>2, Sizes DEF HeldBehind
  <2>2. QED
    BY <1>1, <2>1 DEF HeldBehind
<1>4. HeldBody(p)'
  <2> SUFFICES ASSUME NEW o \in Nat, HeaderSize <= o, o < PacketSize(sent[p]),
                      HasLeftThen(p, o), StaysIntact(p, o)
               PROVE  InLine(p, o)
    BY <1>1 DEF HeldBody, HasLeft, Intact, HasLeftThen, StaysIntact, InLine
  <2>1. Intact(p, o) /\ ~(p = Len(sent) /\ o = off)
    BY <1>1 DEF Intact, StaysIntact
  <2>2. HasLeft(p, o)
    BY <1>1, <1>2, <2>1 DEF HasLeft, HasLeftThen
  <2>3. QED
    BY <2>1, <2>2 DEF HeldBody
<1>5. QED
  BY <1>3, <1>4

LEMMA HeldArrive ==
  ASSUME Types, ArriveStep,
         NEW p \in 1..Len(sent), HeldBehind(p), HeldBody(p)
  PROVE  HeldBehind(p)' /\ HeldBody(p)'
<1>1. PICK byte \in {"sent", "zero", "junk"} :
        Deliver(byte) /\ (IF byte = "sent" THEN UNCHANGED damaged ELSE Fault)
  BY DEF ArriveStep
<1> DEFINE n == Len(line)
           b == [pkt |-> Len(sent), off |-> off, byte |-> byte]
<1>2. /\ UNCHANGED sent /\ off' = off + 1 /\ line' = Append(line, b) /\ Sending
      /\ IF byte = "sent" THEN damaged' = damaged
         ELSE damaged' = damaged \union {<<Len(sent), off>>}
  BY <1>1 DEF Deliver, Fault
<1>3. /\ p \in Nat /\ Len(sent) \in Nat /\ off \in Nat /\ n \in Nat
      /\ \A k \in 1..n : line[k].pkt \in Nat /\ line[k].off \in Nat
  <2>1. Len(sent) \in Nat
    BY LineTypes
  <2>2. p \in Nat
    BY <2>1
  <2>3. QED
    BY <2>1, <2>2, LineTypes
<1>4. /\ Len(line') = n + 1
      /\ \A k \in 1..n : line'[k] = line[k]
      /\ line'[n + 1] = b
  <2>1. line \in Seq(Bytes(Len(sent))) /\ b \in Bytes(Len(sent))
    BY <1>2, NewByte DEF Types
  <2> HIDE DEF b, Bytes
  <2>2. QED
    BY <1>2, <2>1, AppendIn
<1>5. b.pkt = Len(sent) /\ b.off = off
  OBVIOUS
<1> HIDE DEF b
<1>6. HeldBehind(p)'
  <2>1. p = Len(sent) => off >= HeaderSize + n
    BY DEF HeldBehind
  <2>2. ASSUME NEW k \in 1..Len(line')
        PROVE  line'[k].pkt >= p /\ (line'[k].pkt = p => line'[k].off >= HeaderSize + k - 1)
    <3>1. CASE k \in 1..n
      BY <1>4, <3>1 DEF HeldBehind
    <3>2. CASE k = n + 1
      <4>1. line'[k].pkt = Len(sent) /\ line'[k].off = off
        BY <1>4, <1>5, <3>2
      <4>2. p = Len(sent) => off >= HeaderSize + k - 1
        BY <1>3, <2>1, <3>2, Sizes
      <4>3. QED
        BY <1>3, <4>1, <4>2
    <3>3. QED
      BY <1>3, <1>4, <3>1, <3>2
  <2>3. p = Len(sent) => off + 1 >= HeaderSize + (n + 1)
    BY <1>3, <2>1, Sizes
  <2>4. QED
    BY <1>2, <1>4, <2>2, <2>3 DEF HeldBehind
<1>7. HeldBody(p)'
  <2> SUFFICES ASSUME NEW o \in Nat, HeaderSize <= o, o < PacketSize(sent[p]),
                      HasLeftThen(p, o), StaysIntact(p, o)
               PROVE  InLineThen(p, o)
    BY <1>2 DEF HeldBody, HasLeft, Intact, HasLeftThen, StaysIntact, InLine, InLineThen
  <2>1. CASE p = Len(sent) /\ o = off
    <3>1. byte = "sent"
      BY <1>2, <2>1 DEF StaysIntact
    <3>2. line'[n + 1] = [pkt |-> p, off |-> o, byte |-> "sent"]
      BY <1>4, <2>1, <3>1 DEF b
    <3>3. n + 1 \in 1..Len(line')
      BY <1>3, <1>4
    <3>4. QED
      BY <3>2, <3>3 DEF InLineThen
  <2>2. CASE ~(p = Len(sent) /\ o = off)
    <3>1. HasLeft(p, o)
      BY <1>2, <1>3, <2>2 DEF HasLeft, HasLeftThen
    <3>2. Intact(p, o)
      BY <1>2 DEF Intact, StaysIntact
    <3>3. PICK j \in 1..n : line[j] = [pkt |-> p, off |-> o, byte |-> "sent"]
      BY <3>1, <3>2 DEF HeldBody, InLine
    <3>4. j \in 1..Len(line') /\ line'[j] = line[j]
      BY <1>3, <1>4
    <3>5. QED
      BY <3>3, <3>4 DEF InLineThen
  <2>3. QED
    BY <2>1, <2>2
<1>8. QED
  BY <1>6, <1>7

LEMMA HeldQuiet ==
  ASSUME Quiet, NEW p, HeldBehind(p), HeldBody(p)
  PROVE  HeldBehind(p)' /\ HeldBody(p)'
  BY DEF Quiet, host, HeldBehind, HeldBody, HasLeft, Intact, InLine

LEMMA HeldNext == Types /\ LineInv /\ HeldInv /\ TakenInv /\ [Next]_vars => HeldInv'
<1> SUFFICES ASSUME Types, LineInv, HeldInv, TakenInv, [Next]_vars, Held'
             PROVE  /\ HeldHeader(rxHeader)' /\ HeldBehind(rxHeader)'
                    /\ HeldBody(rxHeader)' /\ HeldGrid(rxHeader)'
  BY DEF HeldInv
<1>1. PICK h : h = rxHeader'
  OBVIOUS
<1>2. h # 0 /\ packetStatus' = "HEADER_RECEIVED"
  BY <1>1 DEF Held
<1>3. SUFFICES HeldHeader(h)' /\ HeldBehind(h)' /\ HeldBody(h)' /\ HeldGrid(h)'
  <2>1. HeldHeader(rxHeader)' /\ HeldGrid(rxHeader)'
    BY <1>1, <1>3 DEF HeldHeader, HeldGrid, HasLeft, Intact
  <2>2. HeldBehind(rxHeader)'
    BY <1>1, <1>3 DEF HeldBehind
  <2>3. HeldBody(rxHeader)'
    BY <1>1, <1>3 DEF HeldBody, HasLeft, Intact, InLine
  <2>4. QED
    BY <2>1, <2>2, <2>3
<1>4. CASE AcceptHeader /\ ReadStep(HeaderSize)
  BY <1>1, <1>2, <1>4, HeldStarts
<1>5. ASSUME UNCHANGED <<packetStatus, rxHeader>>
      PROVE  /\ h \in 1..Len(sent) /\ HeldHeader(h) /\ HeldBehind(h)
             /\ HeldBody(h) /\ HeldGrid(h)
  <2>1. Held /\ h = rxHeader
    BY <1>1, <1>2, <1>5 DEF Held
  <2>2. rxHeader \in 0..Len(sent) /\ Len(sent) \in Nat
    BY LineTypes DEF Types
  <2>3. h \in 1..Len(sent)
    BY <1>2, <2>1, <2>2
  <2>4. QED
    BY <2>1, <2>3 DEF HeldInv
<1>6. ASSUME UNCHANGED <<packetStatus, rxHeader>>
      PROVE  HeldHeader(h)' /\ HeldGrid(h)'
  BY <1>5, <1>6, HeaderKept, GridKept
<1>7. CASE \E q \in Packets : Send(q)
  <2>1. PICK q \in Packets : Send(q)
    BY <1>7
  <2>2. UNCHANGED <<packetStatus, rxHeader>>
    BY <2>1 DEF Send
  <2>3. QED
    BY <1>5, <1>6, <2>1, <2>2, HeldSend
<1>8. CASE ArriveStep
  <2>1. UNCHANGED <<packetStatus, rxHeader>>
    BY <1>8 DEF ArriveStep, Deliver
  <2>2. QED
    BY <1>5, <1>6, <1>8, <2>1, HeldArrive
<1>9. CASE LoseByte
  <2>1. UNCHANGED <<packetStatus, rxHeader>>
    BY <1>9 DEF LoseByte
  <2>2. QED
    BY <1>5, <1>6, <1>9, <2>1, HeldLose
<1>10. CASE Quiet
  <2>1. UNCHANGED <<packetStatus, rxHeader>>
    BY <1>10 DEF Quiet
  <2>2. QED
    BY <1>5, <1>6, <1>10, <2>1, HeldQuiet
<1>11. CASE packetStatus' = "WAITING"
  BY <1>2, <1>11
<1>12. QED
  BY <1>4, <1>7, <1>8, <1>9, <1>10, <1>11, Steps
  DEF DropStep, ConsumeStep, TakeStep

(* A packet is taken: it is the one in hand.                               *)
LEMMA TakenTypes ==
  ASSUME Types, TakeStep
  PROVE  /\ Len(processed) \in Nat /\ Len(processed') = Len(processed) + 1
         /\ \A j \in 1..Len(processed) : processed'[j] = processed[j]
         /\ processed'[Len(processed) + 1] =
              [pkt |-> rxHeader, data |-> PayloadData, known |-> Len(liveDataBuffer)]
         /\ \A j \in 1..Len(processed) : processed[j].pkt \in Nat
         /\ Held /\ rxHeader \in 1..Len(sent) /\ rxHeader \in Nat
<1>1. processed \in Seq(Events) /\ rxHeader \in 0..Len(sent) /\ Len(sent) \in Nat
      /\ liveDataBuffer \in Seq(Entries)
  BY LineTypes DEF Types
<1>2. rxHeader # 0 /\ HasPayload /\ Process
  BY DEF TakeStep, ConsumeStep
<1>3. rxHeader \in 1..Len(sent) /\ rxHeader \in Nat /\ Held
  BY <1>1, <1>2 DEF Held, HasPayload
<1>4. \A j \in 1..Len(processed) : processed[j].pkt \in Nat
  <2>1. \A j \in 1..Len(processed) : processed[j] \in Events
    <3> HIDE DEF Events
    <3>1. QED
      BY <1>1, AtIn
  <2>2. QED
    BY <2>1 DEF Events
<1> DEFINE e == [pkt |-> rxHeader, data |-> PayloadData, known |-> Len(liveDataBuffer)]
<1>5. e \in Events /\ processed' = Append(processed, e)
  <2>1. Len(liveDataBuffer) \in Nat
    <3> HIDE DEF Entries
    <3>1. QED
      BY <1>1, AtIn
  <2>2. QED
    BY <1>2, <1>3, <2>1, PayloadInData DEF Process, Events
<1> HIDE DEF e, Events
<1>6. /\ Len(processed) \in Nat /\ Len(processed') = Len(processed) + 1
      /\ \A j \in 1..Len(processed) : processed'[j] = processed[j]
      /\ processed'[Len(processed) + 1] = e
  BY <1>1, <1>5, AppendIn
<1>7. QED
  BY <1>3, <1>4, <1>6 DEF e

LEMMA TakeTaken ==
  ASSUME Types, LineInv, HeldInv, TakenInv, [Next]_vars, TakeStep
  PROVE  TakenInv'
<1> DEFINE n == Len(processed)
<1>1. /\ n \in Nat /\ Len(processed') = n + 1
      /\ \A j \in 1..n : processed'[j] = processed[j]
      /\ processed'[n + 1].pkt = rxHeader
      /\ \A j \in 1..n : processed[j].pkt \in Nat
      /\ Held /\ rxHeader \in 1..Len(sent) /\ rxHeader \in Nat
  BY TakenTypes
<1>2. /\ HeldHeader(rxHeader) /\ HeldBehind(rxHeader) /\ HeldGrid(rxHeader)
  BY <1>1 DEF HeldInv
<1>3. ~Held' /\ ReadStep(ExpectedSize(rxHeader))
      /\ UNCHANGED <<sent, off, startAt, damaged>>
  BY DEF TakeStep, ConsumeStep, Held, ReadStep, host
<1>4. ASSUME NEW j \in 1..Len(processed')
      PROVE  \/ j \in 1..n /\ processed'[j] = processed[j]
             \/ j = n + 1 /\ processed'[j].pkt = rxHeader
  BY <1>1
<1>5. TakenHeaders' /\ TakenGrid'
  <2> SUFFICES ASSUME NEW j \in 1..Len(processed')
               PROVE  /\ processed'[j].pkt \in 1..Len(sent)
                      /\ \A o \in 0..(HeaderSize - 1) :
                            HasLeft(processed'[j].pkt, o) /\ Intact(processed'[j].pkt, o)
                      /\ startAt[processed'[j].pkt] % Unit = 0
    BY <1>3 DEF TakenHeaders, TakenGrid, HeldHeader, HeldGrid, HasLeft, Intact
  <2>1. CASE j \in 1..n /\ processed'[j] = processed[j]
    BY <2>1 DEF TakenInv, TakenHeaders, TakenGrid, HeldHeader, HeldGrid
  <2>2. CASE j = n + 1 /\ processed'[j].pkt = rxHeader
    BY <1>1, <1>2, <2>2 DEF HeldHeader, HeldGrid
  <2>3. QED
    BY <1>4, <2>1, <2>2
<1>6. TakenInOrder'
  <2> SUFFICES ASSUME NEW i \in 1..Len(processed'), NEW j \in 1..Len(processed'), i < j
               PROVE  processed'[i].pkt < processed'[j].pkt
    BY DEF TakenInOrder
  <2>1. i \in 1..n /\ processed'[i] = processed[i]
    BY <1>1
  <2>2. CASE j \in 1..n /\ processed'[j] = processed[j]
    BY <2>1, <2>2 DEF TakenInv, TakenInOrder
  <2>3. CASE j = n + 1 /\ processed'[j].pkt = rxHeader
    BY <1>1, <2>1, <2>3 DEF TakenInv, HeldBehindTaken
  <2>4. QED
    BY <1>4, <2>2, <2>3
<1>7. LineBehind'
  <2> SUFFICES ASSUME NEW j \in 1..Len(processed'), NEW k \in 1..Len(line')
               PROVE  /\ line'[k].pkt >= processed'[j].pkt
                      /\ line'[k].pkt = processed'[j].pkt => line'[k].off >= HeaderSize
    BY DEF LineBehind
  <2> DEFINE m == ExpectedSize(rxHeader) + k
  <2>1. line'[k] = line[m] /\ m \in 1..Len(line)
    BY <1>3, ReadLine
  <2>2. line[m].pkt \in Nat /\ line[m].off \in Nat
    BY <2>1, LineTypes
  <2> HIDE DEF m
  <2>3. line[m].pkt >= rxHeader /\ (line[m].pkt = rxHeader => line[m].off >= HeaderSize)
    <3>1. line[m].pkt >= rxHeader
          /\ (line[m].pkt = rxHeader => line[m].off >= HeaderSize + m - 1)
      BY <1>2, <2>1 DEF HeldBehind
    <3>2. m >= 1
      BY <2>1, LineTypes
    <3>3. m \in Int
      BY <2>1
    <3>4. QED
      BY <2>2, <3>1, <3>2, <3>3, Sizes
  <2>4. CASE j \in 1..n /\ processed'[j] = processed[j]
    <3>1. processed[j].pkt < rxHeader
      BY <1>1, <2>4 DEF TakenInv, HeldBehindTaken
    <3>2. QED
      BY <1>1, <2>1, <2>2, <2>3, <2>4, <3>1
  <2>5. CASE j = n + 1 /\ processed'[j].pkt = rxHeader
    BY <2>1, <2>3, <2>5
  <2>6. QED
    BY <1>4, <2>4, <2>5
<1>8. HeldBehindTaken'
  BY <1>3 DEF HeldBehindTaken
<1>9. QED
  BY <1>5, <1>6, <1>7, <1>8 DEF TakenInv

LEMMA ArriveBehind ==
  ASSUME Types, TakenInv, ArriveStep, UNCHANGED processed
  PROVE  LineBehind'
<1>1. PICK byte \in {"sent", "zero", "junk"} : Deliver(byte)
  BY DEF ArriveStep
<1> DEFINE n == Len(line)
           b == [pkt |-> Len(sent), off |-> off, byte |-> byte]
<1>2. line' = Append(line, b) /\ Sending
  BY <1>1 DEF Deliver
<1>3. Len(sent) \in Nat /\ off \in Nat /\ n \in Nat
  BY LineTypes
<1>4. /\ Len(line') = n + 1
      /\ \A k \in 1..n : line'[k] = line[k]
      /\ line'[n + 1] = b
  <2>1. line \in Seq(Bytes(Len(sent))) /\ b \in Bytes(Len(sent))
    BY <1>2, NewByte DEF Types
  <2> HIDE DEF b, Bytes
  <2>2. QED
    BY <1>2, <2>1, AppendIn
<1> SUFFICES ASSUME NEW j \in 1..Len(processed), NEW k \in 1..Len(line')
             PROVE  /\ line'[k].pkt >= processed[j].pkt
                    /\ line'[k].pkt = processed[j].pkt => line'[k].off >= HeaderSize
  BY DEF LineBehind
<1>5. CASE k \in 1..n
  BY <1>4, <1>5 DEF TakenInv, LineBehind
<1>6. CASE k = n + 1
  <2>1. line'[k].pkt = Len(sent) /\ line'[k].off = off
    BY <1>4, <1>6
  <2>2. processed[j].pkt \in 1..Len(sent) /\ HasLeft(processed[j].pkt, HeaderSize - 1)
    BY Sizes DEF TakenInv, TakenHeaders, HeldHeader
  <2>3. QED
    BY <1>3, <2>1, <2>2, Sizes DEF HasLeft
<1>7. QED
  BY <1>3, <1>4, <1>5, <1>6

LEMMA TakenNext == Types /\ LineInv /\ HeldInv /\ TakenInv /\ [Next]_vars => TakenInv'
<1> SUFFICES ASSUME Types, LineInv, HeldInv, TakenInv, [Next]_vars
             PROVE  TakenInv'
  OBVIOUS
<1>1. CASE TakeStep
  BY <1>1, TakeTaken
<1>2. CASE processed' = processed
  <2>1. ASSUME NEW j \in 1..Len(processed)
        PROVE  /\ processed[j].pkt \in 1..Len(sent)
               /\ processed[j].pkt \in 1..Len(sent')
               /\ HeldHeader(processed[j].pkt)
    <3>1. processed[j].pkt \in 1..Len(sent) /\ HeldHeader(processed[j].pkt)
      BY DEF TakenInv, TakenHeaders
    <3>2. QED
      BY <3>1, SentGrows
  <2>2. ASSUME NEW j \in 1..Len(processed'), NEW p, p = processed'[j].pkt
        PROVE  HeldHeader(p)' /\ HeldGrid(p)'
    <3>1. p \in 1..Len(sent) /\ HeldHeader(p) /\ HeldGrid(p)
      BY <1>2, <2>1, <2>2 DEF TakenInv, TakenGrid
    <3>2. QED
      BY <3>1, HeaderKept, GridKept
  <2>3. TakenHeaders'
    BY <1>2, <2>1, <2>2 DEF TakenHeaders, HeldHeader, HasLeft, Intact
  <2>4. TakenGrid'
    BY <1>2, <2>1, <2>2 DEF TakenGrid, HeldGrid
  <2>5. TakenInOrder'
    BY <1>2 DEF TakenInv, TakenInOrder
  <2>6. LineBehind'
    <3>1. CASE UNCHANGED line
      BY <1>2, <3>1 DEF TakenInv, LineBehind
    <3>2. ASSUME NEW n, ReadStep(n) PROVE LineBehind'
      BY <1>2, <3>2, ReadLine DEF TakenInv, LineBehind
    <3>3. CASE ArriveStep
      BY <1>2, <2>1, <3>3, ArriveBehind
    <3>4. QED
      BY <3>1, <3>2, <3>3, Steps
      DEF Send, LoseByte, Quiet, DropStep, ConsumeStep, TakeStep
  <2>7. HeldBehindTaken'
    <3>1. CASE AcceptHeader /\ ReadStep(HeaderSize)
      <4> SUFFICES ASSUME Held' PROVE \A j \in 1..Len(processed) : processed[j].pkt < rxHeader'
        BY <1>2 DEF HeldBehindTaken
      <4>1. PICK h : h = rxHeader'
        OBVIOUS
      <4>2. h # 0
        BY <4>1 DEF Held
      <4>3. QED
        BY <3>1, <4>1, <4>2, HeldStarts
    <3>2. CASE UNCHANGED <<packetStatus, rxHeader>>
      BY <1>2, <3>2 DEF TakenInv, HeldBehindTaken, Held
    <3>3. CASE packetStatus' = "WAITING"
      BY <3>3 DEF HeldBehindTaken, Held
    <3>4. QED
      BY <3>1, <3>2, <3>3, Steps
      DEF Send, ArriveStep, Deliver, LoseByte, Quiet, DropStep, ConsumeStep, TakeStep
  <2>8. QED
    BY <2>3, <2>4, <2>5, <2>6, <2>7 DEF TakenInv
<1>3. QED
  BY <1>1, <1>2, Steps
  DEF Send, ArriveStep, Deliver, LoseByte, Quiet, DropStep, ConsumeStep,
      AcceptHeader, Unread, done

LEMMA PacketInvInit == Init => PacketInv
  BY LineInit, EmptySeq
  DEF Init, PacketInv, HeldInv, Held, TakenInv, TakenHeaders, TakenGrid,
      TakenInOrder, LineBehind, HeldBehindTaken

LEMMA PacketInvNext == Types /\ PacketInv /\ [Next]_vars => PacketInv'
  BY LineNext, HeldNext, TakenNext DEF PacketInv

(* Only packets on the grid of Dashboard_Update's reads are processed.     *)
THEOREM AlignedAlways == Spec => []Aligned
<1>1. Types /\ PacketInv => Aligned
  <2> SUFFICES ASSUME Types, PacketInv PROVE Aligned
    OBVIOUS
  <2>1. DOMAIN processed = 1..Len(processed)
    <3>1. processed \in Seq(Events)
      BY DEF Types
    <3> HIDE DEF Events
    <3>2. QED
      BY <3>1, AtIn
  <2>2. QED
    BY <2>1 DEF PacketInv, TakenInv, TakenGrid, HeldGrid, Aligned
<1>2. QED
  BY <1>1, TypesInit, TypesNext, PacketInvInit, PacketInvNext, PTL DEF Spec

-----------------------------------------------------------------------------
(* What processPacket is given.  The body of a packet is longer than the   *)
(* line can damage: one byte of it, at least, is on the line as it was     *)
(* sent, and the window that holds it tells whose payload it is.           *)
ShortGaps == \A p \in Packets : p.size > 0 => MaxFaults < p.size + TailSize

LEMMA SomeIntact ==
  ASSUME DamagedFew, NEW p \in Nat, NEW size \in Nat, MaxFaults < size
  PROVE  \E o \in HeaderSize..(HeaderSize + size - 1) : Intact(p, o)
<1> SUFFICES ASSUME \A o \in HeaderSize..(HeaderSize + size - 1) : ~Intact(p, o)
             PROVE  FALSE
  OBVIOUS
<1> DEFINE I == HeaderSize..(HeaderSize + size - 1)
           f == [o \in I |-> <<p, o>>]
           B == {<<p, o>> : o \in I}
<1>1. IsFiniteSet(I) /\ Cardinality(I) = size
  <2>1. HeaderSize \in Int /\ HeaderSize + size - 1 \in Int
        /\ HeaderSize <= HeaderSize + size
    BY Sizes
  <2>2. /\ IsFiniteSet(I)
        /\ Cardinality(I) = IF HeaderSize <= HeaderSize + size - 1
                            THEN HeaderSize + size - 1 - HeaderSize + 1 ELSE 0
    BY <2>1, FS_Interval
  <2>3. (IF HeaderSize <= HeaderSize + size - 1
         THEN HeaderSize + size - 1 - HeaderSize + 1 ELSE 0) = size
    BY Sizes
  <2>4. QED
    BY <2>2, <2>3
<1>2. f \in Bijection(I, B)
  <2>1. f \in [I -> B]
    OBVIOUS
  <2>2. \A a, b \in I : f[a] = f[b] => a = b
    OBVIOUS
  <2>3. \A t \in B : \E a \in I : f[a] = t
    OBVIOUS
  <2>4. f \in Surjection(I, B) /\ f \in Injection(I, B)
    BY <2>1, <2>2, <2>3 DEF Surjection, Injection, IsInjective
  <2>5. QED
    BY <2>4 DEF Bijection
<1>3. IsFiniteSet(B) /\ Cardinality(B) = size
  <2>1. ExistsBijection(I, B)
    BY <1>2 DEF ExistsBijection
  <2>2. QED
    BY <1>1, <2>1, FS_Bijection
<1>4. B \subseteq damaged
  BY DEF Intact
<1>5. Cardinality(B) <= Cardinality(damaged) /\ Cardinality(damaged) <= MaxFaults
      /\ Cardinality(damaged) \in Nat
  BY <1>4, FS_Subset, FS_CardinalityType DEF DamagedFew
<1>6. QED
  BY <1>3, <1>5, Sizes

LEMMA PayloadAsSent ==
  ASSUME ShortGaps, Types, LineInv, HeldInv, TakeStep, sent[rxHeader].size > 0
  PROVE  PayloadData = sent[rxHeader].data
<1> DEFINE p == rxHeader
           E == ExpectedSize(rxHeader)
           w == PayloadWindow
<1>1. /\ Held /\ p \in 1..Len(sent) /\ p \in Nat
      /\ HeldBehind(p) /\ HeldBody(p)
  BY TakenTypes DEF HeldInv
<1>2. /\ sent[p] \in Packets /\ sent[p].size \in Nat
      /\ PacketSize(sent[p]) = HeaderSize + sent[p].size + TailSize
      /\ E = sent[p].size + TailSize /\ E \in Nat
  <2>1. sent \in Seq(Packets) /\ p # 0
    BY DEF Types, TakeStep
  <2>2. QED
    BY <1>1, <2>1, PacketOf, ExpectedOf
<1>3. /\ Len(line) \in Nat /\ Len(sent) \in Nat /\ off \in Nat
      /\ Len(line) >= E /\ PayloadOk
  <2>1. HasPayload /\ PayloadOk
    BY DEF TakeStep, ConsumeStep
  <2>2. QED
    BY <2>1, LineTypes DEF HasPayload
<1>4. /\ DOMAIN w = 1..E /\ Len(w) = E
      /\ \A i \in 1..E : w[i] = line[i]
  <2>1. line \in Seq(Bytes(Len(sent)))
    BY DEF Types
  <2> HIDE DEF Bytes
  <2>2. QED
    BY <1>2, <1>3, <2>1, FirstOf DEF PayloadWindow
<1> HIDE DEF w, E
<1>5. PICK o \in HeaderSize..(HeaderSize + E - 1) : Intact(p, o)
  <2>1. MaxFaults < E
    BY <1>2 DEF ShortGaps
  <2>2. QED
    BY <1>1, <1>2, <2>1, SomeIntact DEF LineInv
<1>6. o \in Nat /\ HeaderSize <= o /\ o < PacketSize(sent[p]) /\ o < HeaderSize + E
  BY <1>2, <1>5, Sizes
<1>7. HasLeft(p, o)
  <2>1. CASE p = Len(sent)
    <3>1. off >= HeaderSize + Len(line)
      BY <1>1, <2>1 DEF HeldBehind
    <3>2. QED
      <4>1. HeaderSize \in Nat /\ E \in Nat /\ Len(line) >= E /\ o < HeaderSize + E
        BY <1>2, <1>3, <1>6, Sizes
      <4>2. o < off
        BY <1>3, <1>6, <3>1, <4>1
      <4>3. QED
        BY <2>1, <4>2 DEF HasLeft
  <2>2. CASE p # Len(sent)
    BY <1>1, <1>3, <2>2 DEF HasLeft
  <2>3. QED
    BY <2>1, <2>2
<1>8. PICK j \in 1..Len(line) : line[j] = [pkt |-> p, off |-> o, byte |-> "sent"]
  BY <1>1, <1>5, <1>6, <1>7 DEF HeldBody, InLine
<1>9. line[j].pkt = p /\ line[j].off = o /\ line[j].byte = "sent"
  BY <1>8
<1>10. j \in 1..E /\ w[j] = line[j]
  <2>1. o >= HeaderSize + j - 1
    BY <1>1, <1>9 DEF HeldBehind
  <2>2. j \in 1..E
    <3>1. HeaderSize \in Nat /\ E \in Nat /\ o < HeaderSize + E
      BY <1>2, <1>6, Sizes
    <3>2. j \in Nat /\ j >= 1
      BY <1>3
    <3>3. QED
      BY <1>6, <2>1, <3>1, <3>2
  <2>3. QED
    BY <1>4, <2>2
<1>11. CASE AllZero(w)
  <2>1. IsZero(w[j])
    BY <1>4, <1>10, <1>11 DEF AllZero
  <2>2. ZeroByte(sent[p], o)
    BY <1>9, <1>10, <2>1 DEF IsZero
  <2>3. ~(o \in (IF sent[p].size = 0 THEN 1 ELSE 2)..(HeaderSize - 2))
    BY <1>6, Sizes
  <2>4. sent[p].data = ZeroData
    BY <1>2, <2>2, <2>3 DEF ZeroByte, ZeroTail
  <2>5. PayloadData = ZeroData
    BY <1>11 DEF PayloadData, w
  <2>6. QED
    BY <2>4, <2>5
<1>12. CASE ~AllZero(w) /\ Bodies(w) # {}
  <2>1. PICK q \in Bodies(w) : q = CHOOSE b \in Bodies(w) : TRUE
    BY <1>12
  <2>2. FromPacket(w, q, HeaderSize)
    BY <2>1 DEF Bodies
  <2>3. w[j] = [pkt |-> q, off |-> HeaderSize + j - 1, byte |-> "sent"]
    BY <1>4, <1>10, <2>2 DEF FromPacket
  <2>4. q = p
    BY <1>9, <1>10, <2>3
  <2>5. QED
    BY <1>12, <2>1, <2>4 DEF PayloadData, w
<1>13. QED
  BY <1>3, <1>11, <1>12 DEF PayloadOk, w

TakenData ==
  \A j \in 1..Len(processed) :
    sent[processed[j].pkt].size > 0
      => processed[j].data = sent[processed[j].pkt].data

LEMMA TakenDataNext ==
  ASSUME ShortGaps, Types, PacketInv, TakenData, [Next]_vars
  PROVE  TakenData'
<1>1. CASE TakeStep
  <2> DEFINE n == Len(processed)
  <2>1. /\ n \in Nat /\ Len(processed') = n + 1
        /\ \A j \in 1..n : processed'[j] = processed[j]
        /\ processed'[n + 1] =
             [pkt |-> rxHeader, data |-> PayloadData, known |-> Len(liveDataBuffer)]
    BY <1>1, TakenTypes
  <2>2. sent' = sent
    BY <1>1 DEF TakeStep, ConsumeStep, ReadStep, host
  <2> SUFFICES ASSUME NEW j \in 1..Len(processed'), sent[processed'[j].pkt].size > 0
               PROVE  processed'[j].data = sent[processed'[j].pkt].data
    BY <2>2 DEF TakenData
  <2>3. CASE j \in 1..n
    BY <2>1, <2>3 DEF TakenData
  <2>4. CASE j = n + 1
    <3>1. processed'[j].pkt = rxHeader /\ processed'[j].data = PayloadData
      BY <2>1, <2>4
    <3>2. QED
      BY <1>1, <3>1, PayloadAsSent DEF PacketInv
  <2>5. QED
    BY <2>1, <2>3, <2>4
<1>2. ASSUME processed' = processed,
             \A p \in 1..Len(sent) : sent'[p] = sent[p]
      PROVE  TakenData'
  BY <1>2 DEF TakenData, PacketInv, TakenInv, TakenHeaders
<1>3. CASE \E q \in Packets : Send(q)
  <2>1. PICK q \in Packets : sent' = Append(sent, q) /\ processed' = processed
    BY <1>3 DEF Send, done
  <2>2. sent \in Seq(Packets)
    BY DEF Types
  <2>3. \A p \in 1..Len(sent) : sent'[p] = sent[p]
    BY <2>1, <2>2, AppendIn
  <2>4. QED
    BY <1>2, <2>1, <2>3
<1>4. CASE UNCHANGED <<sent, processed>>
  BY <1>2, <1>4
<1>5. QED
  BY <1>1, <1>3, <1>4, Steps
  DEF ArriveStep, Deliver, LoseByte, Quiet, DropStep, ConsumeStep, ReadStep,
      AcceptHeader, Unread, done, host

(* A packet takes effect only as the host sent it, in order and once, if a *)
(* run of damage is shorter than a payload with its tail.                  *)
THEOREM OnlyAsSentAlways == ShortGaps => (Spec => []OnlyAsSent)
<1>1. Init => TakenData
  BY EmptySeq DEF Init, TakenData
<1>2. ShortGaps /\ Types /\ PacketInv /\ TakenData /\ [Next]_vars => TakenData'
  BY TakenDataNext
<1>3. Types /\ PacketInv /\ TakenData => OnlyAsSent
  <2> SUFFICES ASSUME Types, PacketInv, TakenData PROVE OnlyAsSent
    OBVIOUS
  <2>1. DOMAIN processed = 1..Len(processed)
    <3>1. processed \in Seq(Events)
      BY DEF Types
    <3> HIDE DEF Events
    <3>2. QED
      BY <3>1, AtIn
  <2>2. QED
    BY <2>1 DEF PacketInv, TakenInv, TakenHeaders, TakenInOrder, HeldHeader,
       Intact, TakenData, OnlyAsSent
<1>4. ShortGaps => []ShortGaps
  <2>1. ShortGaps <=> ShortGaps'
    BY DEF ShortGaps
  <2>2. QED
    BY <2>1, PTL
<1>5. QED
  BY <1>1, <1>2, <1>3, <1>4, TypesInit, TypesNext, PacketInvInit, PacketInvNext, PTL
  DEF Spec

-----------------------------------------------------------------------------
(* What a response shows: memory holds what the last modify wrote.         *)
Mods(id, type, i, n) ==
  {k \in 1..n :
     /\ sent[processed[k].pkt].packetType = "modify"
     /\ processed[k].known >= i
     /\ processed[k].data.packetID = id
     /\ processed[k].data.valueType = type
     /\ type \in NumericTypes}

Current(id, type, i, n, v) ==
  \/ Mods(id, type, i, n) = {} /\ v = 0
  \/ \E k \in Mods(id, type, i, n) :
       (\A m \in Mods(id, type, i, n) : m <= k) /\ v = processed[k].data.value

Replies == [after : Nat, live : Seq(Entries)]

RepliesTyped ==
  /\ replies \in Seq(Replies)
  /\ \A r \in 1..Len(replies) : replies[r].after <= Len(processed)
KnownVars == \A k \in 1..Len(processed) : processed[k].known <= Len(liveDataBuffer)
StringsUntouched ==
  \A i \in 1..Len(liveDataBuffer) :
    liveDataBuffer[i].valueType \notin NumericTypes => liveDataBuffer[i].value = 0
MemoryCurrent ==
  \A i \in 1..Len(liveDataBuffer) :
    First(liveDataBuffer, i) =>
      Current(liveDataBuffer[i].packetID, liveDataBuffer[i].valueType, i,
              Len(processed), memory[i])
ShownCurrent ==
  \A r \in 1..Len(replies) : \A i \in 1..Len(replies[r].live) :
    First(replies[r].live, i) =>
      Current(replies[r].live[i].packetID, replies[r].live[i].valueType, i,
              replies[r].after, replies[r].live[i].value)

CurrentInv ==
  /\ RepliesTyped /\ KnownVars /\ StringsUntouched
  /\ MemoryCurrent /\ ShownCurrent

LEMMA CurrentTypes ==
  ASSUME Types
  PROVE  /\ Len(processed) \in Nat /\ Len(liveDataBuffer) \in Nat
         /\ DOMAIN liveDataBuffer = 1..Len(liveDataBuffer)
         /\ DOMAIN memory = 1..Len(liveDataBuffer)
         /\ DOMAIN processed = 1..Len(processed)
         /\ \A i \in 1..Len(liveDataBuffer) : liveDataBuffer[i] \in Entries
         /\ \A k \in 1..Len(processed) : processed[k].known \in Nat
<1> HIDE DEF Entries, Contents, Events
<1>1. /\ liveDataBuffer \in Seq(Entries) /\ memory \in Seq(Contents)
      /\ processed \in Seq(Events) /\ Len(memory) = Len(liveDataBuffer)
  BY DEF Types
<1>2. /\ Len(processed) \in Nat /\ Len(liveDataBuffer) \in Nat
      /\ DOMAIN liveDataBuffer = 1..Len(liveDataBuffer)
      /\ DOMAIN memory = 1..Len(liveDataBuffer)
      /\ DOMAIN processed = 1..Len(processed)
      /\ \A i \in 1..Len(liveDataBuffer) : liveDataBuffer[i] \in Entries
      /\ \A k \in 1..Len(processed) : processed[k] \in Events
  BY <1>1, AtIn
<1>3. ASSUME NEW k \in 1..Len(processed) PROVE processed[k].known \in Nat
  <2>1. processed[k] \in Events
    BY <1>2
  <2>2. QED
    BY <2>1 DEF Events
<1>4. QED
  BY <1>2, <1>3

(* What was processed stays what it was.                                   *)
LEMMA EventsKept ==
  ASSUME Types, TakenInv, [Next]_vars, NEW k \in 1..Len(processed)
  PROVE  /\ k \in 1..Len(processed') /\ processed'[k] = processed[k]
         /\ sent'[processed[k].pkt] = sent[processed[k].pkt]
<1>1. processed[k].pkt \in 1..Len(sent) /\ Len(processed) \in Nat
  BY CurrentTypes DEF TakenInv, TakenHeaders
<1>2. CASE \E q \in Packets : Send(q)
  <2>1. PICK q \in Packets : sent' = Append(sent, q) /\ processed' = processed
    BY <1>2 DEF Send, done
  <2>2. sent \in Seq(Packets)
    BY DEF Types
  <2>3. sent'[processed[k].pkt] = sent[processed[k].pkt]
    BY <1>1, <2>1, <2>2, AppendIn
  <2>4. QED
    BY <2>1, <2>3
<1>3. CASE TakeStep
  <2>1. sent' = sent
    BY <1>3 DEF TakeStep, ConsumeStep, ReadStep, host
  <2>2. QED
    BY <1>1, <1>3, <2>1, TakenTypes
<1>4. CASE UNCHANGED <<sent, processed>>
  BY <1>4
<1>5. QED
  BY <1>2, <1>3, <1>4, Steps
  DEF ArriveStep, Deliver, LoseByte, Quiet, DropStep, ConsumeStep, ReadStep,
      AcceptHeader, Unread, done, host

LEMMA CurrentKept ==
  ASSUME Types, TakenInv, [Next]_vars,
         NEW id, NEW type, NEW i, NEW n \in Nat, n <= Len(processed), NEW v,
         Current(id, type, i, n, v)
  PROVE  Current(id, type, i, n, v)'
<1>1. ASSUME NEW k \in 1..n
      PROVE  processed'[k] = processed[k]
             /\ sent'[processed[k].pkt] = sent[processed[k].pkt]
  <2>1. k \in 1..Len(processed)
    BY CurrentTypes
  <2>2. QED
    BY <2>1, EventsKept
<1>2. Mods(id, type, i, n)' = Mods(id, type, i, n)
  BY <1>1 DEF Mods
<1>3. \A k \in Mods(id, type, i, n) : k \in 1..n
  BY DEF Mods
<1> DEFINE M == Mods(id, type, i, n)
<1>4. \/ M = {} /\ v = 0
      \/ \E k \in M : (\A m \in M : m <= k) /\ v = processed'[k].data.value
  BY <1>1, <1>3 DEF Current
<1> HIDE DEF M
<1>5. Mods(id, type, i, n)' = M
  BY <1>2 DEF M
<1>6. QED
  BY <1>4, <1>5 DEF Current

(* One more packet, that is none of the variable's.                        *)
LEMMA CurrentPassed ==
  ASSUME Types, TakenInv, [Next]_vars, Len(processed') = Len(processed) + 1,
         NEW id, NEW type, NEW i, NEW v,
         Current(id, type, i, Len(processed), v),
         LET e == processed'[Len(processed')] IN
         ~ /\ sent'[e.pkt].packetType = "modify" /\ e.known >= i
           /\ e.data.packetID = id /\ e.data.valueType = type
           /\ type \in NumericTypes
  PROVE  Current(id, type, i, Len(processed), v)'
<1> DEFINE n == Len(processed)
<1>1. n \in Nat
  BY CurrentTypes
<1>2. PICK c : c = n
  OBVIOUS
<1>3. Current(id, type, i, c, v)'
  BY <1>1, <1>2, CurrentKept
<1>4. Mods(id, type, i, c + 1)' = Mods(id, type, i, c)'
  <2>1. \A k : k \in 1..(c + 1) <=> k \in 1..c \/ k = c + 1
    BY <1>1, <1>2
  <2>2. Len(processed') = c + 1
    BY <1>2
  <2>3. c + 1 \notin Mods(id, type, i, c + 1)'
    BY <2>2 DEF Mods
  <2>4. QED
    BY <2>1, <2>3 DEF Mods
<1>5. Current(id, type, i, c + 1, v)'
  BY <1>3, <1>4 DEF Current
<1>6. QED
  BY <1>2, <1>5 DEF Current, Mods

LEMMA ShownKept ==
  ASSUME Types, TakenInv, CurrentInv, [Next]_vars, UNCHANGED replies
  PROVE  RepliesTyped' /\ ShownCurrent'
<1>1. Len(processed) \in Nat /\ Len(processed') \in Nat /\ Len(processed') >= Len(processed)
  <2>1. Types'
    BY TypesNext
  <2>2. Len(processed') \in Nat
    <3>1. processed' \in Seq(Events)
      BY <2>1 DEF Types
    <3> HIDE DEF Events
    <3>2. QED
      BY <3>1, AtIn
  <2>3. CASE Len(processed) = 0
    BY <2>2, <2>3
  <2>4. CASE Len(processed) # 0
    <3>1. Len(processed) \in 1..Len(processed)
      BY <2>4, CurrentTypes
    <3>2. Len(processed) \in 1..Len(processed')
      BY <3>1, EventsKept
    <3>3. QED
      BY <2>2, <3>2, CurrentTypes
  <2>5. QED
    BY <2>3, <2>4, CurrentTypes
<1>2. replies \in Seq(Replies)
  BY DEF CurrentInv, RepliesTyped
<1>3. ASSUME NEW r \in 1..Len(replies)
      PROVE  replies[r].after \in Nat /\ replies[r].after <= Len(processed)
  <2>1. replies[r] \in Replies
    <3> HIDE DEF Replies
    <3>1. QED
      BY <1>2, AtIn
  <2>2. QED
    BY <2>1 DEF Replies, CurrentInv, RepliesTyped
<1>4. RepliesTyped'
  BY <1>1, <1>2, <1>3 DEF RepliesTyped
<1>5. ShownCurrent'
  <2> SUFFICES ASSUME NEW r \in 1..Len(replies), NEW i \in 1..Len(replies[r].live),
                      First(replies[r].live, i)
               PROVE  Current(replies[r].live[i].packetID,
                              replies[r].live[i].valueType, i,
                              replies[r].after, replies[r].live[i].value)'
    BY DEF ShownCurrent, First
  <2>1. PICK s : s = replies[r]
    OBVIOUS
  <2>2. Current(s.live[i].packetID, s.live[i].valueType, i, s.after, s.live[i].value)
    BY <2>1 DEF CurrentInv, ShownCurrent
  <2>3. s.after \in Nat /\ s.after <= Len(processed)
    BY <1>3, <2>1
  <2>4. Current(s.live[i].packetID, s.live[i].valueType, i, s.after, s.live[i].value)'
    BY <2>2, <2>3, CurrentKept
  <2>5. replies'[r] = s
    BY <2>1
  <2>6. QED
    BY <2>4, <2>5 DEF Current, Mods
<1>6. QED
  BY <1>4, <1>5

LEMMA DataSteps ==
  ASSUME Types, [Next]_vars
  PROVE  \/ \E r \in Registrations : Register(r)
         \/ ProcessRequest \/ ProcessModify \/ UNCHANGED <<vars_, done>>
  BY DEF Next, vars, Send, ArriveByte, CorruptByte, LoseByte, Deliver, Update,
      NoHeader, RejectHeader, TooLarge, AcceptHeader, NoPayload, Unread, done,
      RejectPayload, ProcessUnknown

LEMMA CurrentRegister ==
  ASSUME Types, TakenInv, CurrentInv, [Next]_vars,
         NEW r \in Registrations, Register(r)
  PROVE  KnownVars' /\ StringsUntouched' /\ MemoryCurrent'
<1> DEFINE n == Len(liveDataBuffer)
           e == [packetID |-> r.packetID, valueType |-> r.valueType, value |-> 0]
<1>1. /\ liveDataBuffer' = Append(liveDataBuffer, e) /\ memory' = Append(memory, 0)
      /\ processed' = processed
  BY DEF Register, done
<1>2. n \in Nat /\ Len(processed) \in Nat
  BY CurrentTypes
<1>3. /\ Len(liveDataBuffer') = n + 1
      /\ \A i \in 1..n : liveDataBuffer'[i] = liveDataBuffer[i] /\ memory'[i] = memory[i]
      /\ liveDataBuffer'[n + 1] = e /\ memory'[n + 1] = 0
  <2>1. liveDataBuffer \in Seq(Entries) /\ memory \in Seq(Contents) /\ Len(memory) = n
    BY DEF Types
  <2>2. 0 \in Contents
    <3>1. ZeroData \in Data /\ ZeroData.value = 0
      BY DEF Data, ZeroData
    <3> HIDE DEF ZeroData, Data
    <3>2. ZeroData.value \in Contents
      BY <3>1 DEF Contents
    <3>3. QED
      BY <3>1, <3>2
  <2>3. e \in Entries
    BY <2>2 DEF Entries
  <2> HIDE DEF e, Entries, Contents
  <2>4. /\ Len(liveDataBuffer') = n + 1 /\ liveDataBuffer'[n + 1] = e
        /\ \A i \in 1..n : liveDataBuffer'[i] = liveDataBuffer[i]
    BY <1>1, <2>1, <2>3, AppendIn
  <2>5. memory'[n + 1] = 0 /\ \A i \in 1..n : memory'[i] = memory[i]
    BY <1>1, <2>1, <2>2, AppendIn
  <2>6. QED
    BY <2>4, <2>5
<1>4. e.value = 0
  OBVIOUS
<1> HIDE DEF e
<1>5. KnownVars'
  <2> SUFFICES ASSUME NEW k \in 1..Len(processed)
               PROVE  processed[k].known <= n + 1
    BY <1>1, <1>3 DEF KnownVars
  <2>1. processed[k].known <= n /\ processed[k].known \in Nat
    BY CurrentTypes DEF CurrentInv, KnownVars
  <2>2. QED
    BY <1>2, <2>1
<1>6. ASSUME NEW i \in 1..Len(liveDataBuffer')
      PROVE  i \in 1..n \/ i = n + 1
  BY <1>2, <1>3
<1>7. StringsUntouched'
  BY <1>3, <1>4, <1>6 DEF CurrentInv, StringsUntouched
<1>8. MemoryCurrent'
  <2> SUFFICES ASSUME NEW i \in 1..Len(liveDataBuffer'), First(liveDataBuffer', i)
               PROVE  Current(liveDataBuffer[i].packetID,
                              liveDataBuffer[i].valueType, i,
                              Len(processed), memory[i])'
    BY DEF MemoryCurrent
  <2>1. PICK id, type, v, c : /\ id = liveDataBuffer'[i].packetID
                              /\ type = liveDataBuffer'[i].valueType
                              /\ v = memory'[i] /\ c = Len(processed)
    OBVIOUS
  <2>2. SUFFICES Current(id, type, i, c, v)'
    BY <1>1, <2>1, <2>2 DEF Current, Mods
  <2>3. SUFFICES Current(id, type, i, c, v)
    BY <1>2, <2>1, <2>3, CurrentKept
  <2>4. CASE i \in 1..n
    <3>1. liveDataBuffer'[i] = liveDataBuffer[i] /\ memory'[i] = memory[i]
      BY <1>3, <2>4
    <3>2. First(liveDataBuffer, i)
      <4>1. \A j \in 1..(i - 1) : j \in 1..n
        BY <1>2, <2>4
      <4>2. QED
        BY <1>3, <2>4, <4>1 DEF First
    <3>3. QED
      BY <2>1, <2>4, <3>1, <3>2 DEF CurrentInv, MemoryCurrent
  <2>5. CASE i = n + 1
    <3>1. ASSUME NEW k \in 1..c PROVE ~(processed[k].known >= i)
      <4>1. processed[k].known <= n /\ processed[k].known \in Nat
        BY <2>1, CurrentTypes DEF CurrentInv, KnownVars
      <4>2. QED
        BY <1>2, <2>5, <4>1
    <3>2. Mods(id, type, i, c) = {}
      BY <3>1 DEF Mods
    <3>3. QED
      BY <1>3, <2>1, <2>5, <3>2 DEF Current
  <2>6. QED
    BY <1>6, <2>4, <2>5
<1>9. QED
  BY <1>5, <1>7, <1>8

LEMMA EventAdded ==
  ASSUME Types, ProcessRequest \/ ProcessModify
  PROVE  /\ Len(processed) \in Nat /\ Len(processed') = Len(processed) + 1
         /\ \A j \in 1..Len(processed) : processed'[j] = processed[j]
         /\ processed'[Len(processed')] =
              [pkt |-> rxHeader, data |-> PayloadData, known |-> Len(liveDataBuffer)]
         /\ sent' = sent
<1>1. TakeStep
  BY ConsumeSteps DEF ProcessRequest, ProcessModify, Accepted, TakeStep
<1>2. sent' = sent
  BY <1>1 DEF TakeStep, ConsumeStep, ReadStep, host
<1>3. QED
  BY <1>1, <1>2, TakenTypes

LEMMA KnownKept ==
  ASSUME Types, CurrentInv, ProcessRequest \/ ProcessModify,
         Len(liveDataBuffer') = Len(liveDataBuffer)
  PROVE  KnownVars'
<1> SUFFICES ASSUME NEW k \in 1..Len(processed')
             PROVE  processed'[k].known <= Len(liveDataBuffer)
  BY DEF KnownVars
<1>1. CASE k \in 1..Len(processed)
  BY <1>1, EventAdded DEF CurrentInv, KnownVars
<1>2. CASE k = Len(processed')
  <2>1. processed'[k].known = Len(liveDataBuffer) /\ Len(liveDataBuffer) \in Nat
    BY <1>2, EventAdded, CurrentTypes
  <2>2. QED
    BY <2>1
<1>3. QED
  BY <1>1, <1>2, EventAdded

(* A request: the snapshot shows what memory holds.                        *)
LEMMA SnapshotOf ==
  ASSUME Types
  PROVE  /\ Snapshot \in Seq(Entries) /\ Len(Snapshot) = Len(liveDataBuffer)
         /\ \A i \in 1..Len(liveDataBuffer) :
              /\ Snapshot[i].packetID = liveDataBuffer[i].packetID
              /\ Snapshot[i].valueType = liveDataBuffer[i].valueType
              /\ Snapshot[i].value = SnapshotValue(i)
<1>1. /\ DOMAIN liveDataBuffer = 1..Len(liveDataBuffer)
      /\ Len(liveDataBuffer) \in Nat
      /\ \A i \in 1..Len(liveDataBuffer) : liveDataBuffer[i] \in Entries
  BY CurrentTypes
<1>2. \A i \in 1..Len(liveDataBuffer) : memory[i] \in Contents
  <2>1. memory \in Seq(Contents) /\ Len(memory) = Len(liveDataBuffer)
    BY DEF Types
  <2> HIDE DEF Contents
  <2>2. QED
    BY <2>1, AtIn
<1>3. ASSUME NEW i \in 1..Len(liveDataBuffer)
      PROVE  /\ Snapshot[i] = [liveDataBuffer[i] EXCEPT !.value = SnapshotValue(i)]
             /\ Snapshot[i] \in Entries
             /\ Snapshot[i].packetID = liveDataBuffer[i].packetID
             /\ Snapshot[i].valueType = liveDataBuffer[i].valueType
             /\ Snapshot[i].value = SnapshotValue(i)
  <2>1. Snapshot[i] = [liveDataBuffer[i] EXCEPT !.value = SnapshotValue(i)]
    BY <1>1 DEF Snapshot
  <2>2. SnapshotValue(i) \in Contents
    BY <1>1, <1>2 DEF SnapshotValue, Entries
  <2>3. QED
    BY <1>1, <2>1, <2>2 DEF Entries
<1>4. Snapshot \in [1..Len(liveDataBuffer) -> Entries]
  <2>1. Snapshot = [i \in 1..Len(liveDataBuffer) |-> Snapshot[i]]
    BY <1>1 DEF Snapshot
  <2> HIDE DEF Entries
  <2>2. QED
    BY <1>3, <2>1
<1>5. Snapshot \in Seq(Entries) /\ Len(Snapshot) = Len(liveDataBuffer)
  <2> HIDE DEF Entries
  <2>1. QED
    BY <1>1, <1>4, FunctionIsSeq
<1>6. QED
  BY <1>3, <1>5

LEMMA CurrentRequest ==
  ASSUME Types, TakenInv, CurrentInv, [Next]_vars, ProcessRequest
  PROVE  CurrentInv'
<1> DEFINE n == Len(processed)
           N == Len(liveDataBuffer)
<1>1. /\ liveDataBuffer' = Snapshot /\ memory' = memory
      /\ sent[rxHeader].packetType = "request"
      /\ \/ replies' = Append(replies, [after |-> n, live |-> Snapshot])
         \/ replies' = replies
  BY DEF ProcessRequest, Accepted
<1>2. n \in Nat /\ N \in Nat
  BY CurrentTypes
<1>3. /\ Snapshot \in Seq(Entries) /\ Len(Snapshot) = N
      /\ \A i \in 1..N :
              /\ Snapshot[i].packetID = liveDataBuffer[i].packetID
              /\ Snapshot[i].valueType = liveDataBuffer[i].valueType
              /\ Snapshot[i].value = SnapshotValue(i)
  BY SnapshotOf
<1>4. /\ Len(processed') = n + 1 /\ sent' = sent
      /\ processed'[n + 1].pkt = rxHeader
  BY EventAdded
<1>5. KnownVars'
  BY <1>1, <1>3, KnownKept
<1>6. StringsUntouched'
  BY <1>1, <1>3 DEF CurrentInv, StringsUntouched, SnapshotValue
<1>7. ASSUME NEW i \in 1..N PROVE First(Snapshot, i) <=> First(liveDataBuffer, i)
  <2>1. \A j \in 1..(i - 1) : j \in 1..N
    BY <1>2
  <2>2. QED
    BY <1>3, <2>1 DEF First
<1>8. MemoryCurrent'
  <2> SUFFICES ASSUME NEW i \in 1..N, First(Snapshot, i)
               PROVE  Current(liveDataBuffer[i].packetID,
                              liveDataBuffer[i].valueType, i,
                              Len(processed), memory[i])'
    BY <1>1, <1>3 DEF MemoryCurrent
  <2>1. PICK id, type, v : /\ id = liveDataBuffer[i].packetID
                           /\ type = liveDataBuffer[i].valueType
                           /\ v = memory[i]
    OBVIOUS
  <2>2. Current(id, type, i, n, v)
    BY <1>7, <2>1 DEF CurrentInv, MemoryCurrent
  <2>3. Current(id, type, i, Len(processed), v)'
    BY <1>1, <1>4, <2>2, CurrentPassed
  <2>4. id = liveDataBuffer'[i].packetID /\ type = liveDataBuffer'[i].valueType
        /\ v = memory'[i]
    BY <1>1, <1>3, <2>1
  <2>5. QED
    BY <2>3, <2>4 DEF Current, Mods
<1>9. CASE replies' = replies
  BY <1>5, <1>6, <1>8, <1>9, ShownKept DEF CurrentInv
<1>10. CASE replies' = Append(replies, [after |-> n, live |-> Snapshot])
  <2> DEFINE R == Len(replies)
             a == [after |-> n, live |-> Snapshot]
  <2>1. a \in Replies /\ replies \in Seq(Replies)
    <3> HIDE DEF Entries
    <3>1. QED
      BY <1>2, <1>3 DEF Replies, CurrentInv, RepliesTyped
  <2>2. a.after = n /\ a.live = Snapshot
    OBVIOUS
  <2> HIDE DEF a, Replies
  <2>3. /\ replies' \in Seq(Replies) /\ R \in Nat /\ Len(replies') = R + 1
        /\ \A r \in 1..R : replies'[r] = replies[r]
        /\ replies'[R + 1] = a
    BY <1>10, <2>1, AppendIn DEF a
  <2>4. \A r \in 1..R : replies[r].after \in Nat /\ replies[r].after <= n
    <3>1. \A r \in 1..R : replies[r] \in Replies
      BY <2>1, AtIn
    <3>2. QED
      BY <3>1 DEF Replies, CurrentInv, RepliesTyped
  <2>5. \A r \in 1..Len(replies') : r \in 1..R \/ r = R + 1
    BY <2>3
  <2>6. RepliesTyped'
    <3>1. ASSUME NEW r \in 1..Len(replies') PROVE replies'[r].after <= n + 1
      <4>1. CASE r \in 1..R
        BY <1>2, <2>3, <2>4, <4>1
      <4>2. CASE r = R + 1
        BY <1>2, <2>2, <2>3, <4>2
      <4>3. QED
        BY <2>5, <4>1, <4>2
    <3>2. QED
      BY <1>4, <2>3, <3>1 DEF RepliesTyped, Replies
  <2>7. ShownCurrent'
    <3> SUFFICES ASSUME NEW r \in 1..Len(replies'),
                        NEW i \in 1..Len(replies'[r].live),
                        First(replies'[r].live, i)
                 PROVE  Current(replies[r].live[i].packetID,
                                replies[r].live[i].valueType, i,
                                replies[r].after, replies[r].live[i].value)'
      BY DEF ShownCurrent, First
    <3>1. PICK s, id, type, m, v :
             /\ s = replies'[r]
             /\ id = s.live[i].packetID /\ type = s.live[i].valueType
             /\ m = s.after /\ v = s.live[i].value
      OBVIOUS
    <3>2. SUFFICES Current(id, type, i, m, v)'
      BY <3>1, <3>2 DEF Current, Mods
    <3>3. SUFFICES m \in Nat /\ m <= n /\ Current(id, type, i, m, v)
      BY <3>3, CurrentKept
    <3>4. CASE r \in 1..R
      BY <2>3, <2>4, <3>1, <3>4 DEF CurrentInv, ShownCurrent
    <3>5. CASE r = R + 1
      <4>1. s = a /\ i \in 1..N /\ First(liveDataBuffer, i)
        BY <1>3, <1>7, <2>2, <2>3, <3>1, <3>5
      <4>2. /\ id = liveDataBuffer[i].packetID /\ type = liveDataBuffer[i].valueType
            /\ m = n /\ v = SnapshotValue(i)
        BY <1>3, <2>2, <3>1, <4>1
      <4>3. Current(id, type, i, n, memory[i])
        BY <4>1, <4>2 DEF CurrentInv, MemoryCurrent
      <4>4. CASE type \in NumericTypes
        BY <1>2, <4>2, <4>3, <4>4 DEF SnapshotValue
      <4>5. CASE type \notin NumericTypes
        <5>1. v = 0
          BY <4>1, <4>2, <4>5 DEF SnapshotValue, CurrentInv, StringsUntouched
        <5>2. Mods(id, type, i, n) = {}
          BY <4>5 DEF Mods
        <5>3. QED
          BY <1>2, <4>2, <5>1, <5>2 DEF Current
      <4>6. QED
        BY <4>4, <4>5
    <3>6. QED
      BY <2>5, <3>4, <3>5
  <2>8. QED
    BY <1>5, <1>6, <1>8, <2>6, <2>7 DEF CurrentInv
<1>11. QED
  BY <1>1, <1>9, <1>10

(* A modify: the first variable of its id is written if its type is the    *)
(* packet's, and then the packet is its last modify.                       *)
LEMMA CurrentModify ==
  ASSUME Types, TakenInv, CurrentInv, [Next]_vars, ProcessModify
  PROVE  CurrentInv'
<1> DEFINE n == Len(processed)
           N == Len(liveDataBuffer)
           d == PayloadData
<1>1. /\ memory' = [i \in DOMAIN memory |->
                      IF i \in WrittenTo(d) THEN d.value ELSE memory[i]]
      /\ liveDataBuffer' = liveDataBuffer /\ replies' = replies
      /\ sent[rxHeader].packetType = "modify"
  BY DEF ProcessModify, Accepted
<1>2. n \in Nat /\ N \in Nat /\ DOMAIN liveDataBuffer = 1..N /\ DOMAIN memory = 1..N
  BY CurrentTypes
<1>3. /\ Len(processed') = n + 1 /\ sent' = sent
      /\ processed'[n + 1] = [pkt |-> rxHeader, data |-> d, known |-> N]
  BY EventAdded
<1>4. KnownVars'
  BY <1>1, KnownKept
<1>5. StringsUntouched'
  BY <1>1 DEF CurrentInv, StringsUntouched
<1>6. MemoryCurrent'
  <2> SUFFICES ASSUME NEW i \in 1..N, First(liveDataBuffer, i)
               PROVE  Current(liveDataBuffer[i].packetID,
                              liveDataBuffer[i].valueType, i,
                              Len(processed), memory[i])'
    BY <1>1 DEF MemoryCurrent
  <2>1. PICK id, type, v, c : /\ id = liveDataBuffer[i].packetID
                              /\ type = liveDataBuffer[i].valueType
                              /\ v = memory'[i] /\ c = n + 1
    OBVIOUS
  <2>2. SUFFICES Current(id, type, i, c, v)'
    BY <1>1, <1>3, <2>1, <2>2 DEF Current, Mods
  <2>3. i \in WrittenTo(d) <=>
          d.packetID = id /\ d.valueType = type /\ type \in NumericTypes
    <3>1. i \in SameID(d) <=> d.packetID = id
      BY <1>2, <2>1 DEF SameID
    <3>2. i \in Mismatches(d) => ~(\A j \in Mismatches(d) : i < j)
      OBVIOUS
    <3>3. ASSUME d.packetID = id, d.valueType = type, NEW j \in Mismatches(d)
          PROVE  i < j
      <4>1. j \in 1..N /\ liveDataBuffer[j].packetID = id /\ j # i
        BY <1>2, <2>1, <3>3 DEF Mismatches, SameID
      <4>2. ~(j < i)
        BY <1>2, <2>1, <4>1 DEF First
      <4>3. QED
        BY <1>2, <4>1, <4>2
    <3>4. ASSUME i \in SameID(d), d.valueType # type
          PROVE  i \in Mismatches(d)
      BY <2>1, <3>4 DEF Mismatches
    <3>5. QED
      BY <3>1, <3>2, <3>3, <3>4 DEF WrittenTo
  <2>4. CASE i \in WrittenTo(d)
    <3>1. v = d.value
      BY <1>1, <1>2, <2>1, <2>4
    <3>2. c \in Mods(id, type, i, c)'
      <4>1. c \in 1..c /\ N >= i
        BY <1>2, <2>1
      <4>2. QED
        BY <1>1, <1>3, <2>1, <2>3, <2>4, <4>1 DEF Mods
    <3>3. \A m \in Mods(id, type, i, c)' : m <= c
      BY DEF Mods
    <3>4. processed'[c].data.value = v
      BY <1>3, <2>1, <3>1
    <3>5. QED
      BY <3>2, <3>3, <3>4 DEF Current
  <2>5. CASE i \notin WrittenTo(d)
    <3>1. v = memory[i]
      BY <1>1, <1>2, <2>1, <2>5
    <3>2. Current(id, type, i, n, v)
      BY <2>1, <3>1 DEF CurrentInv, MemoryCurrent
    <3>3. Current(id, type, i, Len(processed), v)'
      BY <1>3, <2>3, <2>5, <3>2, CurrentPassed
    <3>4. QED
      BY <1>3, <2>1, <3>3 DEF Current, Mods
  <2>6. QED
    BY <2>4, <2>5
<1>7. QED
  BY <1>1, <1>4, <1>5, <1>6, ShownKept DEF CurrentInv

LEMMA CurrentNext == Types /\ TakenInv /\ CurrentInv /\ [Next]_vars => CurrentInv'
<1> SUFFICES ASSUME Types, TakenInv, CurrentInv, [Next]_vars PROVE CurrentInv'
  OBVIOUS
<1>1. CASE \E r \in Registrations : Register(r)
  <2>1. PICK r \in Registrations : Register(r)
    BY <1>1
  <2>2. replies' = replies
    BY <2>1 DEF Register, done
  <2>3. QED
    BY <2>1, <2>2, CurrentRegister, ShownKept DEF CurrentInv
<1>2. CASE UNCHANGED <<vars_, done>>
  <2>1. UNCHANGED <<liveDataBuffer, memory, processed, replies>>
    BY <1>2 DEF vars_, done
  <2>2. KnownVars' /\ StringsUntouched'
    BY <2>1 DEF CurrentInv, KnownVars, StringsUntouched
  <2>3. MemoryCurrent'
    <3> SUFFICES ASSUME NEW i \in 1..Len(liveDataBuffer), First(liveDataBuffer, i)
                 PROVE  Current(liveDataBuffer[i].packetID,
                                liveDataBuffer[i].valueType, i,
                                Len(processed), memory[i])'
      BY <2>1 DEF MemoryCurrent
    <3>1. PICK id, type, v, c : /\ id = liveDataBuffer[i].packetID
                                /\ type = liveDataBuffer[i].valueType
                                /\ v = memory[i] /\ c = Len(processed)
      OBVIOUS
    <3>2. Current(id, type, i, c, v)
      BY <3>1 DEF CurrentInv, MemoryCurrent
    <3>3. Current(id, type, i, c, v)'
      BY <3>1, <3>2, CurrentTypes, CurrentKept
    <3>4. QED
      BY <2>1, <3>1, <3>3 DEF Current, Mods
  <2>4. QED
    BY <2>1, <2>2, <2>3, ShownKept DEF CurrentInv
<1>3. QED
  BY <1>1, <1>2, DataSteps, CurrentRequest, CurrentModify

(* A response shows the last modify of a variable that was processed       *)
(* before its request, or the variable's first value.                      *)
THEOREM RepliesCurrentAlways == Spec => []RepliesCurrent
<1>1. Init => CurrentInv
  <2> SUFFICES ASSUME Init PROVE CurrentInv
    OBVIOUS
  <2>1. <<>> \in Seq(Replies) /\ Len(<<>>) = 0
    BY EmptySeq
  <2> HIDE DEF Replies
  <2>2. QED
    BY <2>1 DEF Init, CurrentInv, RepliesTyped, KnownVars, StringsUntouched,
                MemoryCurrent, ShownCurrent
<1>2. CurrentInv => RepliesCurrent
  <2> SUFFICES ASSUME CurrentInv PROVE RepliesCurrent
    OBVIOUS
  <2>1. replies \in Seq(Replies)
    BY DEF CurrentInv, RepliesTyped
  <2>2. DOMAIN replies = 1..Len(replies)
        /\ \A r \in 1..Len(replies) : replies[r] \in Replies
    <3> HIDE DEF Replies
    <3>1. QED
      BY <2>1, AtIn
  <2>3. ASSUME NEW r \in 1..Len(replies)
        PROVE  DOMAIN replies[r].live = 1..Len(replies[r].live)
    <3>1. replies[r].live \in Seq(Entries)
      BY <2>2 DEF Replies
    <3> HIDE DEF Entries
    <3>2. QED
      BY <3>1, AtIn
  <2>4. \A live, i, n : Modifies(live, i, n)
                          = Mods(live[i].packetID, live[i].valueType, i, n)
    BY DEF Modifies, Mods
  <2>5. QED
    BY <2>2, <2>3, <2>4 DEF CurrentInv, ShownCurrent, Current, RepliesCurrent
<1>3. QED
  BY <1>1, <1>2, CurrentNext, TypesInit, TypesNext, PacketInvInit, PacketInvNext, PTL
  DEF Spec, PacketInv
=============================================================================
