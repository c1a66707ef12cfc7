--------------------------- MODULE ReceiverProofs ---------------------------
(***************************************************************************)
(* The firmware's receiver implements the abstract one of Receiver.tla,    *)
(* for every size, buffer, set of packets and registrations.               *)
(***************************************************************************)
EXTENDS DashboardProofs

(* The abstract receiver's variables, as the firmware's state gives them.  *)
Pending == [k \in 1..(Len(sent) - TakenUpTo) |-> AsPacket(sent[TakenUpTo + k])]
Cells   ==
  [k \in DOMAIN memory |-> [liveDataBuffer[k] EXCEPT !.value = memory[k]]]

(* LiveDataPanel's packets: requests, and modifies with a payload.         *)
LivePackets ==
  \A p \in Packets :
    /\ p.packetType \in {"request", "modify"}
    /\ p.packetType = "modify" => p.size > 0

LEMMA TakenBefore ==
  ASSUME Types, TakenInv
  PROVE  /\ TakenUpTo \in 0..Len(sent) /\ Len(sent) \in Nat
         /\ Held => TakenUpTo < rxHeader
<1>1. Len(processed) \in Nat /\ Len(sent) \in Nat /\ rxHeader \in 0..Len(sent)
  BY CurrentTypes, LineTypes DEF Types
<1>2. processed = <<>> <=> Len(processed) = 0
  <2>1. processed \in Seq(Events)
    BY DEF Types
  <2> HIDE DEF Events
  <2>2. QED
    BY <2>1, AtIn
<1>3. CASE processed = <<>>
  BY <1>1, <1>3 DEF TakenUpTo, Held
<1>4. CASE processed # <<>>
  <2>1. Len(processed) \in 1..Len(processed)
        /\ TakenUpTo = processed[Len(processed)].pkt
    BY <1>1, <1>2, <1>4 DEF TakenUpTo, Last
  <2>2. QED
    BY <1>1, <2>1 DEF TakenInv, TakenHeaders, HeldBehindTaken
<1>5. QED
  BY <1>3, <1>4

LEMMA CellTypes ==
  ASSUME Types
  PROVE  /\ DOMAIN Cells = 1..Len(liveDataBuffer)
         /\ \A i \in 1..Len(liveDataBuffer) :
              Cells[i] = [packetID  |-> liveDataBuffer[i].packetID,
                          valueType |-> liveDataBuffer[i].valueType,
                          value     |-> memory[i]]
  BY CurrentTypes DEF Cells, Entries

LEMMA ReceiverKept ==
  ASSUME Types, UNCHANGED <<sent, processed, vars_>>
  PROVE  UNCHANGED Firmware!vars
  BY DEF Firmware!vars, TakenUpTo, vars_

LEMMA ReceiverSubmits ==
  ASSUME LivePackets, Types, TakenInv, NEW p \in Packets, Send(p)
  PROVE  Firmware!Next
<1>1. /\ sent' = Append(sent, p) /\ UNCHANGED <<processed, vars_>>
  BY DEF Send, done
<1>2. sent \in Seq(Packets)
  BY DEF Types
<1>3. /\ Len(sent') = Len(sent) + 1 /\ sent'[Len(sent) + 1] = p
      /\ \A i \in 1..Len(sent) : sent'[i] = sent[i]
  BY <1>1, <1>2, AppendIn
<1>4. TakenUpTo' = TakenUpTo /\ TakenUpTo \in 0..Len(sent) /\ Len(sent) \in Nat
  BY <1>1, TakenBefore DEF TakenUpTo
<1>5. AsPacket(p) \in Firmware!Submittable
  BY DEF LivePackets, AsPacket, Firmware!Submittable
<1>6. Pending' = Append(Pending, AsPacket(p))
  <2> DEFINE S == {AsPacket(q) : q \in Packets}
             n == Len(sent) - TakenUpTo
  <2>1. n \in Nat
    BY <1>4
  <2>2. Pending \in [1..n -> S] /\ AsPacket(p) \in S
    <3>1. ASSUME NEW k \in 1..n PROVE AsPacket(sent[TakenUpTo + k]) \in S
      <4>1. TakenUpTo + k \in 1..Len(sent)
        BY <1>4
      <4>2. sent[TakenUpTo + k] \in Packets
        BY <1>2, <4>1, AtIn
      <4>3. QED
        BY <4>2
    <3>2. QED
      BY <3>1 DEF Pending
  <2> HIDE DEF S
  <2>3. Pending \in Seq(S) /\ Len(Pending) = n
    BY <2>1, <2>2, FunctionIsSeq
  <2>4. /\ Append(Pending, AsPacket(p)) \in Seq(S)
        /\ Len(Append(Pending, AsPacket(p))) = n + 1
        /\ \A i \in 1..n : Append(Pending, AsPacket(p))[i] = Pending[i]
        /\ Append(Pending, AsPacket(p))[n + 1] = AsPacket(p)
    BY <2>2, <2>3, AppendIn
  <2>5. Pending' = [k \in 1..(n + 1) |-> AsPacket(sent'[TakenUpTo + k])]
    <3>1. Len(sent') - TakenUpTo' = n + 1
      BY <1>3, <1>4
    <3>2. QED
      BY <1>4, <3>1 DEF Pending, AsPacket
  <2> HIDE DEF n
  <2>6. ASSUME NEW k \in 1..(n + 1)
        PROVE  AsPacket(sent'[TakenUpTo + k]) = Append(Pending, AsPacket(p))[k]
    <3>1. CASE k \in 1..n
      <4>1. TakenUpTo + k \in 1..Len(sent)
        BY <1>4, <3>1 DEF n
      <4>2. Pending[k] = AsPacket(sent[TakenUpTo + k])
        BY <3>1 DEF Pending, n
      <4>3. QED
        BY <1>3, <2>4, <3>1, <4>1, <4>2
    <3>2. CASE k = n + 1
      <4>1. TakenUpTo + k = Len(sent) + 1
        BY <1>4, <3>2 DEF n
      <4>2. QED
        BY <1>3, <2>4, <3>2, <4>1
    <3>3. k \in 1..n \/ k = n + 1
      BY <2>1
    <3>4. QED
      BY <3>1, <3>2, <3>3
  <2>7. Pending' \in Seq(S) /\ Len(Pending') = n + 1
    <3>1. \A k \in 1..(n + 1) : Append(Pending, AsPacket(p))[k] \in S
      BY <2>1, <2>4, AtIn
    <3>2. ASSUME NEW k \in 1..(n + 1) PROVE AsPacket(sent'[TakenUpTo + k]) \in S
      <4>1. Append(Pending, AsPacket(p))[k] \in S
        BY <3>1
      <4>2. QED
        BY <2>6, <4>1
    <3>3. Pending' \in [1..(n + 1) -> S]
      BY <2>5, <3>2, Zenon
    <3>4. n + 1 \in Nat
      BY <2>1
    <3>5. QED
      BY <3>3, <3>4, FunctionIsSeq
  <2>8. QED
    BY <2>4, <2>5, <2>6, <2>7, SeqEqual
<1>7. Cells' = Cells
  BY <1>1 DEF Cells, vars_
<1>8. Firmware!Submit(AsPacket(p))
  BY <1>6, <1>7 DEF Firmware!Submit, Pending, Cells
<1>9. QED
  BY <1>5, <1>8 DEF Firmware!Next

LEMMA ReceiverRegisters ==
  ASSUME Types, NEW r \in Registrations, Register(r)
  PROVE  Firmware!Next
<1> DEFINE n == Len(liveDataBuffer)
           e == [packetID |-> r.packetID, valueType |-> r.valueType, value |-> 0]
<1>1. /\ liveDataBuffer' = Append(liveDataBuffer, e) /\ memory' = Append(memory, 0)
      /\ UNCHANGED <<processed, sent>> /\ n < kLiveDataBufSize
  BY DEF Register, done, host, RoomToRegister
<1>2. n \in Nat /\ DOMAIN Cells = 1..n
  BY CurrentTypes, CellTypes
<1>3. /\ liveDataBuffer \in Seq(Entries) /\ memory \in Seq(Contents)
      /\ Len(memory) = n /\ 0 \in Contents /\ e \in Entries
  <2>1. ZeroData \in Data /\ ZeroData.value = 0
    BY DEF Data, ZeroData
  <2>2. 0 \in Contents
    <3> HIDE DEF ZeroData, Data
    <3>1. ZeroData.value \in Contents
      BY <2>1 DEF Contents
    <3>2. QED
      BY <2>1, <3>1
  <2>3. QED
    BY <2>2 DEF Types, Entries
<1>4. e.packetID = r.packetID /\ e.valueType = r.valueType /\ e.value = 0
      /\ e = [packetID |-> e.packetID, valueType |-> e.valueType, value |-> 0]
  OBVIOUS
<1> HIDE DEF e
<1>5. /\ Len(liveDataBuffer') = n + 1 /\ Len(memory') = n + 1
      /\ \A i \in 1..n : liveDataBuffer'[i] = liveDataBuffer[i] /\ memory'[i] = memory[i]
      /\ liveDataBuffer'[n + 1] = e /\ memory'[n + 1] = 0
      /\ DOMAIN memory' = 1..(n + 1)
  <2> HIDE DEF Entries, Contents
  <2>1. /\ Len(liveDataBuffer') = n + 1 /\ liveDataBuffer'[n + 1] = e
        /\ \A i \in 1..n : liveDataBuffer'[i] = liveDataBuffer[i]
    BY <1>1, <1>3, AppendIn
  <2>2. /\ memory'[n + 1] = 0 /\ \A i \in 1..n : memory'[i] = memory[i]
        /\ Len(memory') = n + 1 /\ memory' \in Seq(Contents)
    BY <1>1, <1>3, AppendIn
  <2>3. DOMAIN memory' = 1..(n + 1)
    BY <2>2, AtIn
  <2>4. QED
    BY <2>1, <2>2, <2>3
<1>6. Pending' = Pending
  BY <1>1 DEF Pending, TakenUpTo
<1> DEFINE c == [packetID |-> e.packetID, valueType |-> e.valueType, value |-> 0]
<1>7. Cells' = [x \in (DOMAIN Cells) \union {n + 1} |->
                  IF x = n + 1 THEN c ELSE Cells[x]]
  <2>1. DOMAIN memory' = (DOMAIN Cells) \union {n + 1}
    BY <1>2, <1>5
  <2>2. ASSUME NEW x \in 1..(n + 1)
        PROVE  [liveDataBuffer'[x] EXCEPT !.value = memory'[x]]
                 = IF x = n + 1 THEN c ELSE Cells[x]
    <3>1. CASE x = n + 1
      BY <1>4, <1>5, <3>1
    <3>2. CASE x # n + 1
      <4>1. x \in 1..n
        BY <1>2, <3>2
      <4>2. x \in DOMAIN memory
        BY <1>3, <4>1, CurrentTypes
      <4>3. Cells[x] = [liveDataBuffer[x] EXCEPT !.value = memory[x]]
        BY <4>2 DEF Cells
      <4>4. QED
        BY <1>5, <3>2, <4>1, <4>3
    <3>3. QED
      BY <3>1, <3>2
  <2>3. Cells' = [x \in 1..(n + 1) |-> [liveDataBuffer'[x] EXCEPT !.value = memory'[x]]]
    BY <1>5 DEF Cells
  <2>4. (DOMAIN Cells) \union {n + 1} = 1..(n + 1)
    BY <1>5, <2>1
  <2>5. QED
    BY <2>2, <2>3, <2>4, Zenon
<1>8. n + 1 \notin DOMAIN Cells /\ n + 1 \in 1..kLiveDataBufSize
  BY <1>1, <1>2, Sizes
<1>9. Firmware!Register(n + 1, e.packetID, e.valueType)
  BY <1>6, <1>7, <1>8 DEF Firmware!Register, Pending, Cells
<1>10. /\ e.packetID \in {q.data.packetID : q \in Packets}
                           \union {q.packetID : q \in Registrations}
       /\ e.valueType \in {q.data.valueType : q \in Packets}
                            \union {q.valueType : q \in Registrations}
  BY <1>4
<1>11. QED
  BY <1>8, <1>9, <1>10 DEF Firmware!Next

LEMMA PendingTaken ==
  ASSUME Types, TakenInv, Held, sent' = sent, TakenUpTo' = rxHeader
  PROVE  /\ DOMAIN Pending = 1..Len(Pending)
         /\ rxHeader - TakenUpTo \in 1..Len(Pending)
         /\ Pending[rxHeader - TakenUpTo] = AsPacket(sent[rxHeader])
         /\ Pending' = SubSeq(Pending, rxHeader - TakenUpTo + 1, Len(Pending))
<1> DEFINE S == {AsPacket(q) : q \in Packets}
           n == Len(sent) - TakenUpTo
           k == rxHeader - TakenUpTo
<1>1. /\ TakenUpTo \in Nat /\ Len(sent) \in Nat /\ rxHeader \in Nat
      /\ TakenUpTo <= Len(sent) /\ TakenUpTo < rxHeader /\ rxHeader <= Len(sent)
  BY TakenBefore DEF Types
<1>2. n \in Nat /\ k \in 1..n /\ k \in Nat
  BY <1>1
<1>3. ASSUME NEW j \in 1..n PROVE AsPacket(sent[TakenUpTo + j]) \in S
  <2>1. TakenUpTo + j \in 1..Len(sent) /\ sent \in Seq(Packets)
    BY <1>1 DEF Types
  <2>2. sent[TakenUpTo + j] \in Packets
    BY <2>1, AtIn
  <2>3. QED
    BY <2>2
<1> HIDE DEF S
<1>4. Pending \in Seq(S) /\ Len(Pending) = n /\ DOMAIN Pending = 1..n
  <2>1. Pending \in [1..n -> S]
    BY <1>3 DEF Pending
  <2>2. QED
    BY <1>2, <2>1, FunctionIsSeq
<1>5. Pending[k] = AsPacket(sent[rxHeader])
  <2>1. TakenUpTo + k = rxHeader
    BY <1>1
  <2>2. Pending[k] = AsPacket(sent[TakenUpTo + k])
    BY <1>2 DEF Pending
  <2>3. QED
    BY <2>1, <2>2
<1>6. Pending' = SubSeq(Pending, k + 1, Len(Pending))
  <2> DEFINE rest == SubSeq(Pending, k + 1, Len(Pending))
  <2>1. /\ rest \in Seq(S) /\ Len(rest) = n - k
        /\ \A i \in 1..Len(rest) : rest[i] = Pending[k + i] /\ k + i \in 1..n
    <3>1. k \in Nat /\ k <= Len(Pending)
      BY <1>2, <1>4
    <3> HIDE DEF k
    <3>2. QED
      BY <1>4, <3>1, RestOf
  <2> HIDE DEF rest, k, n
  <2>2. n - k \in Nat /\ n - k = Len(sent) - rxHeader
    BY <1>1, <1>2 DEF n, k
  <2>3. Pending' = [j \in 1..(n - k) |-> AsPacket(sent[rxHeader + j])]
    BY <2>2 DEF Pending, AsPacket
  <2>4. ASSUME NEW j \in 1..(n - k)
        PROVE  rest[j] = AsPacket(sent[rxHeader + j])
    <3>1. rest[j] = Pending[k + j] /\ k + j \in 1..n
      BY <2>1
    <3>2. Pending[k + j] = AsPacket(sent[TakenUpTo + (k + j)])
      BY <3>1 DEF Pending, n
    <3>3. TakenUpTo + (k + j) = rxHeader + j
      BY <1>1 DEF k
    <3>4. QED
      BY <3>1, <3>2, <3>3
  <2>5. Pending' \in Seq(S) /\ Len(Pending') = n - k
    <3>1. \A j \in 1..(n - k) : rest[j] \in S
      BY <2>1, AtIn
    <3>2. ASSUME NEW j \in 1..(n - k) PROVE AsPacket(sent[rxHeader + j]) \in S
      <4>1. rest[j] \in S
        BY <3>1
      <4>2. QED
        BY <2>4, <4>1
    <3>3. Pending' \in [1..(n - k) -> S]
      BY <2>3, <3>2, Zenon
    <3>4. QED
      BY <2>2, <3>3, FunctionIsSeq
  <2>6. \A j \in 1..(n - k) : Pending'[j] = rest[j]
    BY <2>3, <2>4
  <2>7. Pending' = rest
    BY <2>1, <2>5, <2>6, SeqEqual
  <2>8. QED
    BY <2>7 DEF rest
<1>7. QED
  BY <1>2, <1>4, <1>5, <1>6

LEMMA TakenHere ==
  ASSUME Types, ProcessRequest \/ ProcessModify
  PROVE  Held /\ sent' = sent /\ TakenUpTo' = rxHeader /\ TakeStep
<1>1. TakeStep
  BY ConsumeSteps DEF ProcessRequest, ProcessModify, Accepted, TakeStep
<1>2. /\ Len(processed') = Len(processed) + 1 /\ Len(processed) \in Nat
      /\ processed'[Len(processed')].pkt = rxHeader /\ sent' = sent
  BY EventAdded
<1>3. processed' # <<>>
  <2>1. Types => processed \in Seq(Events)
    BY DEF Types
  <2>2. processed' = <<>> => Len(processed') = 0
    BY EmptySeq
  <2>3. QED
    BY <1>2, <2>2
<1>4. TakenUpTo' = rxHeader
  BY <1>2, <1>3 DEF TakenUpTo, Last
<1>5. QED
  BY <1>1, <1>2, <1>4, TakenTypes

LEMMA ReceiverAnswers ==
  ASSUME Types, TakenInv, ProcessRequest
  PROVE  Firmware!Next
<1>0. PICK k : k = rxHeader - TakenUpTo
  OBVIOUS
<1>1. /\ DOMAIN Pending = 1..Len(Pending) /\ k \in 1..Len(Pending)
      /\ Pending[k] = AsPacket(sent[rxHeader])
      /\ Pending' = SubSeq(Pending, k + 1, Len(Pending))
  BY <1>0, TakenHere, PendingTaken
<1>2. liveDataBuffer' = Snapshot /\ memory' = memory
      /\ sent[rxHeader].packetType = "request"
  BY DEF ProcessRequest, Accepted
<1>3. Pending[k].kind = "request"
  BY <1>1, <1>2 DEF AsPacket
<1>4. Cells' = Cells
  <2>1. ASSUME NEW i \in DOMAIN memory
        PROVE  [Snapshot[i] EXCEPT !.value = memory[i]]
                 = [liveDataBuffer[i] EXCEPT !.value = memory[i]]
    <3>1. i \in DOMAIN liveDataBuffer /\ i \in 1..Len(liveDataBuffer)
      BY CurrentTypes
    <3>2. Snapshot[i] = [liveDataBuffer[i] EXCEPT !.value = SnapshotValue(i)]
      BY <3>1 DEF Snapshot
    <3>3. liveDataBuffer[i] \in Entries
      BY <3>1, CurrentTypes
    <3>4. QED
      BY <3>2, <3>3 DEF Entries
  <2>2. Cells' = [i \in DOMAIN memory |-> [Snapshot[i] EXCEPT !.value = memory[i]]]
    BY <1>2 DEF Cells
  <2>3. QED
    BY <2>1, <2>2, Zenon DEF Cells
<1>5. Cells' = [s \in DOMAIN Cells |->
                  IF s \in {} THEN [Cells[s] EXCEPT !.value = Pending[k].value]
                  ELSE Cells[s]]
  <2>1. Cells = [s \in DOMAIN Cells |-> Cells[s]]
    BY DEF Cells
  <2>2. QED
    BY <1>4, <2>1
<1>6. {} \in Firmware!Writes(Pending[k])
  BY <1>3 DEF Firmware!Writes
<1>7. Firmware!Take(k)
  BY <1>1, <1>5, <1>6 DEF Firmware!Take, Pending, Cells
<1>8. k \in DOMAIN Pending
  BY <1>1
<1>9. QED
  BY <1>7, <1>8 DEF Firmware!Next, Pending

LEMMA ReceiverModifies ==
  ASSUME LivePackets, ShortGaps, Types, PacketInv, ProcessModify
  PROVE  Firmware!Next
<1>0. PICK k : k = rxHeader - TakenUpTo
  OBVIOUS
<1> DEFINE d == PayloadData
           N == Len(liveDataBuffer)
<1>1. /\ DOMAIN Pending = 1..Len(Pending) /\ k \in 1..Len(Pending)
      /\ Pending[k] = AsPacket(sent[rxHeader])
      /\ Pending' = SubSeq(Pending, k + 1, Len(Pending))
  BY <1>0, TakenHere, PendingTaken DEF PacketInv
<1>2. /\ memory' = [i \in DOMAIN memory |->
                      IF i \in WrittenTo(d) THEN d.value ELSE memory[i]]
      /\ liveDataBuffer' = liveDataBuffer
      /\ sent[rxHeader].packetType = "modify"
  BY DEF ProcessModify, Accepted
<1>3. d = sent[rxHeader].data
  <2>1. TakeStep
    BY TakenHere
  <2>2. rxHeader \in 1..Len(sent) /\ sent \in Seq(Packets)
    BY <2>1, TakenTypes DEF Types
  <2>3. sent[rxHeader] \in Packets
    BY <2>2, AtIn
  <2>4. sent[rxHeader].size > 0
    BY <1>2, <2>3 DEF LivePackets
  <2>5. QED
    BY <2>1, <2>4, PayloadAsSent DEF PacketInv
<1> DEFINE p == Pending[k]
<1>4. p.kind = "modify" /\ p.packetID = d.packetID
      /\ p.valueType = d.valueType /\ p.value = d.value
  BY <1>1, <1>2, <1>3 DEF AsPacket
<1>5. /\ DOMAIN Cells = 1..N /\ DOMAIN memory = 1..N /\ DOMAIN liveDataBuffer = 1..N
      /\ \A i \in 1..N : /\ Cells[i].packetID = liveDataBuffer[i].packetID
                         /\ Cells[i].valueType = liveDataBuffer[i].valueType
      /\ \A i \in 1..N : liveDataBuffer[i] \in Entries
  BY CellTypes, CurrentTypes
<1> HIDE DEF d, p
<1> DEFINE W == WrittenTo(d)
<1>6. W \in Firmware!Writes(p)
  <2> DEFINE Named == {s \in DOMAIN Cells : Cells[s].packetID = p.packetID}
             Matching == {s \in Named : Cells[s].valueType = p.valueType}
  <2>1. Firmware!Named(p) = Named /\ Firmware!Matching(p) = Matching
    BY DEF Firmware!Named, Firmware!Matching, Cells
  <2>2. Named = SameID(d) /\ Matching = SameID(d) \ Mismatches(d)
    BY <1>4, <1>5 DEF SameID, Mismatches
  <2> HIDE DEF Named, Matching
  <2>3. W \subseteq Matching
    <3>1. ASSUME NEW i \in W PROVE i \in SameID(d) /\ i \notin Mismatches(d)
      <4>1. i \in SameID(d) /\ \A j \in Mismatches(d) : i < j
        BY <3>1 DEF WrittenTo
      <4>2. i \in Nat
        BY <1>5, <4>1 DEF SameID
      <4>3. QED
        BY <4>1, <4>2
    <3>2. QED
      BY <2>2, <3>1
  <2>4. CASE p.valueType \notin NumericTypes
    BY <1>4, <2>4 DEF WrittenTo, Firmware!Writes
  <2>5. CASE p.valueType \in NumericTypes /\ Matching = Named
    <3>1. Mismatches(d) = {}
      <4>1. Mismatches(d) \subseteq SameID(d)
        BY DEF Mismatches
      <4>2. QED
        BY <2>2, <2>5, <4>1
    <3>2. W = SameID(d)
      BY <1>4, <2>5, <3>1 DEF WrittenTo
    <3>3. QED
      BY <1>4, <2>1, <2>2, <2>5, <3>2 DEF Firmware!Writes
  <2>6. CASE p.valueType \in NumericTypes /\ Matching # Named
    BY <1>4, <2>1, <2>3, <2>6 DEF Firmware!Writes
  <2>7. QED
    BY <2>4, <2>5, <2>6
<1>7. Cells' = [s \in DOMAIN Cells |->
                  IF s \in W THEN [Cells[s] EXCEPT !.value = p.value]
                  ELSE Cells[s]]
  <2>1. DOMAIN memory' = 1..N
    BY <1>2, <1>5
  <2>2. Cells' = [s \in 1..N |-> [liveDataBuffer[s] EXCEPT !.value = memory'[s]]]
    BY <1>2, <2>1 DEF Cells
  <2>3. ASSUME NEW s \in 1..N
        PROVE  [liveDataBuffer[s] EXCEPT !.value = memory'[s]]
                 = IF s \in W THEN [Cells[s] EXCEPT !.value = p.value]
                   ELSE Cells[s]
    <3>1. Cells[s] = [liveDataBuffer[s] EXCEPT !.value = memory[s]]
      BY <1>5 DEF Cells
    <3>2. memory'[s] = IF s \in W THEN p.value ELSE memory[s]
      BY <1>2, <1>4, <1>5
    <3>3. liveDataBuffer[s] \in Entries
      BY <1>5
    <3>4. QED
      BY <3>1, <3>2, <3>3 DEF Entries
  <2>4. QED
    BY <1>5, <2>2, <2>3, Zenon
<1> HIDE DEF W
<1>8. Firmware!Take(k)
  BY <1>1, <1>6, <1>7 DEF Firmware!Take, Pending, Cells, p
<1>9. k \in DOMAIN Pending
  BY <1>1
<1>10. QED
  BY <1>8, <1>9 DEF Firmware!Next, Pending

LEMMA ReceiverStep ==
  ASSUME LivePackets, ShortGaps, Types, PacketInv, [Next]_vars
  PROVE  [Firmware!Next]_(Firmware!vars)
<1>1. CASE \E p \in Packets : Send(p)
  BY <1>1, ReceiverSubmits DEF PacketInv
<1>2. CASE \E r \in Registrations : Register(r)
  BY <1>2, ReceiverRegisters
<1>3. CASE ProcessRequest
  BY <1>3, ReceiverAnswers DEF PacketInv
<1>4. CASE ProcessModify
  BY <1>4, ReceiverModifies
<1>5. CASE UNCHANGED <<sent, processed, vars_>>
  BY <1>5, ReceiverKept
<1>6. \/ \E p \in Packets : Send(p)
      \/ \E r \in Registrations : Register(r)
      \/ ProcessRequest \/ ProcessModify \/ UNCHANGED <<sent, processed, vars_>>
  BY DEF Next, vars, Send, ArriveByte, CorruptByte, LoseByte, Deliver, Update,
      NoHeader, RejectHeader, TooLarge, AcceptHeader, NoPayload, Unread, done,
      RejectPayload, ProcessUnknown, Consume, host
<1>7. QED
  BY <1>1, <1>2, <1>3, <1>4, <1>5, <1>6

(* The receiver implements the abstract one: a step of Dashboard_Update    *)
(* takes one packet of those still to come, with its own effect, or none.  *)
THEOREM ImplementsReceiverAlways ==
  LivePackets /\ ShortGaps => (Spec => ImplementsReceiver)
<1>1. Init => Firmware!Init
  <2> SUFFICES ASSUME Init PROVE Firmware!Init
    OBVIOUS
  <2>1. sent = <<>> /\ processed = <<>> /\ memory = <<>> /\ Len(<<>>) = 0
        /\ Len(sent) = 0 /\ TakenUpTo = 0
    BY EmptySeq DEF Init, TakenUpTo
  <2>2. Pending = <<>>
    <3>1. Pending \in [1..0 -> {}] /\ 0 \in Nat
      BY <2>1 DEF Pending
    <3>2. Pending \in Seq({}) /\ Len(Pending) = 0
      BY <3>1, FunctionIsSeq
    <3>3. QED
      BY <3>2, AtIn
  <2>3. DOMAIN memory = {}
    BY <2>1
  <2>4. Cells = [s \in {} |-> 0]
    BY <2>3 DEF Cells
  <2>5. QED
    BY <2>2, <2>4 DEF Firmware!Init, Pending, Cells
<1>2. LivePackets /\ ShortGaps => [](LivePackets /\ ShortGaps)
  <2>1. (LivePackets <=> LivePackets') /\ (ShortGaps <=> ShortGaps')
    BY DEF LivePackets, ShortGaps
  <2>2. QED
    BY <2>1, PTL
<1>3. LivePackets /\ ShortGaps /\ Types /\ PacketInv /\ [Next]_vars
        => [Firmware!Next]_(Firmware!vars)
  BY ReceiverStep
<1>4. QED
  BY <1>1, <1>2, <1>3, TypesInit, TypesNext, PacketInvInit, PacketInvNext, PTL
  DEF Spec, ImplementsReceiver, Firmware!Spec
=============================================================================
