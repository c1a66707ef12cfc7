------------------------------- MODULE Houston -------------------------------
(***************************************************************************)
(* The host program above the serial port: main.cpp renders the panels of  *)
(* one frame in order, ControlPanel opens and closes sessions, Dispatcher  *)
(* keeps the queues in both directions, and LiveDataPanel shows and        *)
(* modifies the firmware's variables.                                      *)
(*                                                                         *)
(* The port is what SerialLink promises (frames and packets in order, some *)
(* frames lost) and the firmware is what Dashboard does with whole         *)
(* packets.  Of a frame only what the panels tell apart is kept, with the  *)
(* session in which it was received.                                       *)
(***************************************************************************)
EXTENDS Integers, Sequences, FiniteSetsExt, SequencesExt, Maps

CONSTANTS
  Registered,    \* [packetID, valueType] of the firmware's variables
  Values,        \* the values they take
  IdRange,       \* how many ids a uint8_t holds (256)
  Keys,          \* telemetry keys
  MaxSessions,   \* bound: successful Attach clicks
  MaxClicks,     \* bound: packets the user's clicks send
  MaxEdits,      \* bound: edits of a field
  MaxFrames,     \* bound: frames the firmware sends by itself
  MaxLosses      \* bound: packets and frames lost

ASSUME HoustonAssumption ==
  /\ \A r \in Registered : r.packetID \in Nat
  /\ IdRange \in Nat \ {0} /\ MaxSessions \in Nat

VARIABLES
  \* main.cpp and ControlPanel
  pc,            \* whose render comes next
  isEnable,      \* attached: there is a producer and it runs
  session,       \* how many sessions were opened
  \* Dispatcher and the consumers
  txData,
  queue,         \* the consumers' queues, by packet type
  \* the panels
  telemetryMap,  \* key -> the frame that brought its value
  alerts,        \* the frames that brought them
  liveDataMap,   \* packetID -> [valueType, the response that brought it]
  intMap,        \* packetID -> value of the field
  floatMap,
  \* SerialProducer and the firmware
  rx,            \* frames received and not yet produced
  batch,         \* frames produce has swapped out and not yet dispatched
  toDevice,      \* packets handed to the producer
  memory,        \* packetID -> [valueType, value], as registered
  \* counters
  number,        \* packets queued
  taken,         \* number of the last packet the firmware took
  oldest,        \* oldest request that was open when Refresh cleared the maps
  edits, frames, losses

device   == <<memory, taken, frames, losses>>
fields   == <<liveDataMap, intMap, floatMap>>
panels   == <<telemetryMap, alerts, fields>>
sessions == <<isEnable, session>>
counts   == <<number, oldest, edits>>
incoming == <<rx, batch>>
vars     == <<pc, sessions, txData, queue, panels, incoming, toDevice, device, counts>>

Types     == {"telemetry", "alert", "response"}
EmptyQ    == [t \in Types |-> <<>>]

Request(n) == [type |-> "request", number |-> n]

-----------------------------------------------------------------------------
(* LiveDataPanel::refreshPackets: the maps are cleared and a request is    *)
(* queued.                                                                 *)

ClearedMap_Kept == liveDataMap
ClearedMap == EmptyMap

(* requests whose response has not been popped yet                         *)
InQueues(s, type) == {s[k].number : k \in {j \in DOMAIN s : s[j].type = type}}

Open ==
  InQueues(txData, "request") \union InQueues(toDevice, "request")
    \union InQueues(rx, "response") \union InQueues(batch, "response")
    \union InQueues(queue["response"], "response")

Refresh ==
  /\ liveDataMap' = ClearedMap /\ intMap' = EmptyMap /\ floatMap' = EmptyMap
  /\ number' = number + 1

-----------------------------------------------------------------------------
(* ControlPanel::render                                                    *)

(* produce swaps the received frames out and dispatches them one by one,   *)
(* each to the consumer of its type; then send_data gives the producer     *)
(* what was queued.                                                        *)
Swap ==
  /\ pc = "swap" /\ pc' = "produce"
  /\ batch' = rx /\ rx' = <<>>
  /\ UNCHANGED <<sessions, txData, queue, panels, toDevice, device, counts>>

Dispatch ==
  /\ pc = "produce" /\ batch # <<>>
  /\ batch' = Tail(batch)
  /\ queue' = [queue EXCEPT ![Head(batch).type] = Append(@, Head(batch))]
  /\ UNCHANGED <<pc, sessions, txData, panels, rx, toDevice, device, counts>>

TxAfterSend_Kept(tx) == tx
TxAfterSend(tx) == <<>>

HandOver_WhenIdle(tx) == IF toDevice = <<>> THEN tx ELSE toDevice
HandOver(tx) == toDevice \o tx

SendData ==
  /\ pc = "produce" /\ batch = <<>> /\ pc' = "telemetry"
  /\ toDevice' = HandOver(txData)
  /\ txData' = TxAfterSend(txData)
  /\ UNCHANGED <<sessions, queue, panels, incoming, device, counts>>

(* No button; produce and send_data follow if there is a producer.         *)
Idle ==
  /\ pc = "control"
  /\ pc' = IF isEnable THEN "swap" ELSE "telemetry"
  /\ UNCHANGED <<sessions, txData, queue, panels, incoming, toDevice, device, counts>>

(* A new producer; TelemetryPanel::start clears, LiveDataPanel::start      *)
(* refreshes; then produce and send_data follow.                           *)
Attach ==
  /\ pc = "control" /\ pc' = "swap"
  /\ ~isEnable /\ isEnable' = TRUE
  /\ session < MaxSessions /\ session' = session + 1
  /\ telemetryMap' = EmptyMap
  /\ Refresh
  /\ oldest' = Min(Open \union {number + 1})
  /\ txData' = Append(txData, Request(number + 1))
  /\ UNCHANGED <<queue, incoming, toDevice, alerts, device, edits>>

AttachFails ==
  /\ pc = "control" /\ pc' = "telemetry"
  /\ ~isEnable
  /\ UNCHANGED <<sessions, txData, queue, panels, incoming, toDevice, device, counts>>

(* stop and delete: what the producer had received is gone, and of what it *)
(* was given a part has left.  Every panel is stopped; txData stays.       *)
AlertsAfterStop_Kept == alerts
AlertsAfterStop == <<>>

Detach ==
  /\ pc = "control" /\ pc' = "telemetry"
  /\ isEnable /\ isEnable' = FALSE
  /\ rx' = <<>>
  /\ \E n \in 0..Len(toDevice) : toDevice' = SubSeq(toDevice, 1, n)
  /\ telemetryMap' = EmptyMap /\ alerts' = AlertsAfterStop
  /\ liveDataMap' = EmptyMap /\ intMap' = EmptyMap /\ floatMap' = EmptyMap
  /\ UNCHANGED <<session, txData, queue, batch, device, counts>>

-----------------------------------------------------------------------------
(* TelemetryPanel::render and AlertPanel::render                           *)

LastOf(q, k) == SelectLastInSeq(q, LAMBDA f : f.key = k)

TelemetryRender ==
  /\ pc = "telemetry" /\ pc' = "alerts"
  /\ LET q == queue["telemetry"]
     IN telemetryMap' = Over([k \in {f.key : f \in Range(q)} |-> q[LastOf(q, k)]], telemetryMap)
  /\ queue' = [queue EXCEPT !["telemetry"] = <<>>]
  /\ UNCHANGED <<sessions, txData, alerts, fields, incoming, toDevice, device, counts>>

AlertRender ==
  /\ pc = "alerts" /\ pc' = "live"
  /\ \E clear \in BOOLEAN :
       alerts' = IF clear THEN <<>> ELSE alerts \o queue["alert"]
  /\ queue' = [queue EXCEPT !["alert"] = <<>>]
  /\ UNCHANGED <<sessions, txData, telemetryMap, fields, incoming, toDevice, device, counts>>

-----------------------------------------------------------------------------
(* LiveDataPanel::render: first every response is popped, and of each      *)
(* variable not shown yet the first one is taken.                          *)

Responses == queue["response"]
Answered  == UNION {DOMAIN f.live : f \in Range(Responses)}
New_Inverted == Answered \intersect DOMAIN liveDataMap
New       == Answered \ DOMAIN liveDataMap
FirstWith(id) == Responses[SelectInSeq(Responses, LAMBDA f : id \in DOMAIN f.live)]

Floats_None == {}
Floats == {id \in New : FirstWith(id).live[id].valueType = "float"}

FirstValues(ids) == [id \in ids |-> FirstWith(id).live[id].value]

Shown == Over(liveDataMap,
  [id \in New |-> [valueType |-> FirstWith(id).live[id].valueType, from |-> FirstWith(id)]])
IntFields   == Over(intMap, FirstValues(New \ Floats))
FloatFields == Over(floatMap, FirstValues(Floats))

(* The rest of render, on the maps as the responses left them.             *)
Rendered(ints, floats) ==
  /\ liveDataMap' = Shown /\ intMap' = ints /\ floatMap' = floats

LiveFrame ==
  /\ pc = "live"
  /\ queue' = [queue EXCEPT !["response"] = <<>>]
  /\ UNCHANGED <<sessions, telemetryMap, alerts, incoming, toDevice, device>>

NoClick ==
  /\ LiveFrame /\ pc' = "control"
  /\ Rendered(IntFields, FloatFields)
  /\ UNCHANGED <<txData, counts>>

Edit(id, v) ==
  /\ LiveFrame /\ pc' = "control"
  /\ edits < MaxEdits /\ edits' = edits + 1
  /\ Shown[id].valueType # "bool"
  /\ IF Shown[id].valueType = "float"
     THEN Rendered(IntFields, [FloatFields EXCEPT ![id] = v])
     ELSE Rendered([IntFields EXCEPT ![id] = v], FloatFields)
  /\ UNCHANGED <<txData, number, oldest>>

(* sendModifyPacket takes the id as a uint8_t and finds the value by what  *)
(* is left of it; a field that is not there is a null pointer.             *)
PacketID_OneBit(id) == id % 2
PacketID(id) == id % IdRange

SendModify(id, ints, floats) ==
  LET t   == Shown[id].valueType
      map == IF t = "float" THEN floats ELSE ints
  IN /\ number < MaxClicks
     /\ Rendered(ints, floats)
     /\ UNCHANGED <<oldest, edits>>
     /\ \/ /\ PacketID(id) \in DOMAIN map
           /\ number' = number + 1
           /\ txData' = Append(txData,
                [type |-> "modify", number |-> number + 1, clicked |-> id,
                 packetID |-> PacketID(id), valueType |-> t, value |-> map[PacketID(id)]])
           /\ pc' = "control"
        \/ /\ PacketID(id) \notin DOMAIN map
           /\ UNCHANGED <<number, txData>>
           /\ pc' = "crashed"

Apply(id) ==
  LiveFrame /\ Shown[id].valueType # "bool" /\ SendModify(id, IntFields, FloatFields)

(* The checkbox of a bool writes the field and sends it.                   *)
Toggle(id) ==
  /\ LiveFrame /\ Shown[id].valueType = "bool"
  /\ SendModify(id, [IntFields EXCEPT ![id] = 1 - @], FloatFields)

OpenAfterPop == InQueues(txData, "request") \union InQueues(toDevice, "request")
                  \union InQueues(rx, "response") \union InQueues(batch, "response")

RefreshClick ==
  /\ LiveFrame /\ pc' = "control"
  /\ number < MaxClicks
  /\ Refresh
  /\ txData' = Append(txData, Request(number + 1))
  /\ oldest' = Min(OpenAfterPop \union {number + 1})
  /\ UNCHANGED edits

LiveRender ==
  \/ NoClick \/ RefreshClick
  \/ \E id \in DOMAIN Shown : Apply(id) \/ Toggle(id) \/ \E v \in Values : Edit(id, v)

-----------------------------------------------------------------------------
(* The firmware and the line                                               *)

Host == <<pc, sessions, txData, queue, panels, batch, counts>>

Register(r) ==
  /\ r.packetID \notin DOMAIN memory
  /\ memory' = Over(memory, [id \in {r.packetID} |-> [valueType |-> r.valueType, value |-> 0]])
  /\ UNCHANGED <<Host, rx, toDevice, taken, frames, losses>>

(* A frame that arrives when the port is closed is gone; a damaged or      *)
(* refused one also.                                                       *)
Arrives(f) ==
  \/ isEnable /\ rx' = Append(rx, f) /\ UNCHANGED losses
  \/ isEnable /\ losses < MaxLosses /\ losses' = losses + 1 /\ UNCHANGED rx
  \/ ~isEnable /\ UNCHANGED <<rx, losses>>

TakeRequest ==
  /\ toDevice # <<>> /\ Head(toDevice).type = "request"
  /\ Arrives([type |-> "response", number |-> Head(toDevice).number,
              session |-> session, live |-> memory])
  /\ toDevice' = Tail(toDevice) /\ taken' = Head(toDevice).number
  /\ UNCHANGED <<Host, memory, frames>>

TakeModify ==
  /\ toDevice # <<>> /\ Head(toDevice).type = "modify"
  /\ LET p == Head(toDevice)
     IN memory' = IF /\ p.packetID \in DOMAIN memory
                     /\ memory[p.packetID].valueType = p.valueType
                  THEN [memory EXCEPT ![p.packetID].value = p.value]
                  ELSE memory
  /\ toDevice' = Tail(toDevice) /\ taken' = Head(toDevice).number
  /\ UNCHANGED <<Host, rx, frames, losses>>

LosePacket ==
  /\ toDevice # <<>> /\ losses < MaxLosses /\ losses' = losses + 1
  /\ toDevice' = Tail(toDevice)
  /\ UNCHANGED <<Host, rx, memory, taken, frames>>

DeviceSends ==
  /\ frames < MaxFrames /\ frames' = frames + 1
  /\ \/ Arrives([type |-> "alert", session |-> session])
     \/ \E k \in Keys : Arrives([type |-> "telemetry", key |-> k, session |-> session])
  /\ UNCHANGED <<Host, toDevice, memory, taken>>

-----------------------------------------------------------------------------
Init ==
  /\ pc = "control" /\ isEnable = FALSE /\ session = 0
  /\ txData = <<>> /\ queue = EmptyQ
  /\ telemetryMap = EmptyMap /\ alerts = <<>>
  /\ liveDataMap = EmptyMap /\ intMap = EmptyMap /\ floatMap = EmptyMap
  /\ rx = <<>> /\ batch = <<>> /\ toDevice = <<>> /\ memory = EmptyMap
  /\ number = 0 /\ taken = 0 /\ oldest = 0
  /\ edits = 0 /\ frames = 0 /\ losses = 0

ControlRender == Idle \/ Attach \/ AttachFails \/ Detach \/ Swap \/ Dispatch \/ SendData
Frame  == ControlRender \/ TelemetryRender \/ AlertRender \/ LiveRender
Take   == TakeRequest \/ TakeModify

Next ==
  \/ Frame \/ Take \/ LosePacket \/ DeviceSends
  \/ \E r \in Registered : Register(r)

(* main's loop keeps rendering and the firmware keeps taking packets;      *)
(* nothing obliges the user to click or the firmware to register or send.  *)
Spec == Init /\ [][Next]_vars /\ WF_vars(Frame) /\ WF_vars(Take)

-----------------------------------------------------------------------------
TypeOK ==
  /\ pc \in {"control", "swap", "produce", "telemetry", "alerts", "live", "crashed"}
  /\ isEnable \in BOOLEAN
  /\ session \in 0..MaxSessions
  /\ DOMAIN queue = Types
  /\ DOMAIN telemetryMap \subseteq Keys
  /\ DOMAIN memory \subseteq {r.packetID : r \in Registered}
  /\ DOMAIN liveDataMap = DOMAIN intMap \union DOMAIN floatMap
  /\ \A id \in DOMAIN liveDataMap :
       id \in (IF liveDataMap[id].valueType = "float" THEN DOMAIN floatMap ELSE DOMAIN intMap)
  /\ taken \in 0..number /\ oldest \in 0..number

(* Nothing of a closed session is left on the panels or waits in a         *)
(* consumer: whatever is there was received in the session that is open,   *)
(* and there is nothing while none is.  What empties the consumers is the   *)
(* order of the panels: each frame's batch is drained before the next      *)
(* ControlPanel::render, the only place that detaches.                     *)
Held ==
  Range(telemetryMap) \union Range(alerts) \union Range(rx) \union Range(batch)
    \union (UNION {Range(queue[t]) : t \in Types})
    \union {liveDataMap[id].from : id \in DOMAIN liveDataMap}

ShownThisSession == \A f \in Held : isEnable /\ f.session = session

(* Packets are handed over and taken in the order of the clicks that       *)
(* queued them, each at most once, also those that were queued while no    *)
(* session was open or in the frame before it was closed.                  *)
InOrderOnce ==
  LET s == <<taken>> \o [k \in DOMAIN toDevice |-> toDevice[k].number]
             \o [k \in DOMAIN txData |-> txData[k].number]
  IN \A j, k \in DOMAIN s : j < k => s[j] < s[k]

(* A refresh forgets what was shown: every variable on the panel comes     *)
(* from a response that was still to come when the maps were cleared (it   *)
(* may be the response to an earlier request that was under way).          *)
RefreshForgets ==
  \A id \in DOMAIN liveDataMap : liveDataMap[id].from.number >= oldest

(* What the host and the line make of the clicks is the abstract receiver  *)
(* again, with the packets of txData and of the producer in its queue: no  *)
(* hand-over, Detach or Attach repeats or reorders a packet, also of those *)
(* that a closed session has left in txData.                               *)
AsPacket(p) ==
  IF p.type = "request" THEN [kind |-> "request"]
  ELSE [kind |-> "modify", packetID |-> p.packetID, valueType |-> p.valueType,
        value |-> p.value]

Packets == toDevice \o txData
Ids     == {r.packetID : r \in Registered} \union 0..(IdRange - 1)
VarTypes == {r.valueType : r \in Registered}

Firmware ==
  INSTANCE Receiver WITH
    Slots    <- Ids,
    Types    <- VarTypes,
    Values   <- Values \union {0, 1},
    Writable <- VarTypes,
    queue    <- [k \in DOMAIN Packets |-> AsPacket(Packets[k])],
    memory   <- [id \in DOMAIN memory |->
                   [packetID |-> id, valueType |-> memory[id].valueType,
                    value |-> memory[id].value]]

ImplementsReceiver == Firmware!Spec

(* The README (lines 24-25) names the variable of a modify packet by two   *)
(* bytes: the packet that a click on a variable sends names that variable. *)
NamesVariable ==
  \A p \in Range(txData) \union Range(toDevice) :
    p.type = "modify" => p.packetID = p.clicked

(* The program does not stop: no click finds a field missing.              *)
NoCrash == pc # "crashed"

(* What the user applies reaches the firmware, unless the session ends.    *)
AppliedReaches ==
  \A n \in 1..MaxClicks :
    (isEnable /\ \E p \in Range(txData) : p.type = "modify" /\ p.number = n)
      ~> (taken >= n \/ ~isEnable)

(* A request queued in an open session fills the panel, if the firmware    *)
(* has a variable to show and nothing is lost.                             *)
RefreshShows ==
  (isEnable /\ DOMAIN memory # {} /\ InQueues(txData, "request") # {})
    ~> (DOMAIN liveDataMap # {} \/ ~isEnable)
=============================================================================
