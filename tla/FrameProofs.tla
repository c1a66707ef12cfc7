----------------------------- MODULE FrameProofs -----------------------------
(***************************************************************************)
(* Proofs about Frame.tla, for every set of ports, keys and values and     *)
(* every bound.  Three small invariants carry them: the listing and its    *)
(* index, the producer with its port, and the windows with the queue that  *)
(* the panels' order keeps empty.                                          *)
(***************************************************************************)
EXTENDS Frame, FiniteSetTheorems, SequenceTheorems, TLAPS

(* Closing the window opened last restores the stack.                      *)
LEMMA CloseOpened ==
  ASSUME NEW W, NEW stack \in Seq(W), NEW w \in W
  PROVE  Closed(Append(stack, w)) = stack
<1>1. /\ Append(stack, w) \in Seq(W) /\ Len(Append(stack, w)) = Len(stack) + 1
      /\ \A i \in 1..Len(stack) : Append(stack, w)[i] = stack[i]
  BY AppendProperties
<1>2. Closed(Append(stack, w)) = SubSeq(Append(stack, w), 1, Len(stack))
  BY <1>1, LenProperties DEF Closed, Front
<1>3. /\ Len(SubSeq(Append(stack, w), 1, Len(stack))) = Len(stack)
      /\ SubSeq(Append(stack, w), 1, Len(stack)) \in Seq(W)
      /\ \A i \in 1..Len(stack) :
           SubSeq(Append(stack, w), 1, Len(stack))[i] = Append(stack, w)[i]
  BY <1>1, LenProperties, SubSeqProperties
<1> QED  BY <1>1, <1>2, <1>3, SeqEqual

LEMMA ClosedTyped ==
  ASSUME NEW W, NEW stack \in Seq(W)
  PROVE  Closed(stack) \in Seq(W)
BY SubSeqProperties, LenProperties DEF Closed, Front

(* Short sequences, element by element                                     *)
LEMMA AppendToEmpty ==
  ASSUME NEW W, NEW a \in W
  PROVE  Append(<<>>, a) = <<a>> /\ <<a>> \in Seq(W)
OBVIOUS

LEMMA AppendToOne ==
  ASSUME NEW W, NEW a \in W, NEW b \in W
  PROVE  Append(<<a>>, b) = <<a, b>> /\ <<a, b>> \in Seq(W)
<1>1. <<a>> \in Seq(W) /\ <<a, b>> \in Seq(W)
  OBVIOUS
<1>2. /\ Append(<<a>>, b) \in Seq(W) /\ Len(Append(<<a>>, b)) = 2
      /\ Append(<<a>>, b)[1] = a /\ Append(<<a>>, b)[2] = b
  BY <1>1, AppendProperties
<1>3. \A i \in 1..2 : Append(<<a>>, b)[i] = <<a, b>>[i]
  BY <1>2
<1> QED  BY <1>1, <1>2, <1>3, SeqEqual

-----------------------------------------------------------------------------
(* The list of ports                                                       *)

Listed ==
  /\ availablePorts \in Seq(Ports) /\ selectedPortIndex \in Nat
  /\ IndexInRange

(* Every listing is a sequence of ports.                                   *)
LEMMA ListingTyped ==
  ASSUME NEW list \in getAvailablePorts
  PROVE  list \in Seq(Ports)
<1>1. PICK n \in 0..Cardinality(Ports) : list \in [1..n -> Ports]
  BY DEF getAvailablePorts, Listings
<1>2. n \in Nat  OBVIOUS
<1> QED  BY <1>1, <1>2

(* The index is in the list in every state.                                *)
LEMMA ListedAlways == FrameSpec => []Listed
<1>1. FrameInit => Listed
  BY DEF FrameInit, Listed, IndexInRange
<1>2. Listed /\ [FrameNext]_frameVars => Listed'
  <2> SUFFICES ASSUME Listed, [FrameNext]_frameVars PROVE Listed'
    OBVIOUS
  <2>1. CASE RefreshPorts
    <3>1. availablePorts' \in Seq(Ports)
      BY <2>1, ListingTyped DEF RefreshPorts
    <3>2. Len(availablePorts') \in Nat /\ (availablePorts' # <<>> => Len(availablePorts') > 0)
      BY <3>1, EmptySeq, LenProperties
    <3> QED  BY <2>1, <3>1, <3>2 DEF RefreshPorts, Corrected, Listed, IndexInRange
  <2>2. CASE PickPort
    BY <2>2, LenProperties DEF PickPort, Listed, IndexInRange
  <2>3. CASE UNCHANGED <<availablePorts, selectedPortIndex>>
    BY <2>3 DEF Listed, IndexInRange
  <2> QED
    BY <2>1, <2>2, <2>3
    DEF FrameNext, frameVars, control, BeginFrame, Close, ControlPanelRender, KeepPorts,
        KeepPick, Detach, Attach, AttachFails, Throw, Attaching, NoButton, Produce, Produced,
        RenderTelemetry, RenderTelemetryFails, RenderOthers, EndDocking, Rendered, Asserts
<1> QED  BY <1>1, <1>2, PTL DEF FrameSpec

(* The combo never reads beyond the list (ControlPanel.cpp:23).            *)
THEOREM IndexInRangeAlways == FrameSpec => []IndexInRange
<1>1. Listed => IndexInRange  BY DEF Listed
<1> QED  BY <1>1, ListedAlways, PTL

-----------------------------------------------------------------------------
(* The producer and its port                                               *)

(* The port an attachment is made to is one, not Null.                     *)
LEMMA PortNamed == Listed => portName \in Ports \union {Default}
BY LenProperties, ElementOfSeq DEF Listed, portName

LEMMA PortNotNull == Listed => portName # Null
BY PortNamed, NullAssumption

(* Every frame the program lives to draw shows the button that fits.       *)
THEOREM PortIffAttachedAlways == FrameSpec => []PortIffAttached
<1>1. FrameInit => PortIffAttached
  BY DEF FrameInit, Init, PortIffAttached
<1>2. Listed /\ PortIffAttached /\ [FrameNext]_frameVars => PortIffAttached'
  <2> SUFFICES ASSUME Listed, PortIffAttached, [FrameNext]_frameVars
               PROVE  PortIffAttached'
    OBVIOUS
  <2>1. CASE Detach
    BY <2>1 DEF Detach, Stopped, At, PortIffAttached, Running
  <2>2. CASE Attach
    BY <2>2, PortNotNull DEF Attach, Attaching, Start, At, PortIffAttached, Running
  <2>3. CASE AttachFails
    BY <2>3 DEF AttachFails, Attaching, vars, At, PortIffAttached, Running
  <2>4. CASE Throw
    BY <2>4 DEF Throw, Attaching, At, PortIffAttached, Running
  <2>5. CASE UNCHANGED <<attached, dataProducer, held>> /\ (Running' => Running)
    BY <2>5 DEF PortIffAttached
  <2>6. CASE BeginFrame \/ Close \/ RefreshPorts \/ KeepPorts \/ PickPort \/ KeepPick
               \/ NoButton \/ Produced
    BY <2>6, <2>5
    DEF BeginFrame, Close, RefreshPorts, KeepPorts, PickPort, KeepPick, NoButton, Produced,
        At, Running, vars, control
  <2>7. CASE Produce
    BY <2>7, <2>5 DEF Produce, Consumed, Running, control
  <2>8. CASE RenderTelemetry \/ RenderTelemetryFails
    BY <2>8, <2>5
    DEF RenderTelemetry, RenderTelemetryFails, Render, StopSaving, SaveFile, SaveFails, Draw,
        At, Running, control
  <2>9. CASE RenderOthers \/ EndDocking \/ Rendered \/ Asserts
    BY <2>9, <2>5
    DEF RenderOthers, EndDocking, Rendered, Asserts, At, Running, vars, control
  <2>10. CASE UNCHANGED frameVars
    BY <2>10, <2>5 DEF frameVars, vars, control, Running
  <2> QED
    BY <2>1, <2>2, <2>3, <2>4, <2>6, <2>7, <2>8, <2>9, <2>10
    DEF FrameNext, ControlPanelRender
<1> QED  BY <1>1, <1>2, ListedAlways, PTL DEF FrameSpec

-----------------------------------------------------------------------------
(* The order of the panels                                                 *)

WindowNames == {"DockSpace Demo", "Control Panel", "Telemetry", "Alert", "Live Data"}

(* Where the loop is decides which windows are open and whether frames     *)
(* wait for the telemetry panel: only between produce and its render.      *)
InControlPanel == {"refresh", "combo", "buttons", "produce", "telemetry"}

Placed ==
  /\ windows \in Seq(WindowNames)
  /\ pc = "begin" => windows = <<>>
  /\ pc \in InControlPanel => windows = <<"DockSpace Demo">>
  /\ pc \in {"others", "end"} =>
       windows \in {<<"DockSpace Demo">>, <<"DockSpace Demo", "Telemetry">>}
  /\ pc \notin {"produce", "telemetry"} => queue = <<>>

LEMMA PlacedAlways == FrameSpec => []Placed
<1>1. FrameInit => Placed
  BY DEF FrameInit, Init, Placed, InControlPanel
<1>2. Placed /\ [FrameNext]_frameVars => Placed'
  <2> SUFFICES ASSUME Placed, [FrameNext]_frameVars PROVE Placed'
    OBVIOUS
  <2> DEFINE W == WindowNames
  <2>a. {"DockSpace Demo", "Control Panel", "Telemetry", "Alert", "Live Data"} \subseteq W
    BY DEF WindowNames
  <2>b. windows \in Seq(W)
    BY DEF Placed
  <2>c. \A w \in W : Closed(Opened(w)) = windows
    BY <2>b, CloseOpened DEF Opened
  <2> HIDE DEF W
  <2>1. CASE BeginFrame
    <3>1. windows' = <<"DockSpace Demo">> /\ windows' \in Seq(W)
      BY <2>1, <2>a, AppendToEmpty DEF BeginFrame, Opened, At, Placed
    <3> QED  BY <2>1, <3>1 DEF BeginFrame, vars, At, Placed, InControlPanel, W
  <2>2. CASE Close \/ RefreshPorts \/ KeepPorts \/ PickPort \/ KeepPick \/ NoButton \/ Throw
    BY <2>2
    DEF Close, RefreshPorts, KeepPorts, PickPort, KeepPick, NoButton, Throw, Attaching, At,
        vars, Placed, InControlPanel
  <2>3. CASE Detach \/ Attach
    BY <2>3 DEF Detach, Stopped, Attach, Attaching, Start, At, Placed, InControlPanel
  <2>4. CASE AttachFails
    <3>1. windows' = windows
      BY <2>4, <2>a, <2>c DEF AttachFails
    <3> QED  BY <2>4, <3>1 DEF AttachFails, Attaching, At, vars, Placed, InControlPanel
  <2>5. CASE Produce \/ Produced
    BY <2>5 DEF Produce, Produced, Consumed, At, vars, Placed, InControlPanel
  <2>6. CASE RenderTelemetry
    <3>1. windows' = windows
      BY <2>6, <2>a, <2>c DEF RenderTelemetry
    <3>2. queue' = <<>>
      BY <2>6 DEF RenderTelemetry, Render, StopSaving, SaveFile, Draw, Drained
    <3> QED  BY <2>6, <3>1, <3>2 DEF RenderTelemetry, At, Placed, InControlPanel
  <2>7. CASE RenderTelemetryFails
    <3>1. windows' = <<"DockSpace Demo", "Telemetry">> /\ windows' \in Seq(W)
      <4>1. windows' = Append(<<"DockSpace Demo">>, "Telemetry")
        BY <2>7 DEF RenderTelemetryFails, Opened, At, Placed, InControlPanel
      <4> QED  BY <4>1, <2>a, AppendToOne
    <3>2. queue' = <<>>
      BY <2>7 DEF RenderTelemetryFails, SaveFails, Draw, Drained
    <3> QED
      BY <2>7, <3>1, <3>2 DEF RenderTelemetryFails, At, Placed, InControlPanel, W
  <2>8. CASE RenderOthers
    <3>1. windows' = windows
      BY <2>8, <2>a, <2>c DEF RenderOthers, Opened
    <3> QED  BY <2>8, <3>1 DEF RenderOthers, At, vars, Placed, InControlPanel
  <2>9. CASE EndDocking
    <3>1. windows' \in Seq(WindowNames)
      BY <2>9, <2>b, ClosedTyped DEF EndDocking, W
    <3> QED  BY <2>9, <3>1 DEF EndDocking, At, vars, Placed, InControlPanel
  <2>10. CASE Rendered
    <3>1. windows' = <<>> /\ windows' \in Seq(WindowNames)
      BY <2>10, EmptySeq DEF Rendered
    <3> QED  BY <2>10, <3>1 DEF Rendered, At, vars, Placed, InControlPanel
  <2>12. CASE Asserts
    <3>1. windows' \in Seq(WindowNames)
      BY <2>12, <2>b DEF Asserts, W
    <3> QED  BY <2>12, <3>1 DEF Asserts, At, vars, Placed, InControlPanel
  <2>11. CASE UNCHANGED frameVars
    BY <2>11 DEF frameVars, vars, Placed
  <2> QED
    BY <2>1, <2>2, <2>3, <2>4, <2>5, <2>6, <2>7, <2>8, <2>9, <2>10, <2>11, <2>12
    DEF FrameNext, ControlPanelRender
<1> QED  BY <1>1, <1>2, PTL DEF FrameSpec

(* Nothing but the telemetry window is left open at the end of a frame.    *)
THEOREM OnlyTelemetryLeftOpenAlways == FrameSpec => []OnlyTelemetryLeftOpen
<1>1. Placed => OnlyTelemetryLeftOpen
  BY DEF Placed, OnlyTelemetryLeftOpen
<1> QED  BY <1>1, PlacedAlways, PTL

(* The types: whatever ends a frame, only known windows are on the stack,  *)
(* and a producer is only ever given a port, listed or the default.        *)
THEOREM TypeCorrect == FrameSpec => []FrameTypeOK
<1> DEFINE Given == {dataProducer, held} \subseteq Ports \union {Default, Null}
<1>1. FrameInit => Given
  BY DEF FrameInit
<1>2. Listed /\ Given /\ [FrameNext]_frameVars => Given'
  <2> SUFFICES ASSUME Listed, Given, [FrameNext]_frameVars PROVE Given'
    OBVIOUS
  <2>1. portName \in Ports \union {Default}
    BY PortNamed
  <2>2. {dataProducer', held'} \subseteq {dataProducer, held, Null, portName}
    BY DEF FrameNext, frameVars, control, BeginFrame, Close, ControlPanelRender, RefreshPorts,
        KeepPorts, PickPort, KeepPick, Detach, Attach, AttachFails, Throw, Attaching,
        NoButton, Produce, Produced, RenderTelemetry, RenderTelemetryFails, RenderOthers,
        EndDocking, Rendered, Asserts
  <2>3. QED
    BY <2>1, <2>2
<1>3. Listed /\ Placed /\ Given => FrameTypeOK
  BY DEF Listed, Placed, FrameTypeOK, WindowNames
<1>4. FrameSpec => []Given
  BY <1>1, <1>2, ListedAlways, PTL DEF FrameSpec
<1> QED  BY <1>3, <1>4, ListedAlways, PlacedAlways, PTL

(* The loop drives the telemetry panel only as TelemetryPanel.tla allows:  *)
(* Detach finds the consumer drained, frames come while attached.          *)
THEOREM PanelAsAssumedAlways == FrameSpec => PanelAsAssumed
<1>1. FrameInit => Init
  BY DEF FrameInit
<1>2. Placed /\ PortIffAttached /\ [FrameNext]_frameVars => [Next]_vars
  <2> SUFFICES ASSUME Placed, PortIffAttached, [FrameNext]_frameVars
               PROVE  [Next]_vars
    OBVIOUS
  <2>1. CASE Detach
    BY <2>1 DEF Detach, At, Stop, Next, Placed
  <2>2. CASE Attach
    BY <2>2 DEF Attach, Next
  <2>3. CASE Produce
    <3>1. attached
      BY <2>3 DEF Produce, PortIffAttached, Running
    <3> QED  BY <2>3, <3>1 DEF Produce, Consume, Next
  <2>4. CASE RenderTelemetry \/ RenderTelemetryFails
    BY <2>4 DEF RenderTelemetry, RenderTelemetryFails, Next
  <2>5. CASE UNCHANGED vars
    BY <2>5
  <2> QED
    BY <2>1, <2>2, <2>3, <2>4, <2>5
    DEF FrameNext, ControlPanelRender, frameVars, BeginFrame, Close, RefreshPorts, KeepPorts,
        PickPort, KeepPick, AttachFails, Throw, NoButton, Produced, RenderOthers, EndDocking,
        Rendered, Asserts
<1> QED
  BY <1>1, <1>2, PlacedAlways, PortIffAttachedAlways, PTL DEF FrameSpec, Spec, PanelAsAssumed

-----------------------------------------------------------------------------
(* The CSV file                                                            *)

(* The only column is the time, since nothing fills dataMap.               *)
LEMMA OneColumn == dataMap = {} => Columns = <<"Time">>
<1> SUFFICES ASSUME dataMap = {} PROVE Columns = <<"Time">>
  OBVIOUS
<1>1. Cardinality({}) = 0
  BY FS_EmptySet
<1>2. SetToSeq({}) = <<>>
  <2>1. <<>> \in [1..0 -> {}] /\ IsInjective(<<>>)
    BY DEF IsInjective
  <2>2. SetToSeq({}) \in [1..0 -> {}]
    BY <1>1, <2>1 DEF SetToSeq
  <2> QED  BY <2>2, EmptySeq
<1>3. <<"Time">> \o <<>> = <<"Time">>
  OBVIOUS
<1>4. Columns = <<"Time">> \o SetToSeq({})
  BY DEF Columns
<1> QED  BY <1>2, <1>3, <1>4

(* A file that is open has the columns of the panel, and its last row has  *)
(* them too.                                                               *)
Columned ==
  /\ dataMap = {}
  /\ header \in Seq({"Time"}) /\ csvHeaders \in Seq({"Time"})
  /\ savingFile => csvHeaders = header
  /\ RowFitsHeader

(* A row is as long as the columns it is written for.                      *)
LEMMA RowLength == Columned => Len(Row) = Len(csvHeaders)
<1> SUFFICES ASSUME Columned PROVE Len(Row) = Len(csvHeaders)
  OBVIOUS
<1> DEFINE n == Len(csvHeaders)
<1>1. n \in Nat /\ DOMAIN csvHeaders = 1..n
  BY LenProperties DEF Columned
<1>2. Row \in [1..n -> {Row[k] : k \in 1..n}]
  BY <1>1 DEF Row
<1>3. Row \in Seq({Row[k] : k \in 1..n})
  BY <1>1, <1>2
<1> QED  BY <1>1, <1>2, <1>3, LenProperties

LEMMA ColumnedAlways == Spec => []Columned
<1>1. Init => Columned
  BY DEF Init, file, Columned, RowFitsHeader
<1>2. Columned /\ [Next]_vars => Columned'
  <2> SUFFICES ASSUME Columned, [Next]_vars PROVE Columned'
    OBVIOUS
  <2>1. savingFile => Len(Row) = Len(header)
    BY RowLength DEF Columned
  <2>2. CASE Start
    BY <2>2 DEF Start, file, Columned, RowFitsHeader
  <2>3. CASE Stop
    BY <2>3 DEF Stop, Stopped, file, Columned, RowFitsHeader
  <2>4. CASE \E k \in Keys, v \in Values : Consume(k, v)
    BY <2>4 DEF Consume, Consumed, file, Columned, RowFitsHeader
  <2>5. CASE Render \/ StopSaving
    BY <2>1, <2>5 DEF Render, StopSaving, Draw, Write, Columned, RowFitsHeader
  <2>6. CASE SaveFile
    <3>1. Columns = <<"Time">>
      BY OneColumn DEF Columned
    <3>2. Columns \in Seq({"Time"})
      BY <3>1, AppendToEmpty
    <3>3. csvHeaders' = Columns /\ header' = Columns /\ row' = <<>> /\ dataMap' = dataMap
      BY <2>6 DEF SaveFile, Draw, HeadersAtSave
    <3> HIDE DEF Columns
    <3> QED  BY <3>2, <3>3 DEF Columned, RowFitsHeader
  <2>7. CASE SaveFails
    BY <2>1, <2>7 DEF SaveFails, Draw, Write, Columned, RowFitsHeader
  <2>8. CASE UNCHANGED vars
    BY <2>8 DEF vars, file, Columned, RowFitsHeader
  <2> QED
    BY <2>2, <2>3, <2>4, <2>5, <2>6, <2>7, <2>8 DEF Next
<1> QED  BY <1>1, <1>2, PTL DEF Spec

(* Every row fits the header above it, through the panel's own             *)
(* specification.                                                          *)
THEOREM RowFitsHeaderAlways == FrameSpec => []RowFitsHeader
<1>1. Columned => RowFitsHeader  BY DEF Columned
<1> QED  BY <1>1, ColumnedAlways, PanelAsAssumedAlways, PTL DEF PanelAsAssumed

-----------------------------------------------------------------------------
(* The table                                                               *)

QueueTyped == queue \in Seq([key : Keys, value : Values])

LEMMA QueueTypedAlways == Spec => []QueueTyped
<1>1. Init => QueueTyped
  BY EmptySeq DEF Init, QueueTyped
<1>2. QueueTyped /\ [Next]_vars => QueueTyped'
  <2> SUFFICES ASSUME QueueTyped, [Next]_vars PROVE QueueTyped'
    OBVIOUS
  <2>1. CASE \E k \in Keys, v \in Values : Consume(k, v)
    BY <2>1, AppendProperties DEF Consume, Consumed, QueueTyped
  <2>2. CASE queue' = queue
    BY <2>2 DEF QueueTyped
  <2>3. CASE queue' = <<>>
    BY <2>3, EmptySeq DEF QueueTyped
  <2> QED
    BY <2>1, <2>2, <2>3
    DEF Next, vars, Start, Stop, Stopped, Render, StopSaving, SaveFile, SaveFails, Draw, Drained
<1> QED  BY <1>1, <1>2, PTL DEF Spec

(* A frame that none of its key follows is the one the table takes.        *)
LEMMA LastTaken ==
  ASSUME QueueTyped, NEW k \in DOMAIN queue,
         \A j \in (k + 1)..Len(queue) : queue[j].key # queue[k].key
  PROVE  Table[queue[k].key] = queue[k].value
<1> DEFINE key == queue[k].key
           I == {i \in 1..Len(queue) : queue[i].key = key}
<1>1. Len(queue) \in Nat /\ DOMAIN queue = 1..Len(queue)
  BY LenProperties DEF QueueTyped
<1>2. k \in I /\ I \subseteq Nat /\ \A i \in I : k >= i
  <2>1. k \in I /\ I \subseteq 1..Len(queue)
    BY <1>1
  <2>2. ASSUME NEW i \in I, ~(k >= i) PROVE FALSE
    <3>1. i \in (k + 1)..Len(queue) /\ queue[i].key = key
      BY <1>1, <2>1, <2>2
    <3> QED  BY <3>1
  <2> QED  BY <2>1, <2>2
<1>3. Max(I) = k
  <2>1. \A x \in I : (\A i \in I : x >= i) => x = k
    BY <1>2
  <2> HIDE DEF I
  <2> QED  BY <1>2, <2>1 DEF Max
<1>4. LastOf(key) = k
  <2>1. LastOf(key) = IF I # {} THEN Max(I) ELSE 0
    BY DEF LastOf, SelectLastInSeq
  <2> QED  BY <1>2, <1>3, <2>1
<1>5. key \in {queue[j].key : j \in DOMAIN queue}
  OBVIOUS
<1> HIDE DEF key
<1>6. Table[key] = queue[LastOf(key)].value
  BY <1>5 DEF Table, Over
<1> QED  BY <1>4, <1>6 DEF key

(* The table shows of every key the value received last, for every number  *)
(* of frames in one batch.                                                 *)
THEOREM LatestShownAlways == FrameSpec => LatestShown
<1>1. QueueTyped /\ [Next]_vars =>
        [\A k \in DOMAIN queue :
           (queue' = <<>> /\ \A j \in (k + 1)..Len(queue) : queue[j].key # queue[k].key)
             => telemetryMap'[queue[k].key] = queue[k].value]_vars
  <2> SUFFICES ASSUME QueueTyped, [Next]_vars, ~UNCHANGED vars,
                      NEW k \in DOMAIN queue, queue' = <<>>,
                      \A j \in (k + 1)..Len(queue) : queue[j].key # queue[k].key
               PROVE  telemetryMap'[queue[k].key] = queue[k].value
    OBVIOUS
  <2>1. queue # <<>>
    BY EmptySeq, LenProperties DEF QueueTyped
  <2>2. ~Start /\ ~Stop
    BY <2>1 DEF Start, Stop
  <2>3. ASSUME NEW key \in Keys, NEW v \in Values, Consume(key, v) PROVE FALSE
    <3>1. Len(queue') = Len(queue) + 1 /\ Len(queue) \in Nat /\ Len(<<>>) = 0
      BY <2>3, AppendProperties, LenProperties, EmptySeq DEF Consume, Consumed, QueueTyped
    <3> QED  BY <3>1
  <2>4. Draw
    BY <2>2, <2>3 DEF Next, Render, StopSaving, SaveFile, SaveFails
  <2>5. telemetryMap' = Table
    BY <2>4 DEF Draw
  <2> QED  BY <2>5, LastTaken
<1>2. Spec => LatestShown
  BY <1>1, QueueTypedAlways, PTL DEF Spec, LatestShown
<1> QED  BY <1>2, PanelAsAssumedAlways, PTL DEF PanelAsAssumed
=============================================================================
