------------------------------- MODULE Frame -------------------------------
(***************************************************************************)
(* One frame after another of main.cpp's loop: the dock space is opened,   *)
(* every panel renders, the dock space is closed.  ControlPanel::render    *)
(* (ControlPanel.cpp) lists the serial ports, holds the user's choice,     *)
(* attaches and detaches; TelemetryPanel::render is the module this one    *)
(* extends; of the alert and live data panels only the windows are here.   *)
(* Ports come and go between any two calls: a listing is any sequence of   *)
(* ports, and opening one may succeed or fail whatever was listed.         *)
(***************************************************************************)
EXTENDS TelemetryPanel

CONSTANTS
  Ports,       \* the serial ports there may be
  Default,     \* the port tried when none is listed: "COM5"
  Null         \* no producer, no port

ASSUME NullAssumption == Null \notin Ports \union {Default}

VARIABLES
  pc,                 \* what the loop does next, or how it ended
  windows,            \* ImGui's stack of windows begun and not ended
  availablePorts,
  selectedPortIndex,  \* from 0
  dataProducer,       \* Null, or the port its SerialProducer was given
  held                \* the port the process has open

control == <<availablePorts, selectedPortIndex, dataProducer, held>>
frameVars == <<vars, pc, windows, control>>

At(here, next) == pc = here /\ pc' = next

Opened(w) == Append(windows, w)
Closed(stack) == Front(stack)

-----------------------------------------------------------------------------
BeginFrame ==
  /\ At("begin", "refresh") /\ windows' = Opened("DockSpace Demo")
  /\ UNCHANGED <<vars, control>>

(* The user closes the application's window.                               *)
Close == At("begin", "closed") /\ UNCHANGED <<vars, windows, control>>

(* ControlPanel::render: the listing.  Refresh Ports is pressed, or there  *)
(* is no list.                                                             *)
Listings == UNION {[1..n -> Ports] : n \in 0..Cardinality(Ports)}

getAvailablePorts == {s \in Listings : IsInjective(s)}

Corrected_Late(list) == IF selectedPortIndex > Len(list) THEN 0 ELSE selectedPortIndex
Corrected_Last(list) == IF selectedPortIndex >= Len(list) THEN Len(list) - 1 ELSE selectedPortIndex
Corrected(list) == IF selectedPortIndex >= Len(list) THEN 0 ELSE selectedPortIndex

RefreshPorts ==
  /\ At("refresh", "combo")
  /\ availablePorts' \in getAvailablePorts
  /\ selectedPortIndex' = Corrected(availablePorts')
  /\ UNCHANGED <<vars, windows, dataProducer, held>>

KeepPorts ==
  /\ At("refresh", "combo") /\ availablePorts # <<>>
  /\ UNCHANGED <<vars, windows, control>>

(* The combo shows availablePorts[selectedPortIndex]; the user may pick.   *)
PickPort ==
  /\ At("combo", "buttons")
  /\ \E i \in DOMAIN availablePorts : selectedPortIndex' = i - 1
  /\ UNCHANGED <<vars, windows, availablePorts, dataProducer, held>>

KeepPick == At("combo", "buttons") /\ UNCHANGED <<vars, windows, control>>

-----------------------------------------------------------------------------
(* Detach: the producer is stopped, which closes its port, and deleted;    *)
(* every panel's stop follows.                                             *)
Detach ==
  /\ At("buttons", "produce")
  /\ dataProducer # Null /\ dataProducer' = Null /\ held' = Null
  /\ Stopped
  /\ UNCHANGED <<windows, availablePorts, selectedPortIndex>>

(* Attach: a producer for the port shown, whose start opens the port, ...  *)
portName ==
  IF availablePorts # <<>> /\ selectedPortIndex < Len(availablePorts)
    THEN availablePorts[selectedPortIndex + 1] ELSE Default

Attaching(next) ==
  /\ At("buttons", next) /\ ~attached
  /\ UNCHANGED <<availablePorts, selectedPortIndex>>

Attach ==
  /\ Attaching("produce")
  /\ dataProducer' = portName /\ held' = portName
  /\ Start
  /\ UNCHANGED windows

(* ... reports that it cannot, which deletes the producer and leaves       *)
(* render early, ...                                                       *)
AttachFails_Open ==
  /\ Attaching("telemetry")
  /\ dataProducer' = Null /\ windows' = Opened("Control Panel")
  /\ UNCHANGED <<vars, held>>
AttachFails ==
  /\ Attaching("telemetry")
  /\ dataProducer' = Null /\ windows' = Closed(Opened("Control Panel"))
  /\ UNCHANGED <<vars, held>>

(* ... or opens it and throws at set_option, which nobody catches.         *)
Throw_Caught ==
  /\ Attaching("produce")
  /\ dataProducer' = portName /\ held' = portName
  /\ UNCHANGED <<vars, windows>>
Throw ==
  /\ Attaching("terminated")
  /\ dataProducer' = portName /\ held' = portName
  /\ UNCHANGED <<vars, windows>>

NoButton == At("buttons", "produce") /\ UNCHANGED <<vars, windows, control>>

(* produce dispatches what arrived; only then do the other panels render.  *)
Produce ==
  /\ pc = "produce" /\ dataProducer # Null
  /\ \E k \in Keys, v \in Values : Consumed(k, v)
  /\ UNCHANGED <<pc, windows, control>>

Produced == At("produce", "telemetry") /\ UNCHANGED <<vars, windows, control>>

-----------------------------------------------------------------------------
(* TelemetryPanel::render; a file that does not open returns before End.   *)
RenderTelemetry ==
  /\ At("telemetry", "others")
  /\ Render \/ StopSaving \/ SaveFile
  /\ windows' = Closed(Opened("Telemetry"))
  /\ UNCHANGED control

RenderTelemetryFails ==
  /\ At("telemetry", "others")
  /\ SaveFails
  /\ windows' = Opened("Telemetry")
  /\ UNCHANGED control

RenderOthers ==
  /\ At("others", "end")
  /\ windows' = Closed(Append(Closed(Opened("Alert")), "Live Data"))
  /\ UNCHANGED <<vars, control>>

(* main ends one window; of those still open ImGui's Render asserts that   *)
(* there is none, or ends them where assertions are compiled out.          *)
EndDocking ==
  /\ At("end", "render") /\ windows' = Closed(windows)
  /\ UNCHANGED <<vars, control>>

Rendered ==
  /\ At("render", "begin") /\ windows' = <<>>
  /\ UNCHANGED <<vars, control>>

Asserts ==
  /\ At("render", "aborted") /\ windows # <<>>
  /\ UNCHANGED <<vars, windows, control>>

-----------------------------------------------------------------------------
FrameInit ==
  /\ Init
  /\ pc = "begin" /\ windows = <<>>
  /\ availablePorts = <<>> /\ selectedPortIndex = 0
  /\ dataProducer = Null /\ held = Null

ControlPanelRender ==
  \/ RefreshPorts \/ KeepPorts \/ PickPort \/ KeepPick
  \/ Detach \/ Attach \/ AttachFails \/ Throw \/ NoButton
  \/ Produce \/ Produced

FrameNext ==
  \/ BeginFrame \/ Close
  \/ ControlPanelRender
  \/ RenderTelemetry \/ RenderTelemetryFails \/ RenderOthers
  \/ EndDocking \/ Rendered \/ Asserts

FrameSpec == FrameInit /\ [][FrameNext]_frameVars

Running == pc \notin {"closed", "terminated", "aborted"}

FrameTypeOK ==
  /\ availablePorts \in Seq(Ports) /\ selectedPortIndex \in Nat
  /\ {dataProducer, held} \subseteq Ports \union {Default, Null}
  /\ windows \in Seq({"DockSpace Demo", "Control Panel", "Telemetry", "Alert", "Live Data"})

-----------------------------------------------------------------------------
(* The combo reads availablePorts[selectedPortIndex] (ControlPanel.cpp:23) *)
(* in every frame, the index is corrected only in one that lists: it is    *)
(* in range whatever ports vanished, and in whatever order they are found. *)
IndexInRange == availablePorts # <<>> => selectedPortIndex < Len(availablePorts)

(* A frame the program lives to draw has one producer with its port open   *)
(* while it shows Detach, and neither while it shows Attach: also after a  *)
(* start that failed half way, and after any number of attachments.        *)
PortIffAttached ==
  Running => /\ attached <=> dataProducer # Null
             /\ held = dataProducer

(* Detach finds TelemetryConsumer drained, and nothing is dispatched while *)
(* detached: the loop's order of panels gives TelemetryPanel.tla all that  *)
(* its Stop and its Consume assume.                                        *)
PanelAsAssumed == Spec

(* At the end of a frame the only window a panel can have left open is     *)
(* TelemetryPanel's.                                                       *)
OnlyTelemetryLeftOpen ==
  pc = "end" => windows \in {<<"DockSpace Demo">>, <<"DockSpace Demo", "Telemetry">>}

(* main.cpp:219, over the loop's End: "end docking".                       *)
EndsDocking ==
  [][EndDocking => Last(windows) = "DockSpace Demo"]_frameVars
=============================================================================
