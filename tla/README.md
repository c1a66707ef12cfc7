# Houston, specified

TLA+ models of Houston, a desktop dashboard for microcontrollers, and of the firmware library it talks to.
The modules are translated from the source; line numbers are those of the repository (`src/...` is its own `src/`).

## 1. Inventory

| Component | State | Operations | Hard part |
|---|---|---|---|
| `producer/SerialProducer.h` | `rx_queue_` (shared, `rx_mutex_`), `tx_queue_`, handlers posted to `io_context_`, one read and one write under way | `start`, `stop`, `produce`, `send_data` (UI thread); read and write handlers (io thread) | two threads, asynchronous completions, errors, a bounded queue, join |
| `dashboard/COBS.c` | indices and buffers, a static output buffer | `cobs_encode`, `cobs_decode` (in place) | boundaries: full blocks, full buffers, noise |
| `dashboard/Dashboard.c`, receiving | `packetStatus`, `rxBuffer`, `liveDataBuffer`, `liveDataPtr` | `Dashboard_Update`, `processPacket`, `Dashboard_Register_LiveData` | a byte stream without delimiters; losses, corruption, phantom headers |
| `dashboard/Dashboard.c`, sending | `alertBuffer`, `alertBufferCOBS` | `Dashboard_Alert`, `Dashboard_Telemetry_*`, `copyData` | a host that starts to listen anywhere, two checksums for one message, static buffers, missing length checks |
| `Dispatcher.h` | `txData`, handler map | `dispatchData`, `sendData`, `getTxData`, `getHandler` | a chain of size and checksum tests at their limits; outlives sessions; null handler |
| `components/ControlPanel.cpp` | `isEnable`, `dataProducer`, ports | listing and choosing a port, Attach, Detach, per-frame `produce`/`send_data` | ports that vanish, an Attach that fails or throws half way; what survives a Detach |
| `components/LiveDataPanel.cpp`, `consumer/LiveDataConsumer.h` | `liveDataMap`, `intMap`, `floatMap` | `refreshPackets`, `sendModifyPacket`, `render` | stale responses, id widths |
| `components/TelemetryPanel.cpp`, `consumer/TelemetryConsumer.h` | `telemetryMap`, CSV file and columns | `start`, `render`, `stop` | saving across stop; a failed open leaves a window open |
| `components/AlertPanel.cpp`, `consumer/AlertConsumer.h` | `alerts` | `render`, `stop` | none of its own |
| `main.cpp` | the list of components, ImGui's stack of windows | the frame loop | the order of the panels |
| `Util.h` | | `getAvailablePorts`; `ScrollingBuffer` is unused | a listing is stale at once |
| build files, workflow | | | not modelled |

How they interact. Each frame `main` renders ControlPanel, TelemetryPanel, AlertPanel and LiveDataPanel, in this order and on one
thread. ControlPanel, when attached, calls `produce` (received frames → `Dispatcher::dispatchData` → the consumer of their
type) and `send_data` (`Dispatcher::txData` → the producer). Panels drain their consumer and queue packets with
`Dispatcher::sendData`. The io thread moves bytes between the port and the producer's two queues. On the other side the
firmware's main loop calls `Dashboard_Update`. Frames to the host are COBS-encoded and end with a zero; packets to the firmware
are neither.

What makes each correct: the producer loses, duplicates and reorders nothing except a frame dropped at a full queue, and `stop`
returns; COBS gives back what it was given and stays in its buffers; the receiver lets only packets take effect that the host
sent, in order; a panel shows what the open session brought; a modify changes the variable the user clicked.

## 2. Modules and plan

| Module | Models | Kind |
|---|---|---|
| `SerialLink` | what one attachment promises: two FIFO directions, discard only when full | abstract specification |
| `SerialProducer` | `SerialProducer.h` with both threads | state machine, refines `SerialLink` |
| `SerialProducerProofs`, `SerialLinkProofs` | its invariants and action properties; the refinement | proofs |
| `Cobs`, `CobsProofs` | `COBS.c`, one action per loop iteration | state machine and proofs |
| `Uplink` | messages of the firmware to the consumers: `Dashboard.c`'s sending half, the line, `async_read_until`, `dispatchData` | state machine over bytes |
| `UplinkProofs` | what consumers get, for every size | proofs |
| `Receiver` | what the firmware promises LiveDataPanel: submitted packets take effect in order, each at most once, with their own effect | abstract specification |
| `Dashboard` | the receiving half of `Dashboard.c` and the line from the host, byte by byte | state machine, refines `Receiver` |
| `DashboardProofs`, `ReceiverProofs` | its invariants; the refinement | proofs |
| `Houston` | panels, sessions, dispatcher queues, firmware with whole packets | composition, refines `Receiver` |
| `HoustonProofs` | its invariants; the refinement | proofs |
| `Maps` | the panels' maps as functions, one laid over another | operators |
| `TelemetryPanel` | table and CSV file | state machine |
| `Frame` | main's loop, ControlPanel's ports and Attach, ImGui's windows, around `TelemetryPanel` | composition, refines `TelemetryPanel` |
| `FrameProofs` | its invariants, the refinement, the CSV rows | proofs |
| `MC...` | the constants of the TLC runs | |

The two ends meet in `Receiver`: `Dashboard` shows that bytes on a bad line make it, `Houston` that sessions, hand-overs and clicks
make it. In the other direction the chain is `Cobs` (a message is decoded to itself), `Uplink` (which messages get through),
`SerialProducer` (frames reach `dispatchData` in order), `Houston` and `Frame` (what the panels make of them).

Order followed: the producer first (all concurrency is there), then the codec, the firmware's receiver, the session level, the
CSV file, the abstract receiver, the frame loop, the way up, the proofs of the session level and of the codec for every size. Left for later: several `Dashboard_t` over the shared
static buffers.

## 3. Correspondence with the code

**SerialProducer.** `ui` and `io` are the two program counters. A critical section is cut into lock, body, unlock; the swap
of `produce` (line 77) has two halves, so a missing lock would show. A handler that runs alone on the io thread and touches only
that thread's state is one action (`RunPosted`, `WriteDone`, `WriteError`); the read handler, which takes the lock, is
several. Frames and packets are numbers in order of appearance. `Start` is the successful `start`; a failed one changes nothing and
ControlPanel deletes the object. A producer is never restarted: ControlPanel deletes it after `stop`, which is the
end of the model's life.

**Cobs.** `dest` starts with any contents of `StaleBuffers`, because `alertBufferCOBS` is static. `MaxCode` is 0xFF and
`BufSize` is `kAlertBufSize`. The decoder also gets noise: any nonzero bytes up to a delimiter.

**Uplink.** A byte is known by the message and offset it was sent as; what the line corrupts or loses is in `damaged`. A message on
the line is COBS's code byte, header, payload, tail and the zero: the code shifts each byte by one, which `Cobs` shows of messages
shorter than a block. `BigEnough`, `HeaderOf`, `SizeMatches` and `PayloadOf` are the tests of `dispatchData` in their order. `Reject`
may also happen to a piece that is no whole message, because a damaged code byte may fail the decoding. A checksum holds for the
bytes it was computed of and no others; `sendData` returns when the message has left.

**Dashboard.** A byte on the line is `[pkt, off, byte]`: whose byte it is, and whether the line zeroed or garbled it. A header
window is valid when it is a sent header unharmed, or twelve zeros (both CRCs start from 0). Other coincidences of a CRC are
taken not to happen. `Dashboard_Update` is cut where `hasData` is asked a second time, since bytes arrive in between; registration
happens between calls only, from the same main loop. The sizes are scaled to 6 : 4 : 2 for header, `LiveDataPacket_t` and tail,
which keeps that a modify's payload and tail are one header long. The commentary the firmware sends while it
receives (alerts, CRC values) has no effect on the receiver and is left out. `Oversized` is a packet no panel sends; it
exercises the "too large" branch, which the library has for other hosts. What the firmware's own program does to its variables is
outside the repository and left out.

**Receiver.** `queue` holds the packets that may still take effect, `memory` the registered variables. `Take(k)` drops those
before `k`. A modify may leave out variables of its id if the id also names variables of another type: `processPacket` returns
at the first type it cannot write. The refinement of `Dashboard` maps `queue` to the packets sent after the last one processed;
that of `Houston` maps it to `toDevice \o txData`.

**Houston.** `pc` is the next step of the frame. `ControlPanel::render` is cut where it meets the producer: the swap of `produce`,
each frame it dispatches (`batch` holds those still to come) and `send_data` are actions of their own, between which frames arrive,
packets leave and some are lost. The other panels' `render` is atomic, since only the producer shares data with another thread.
`rx` and `toDevice` are the producer with its port, as `SerialLink` gives
them, plus bounded losses (damaged or refused frames and packets). Firmware packets are handled whole. A click on a
variable is one of `Edit`, `Apply`, `Toggle`; ImGui activates one widget per frame. The request number in a response, the session
in a frame, `clicked` in a modify and `oldest` are history, used by properties only. Dereferencing a null field ends the program (`pc =
"crashed"`).

**TelemetryPanel.** `dataMap` is a variable although nothing fills it, because the columns are read from it. Only the last header
line and the last row of the file are kept. `knownAtSave` is history. `Stop` needs an empty queue and `Consume` an attached panel: both
come from the loop's order of panels, and `Frame`'s `PanelAsAssumed` shows that the loop gives them.

**Frame.** `pc` walks through one turn of `main`'s loop. `windows` is ImGui's stack of `Begin`s without `End`. A listing is any
sequence of ports without repetition, drawn anew each time: `availablePorts` says nothing of the ports there are when `start` opens
one. `dataProducer` is the port its producer was given, `held` the one the process has open; they differ in a step of
`ControlPanel::render` that is half done. `Throw` is `set_option` on a device that refuses: nothing catches it, so the program ends.
A frame that ends with a window open runs into ImGui's assertion (`Asserts`).

## 4. Runs

| Run | Question | Bounds |
|---|---|---|
| `SerialProducer` | order, loss, single write, errors, refinement of `SerialLink`; `stop` returns, packets leave, frames are dispatched | capacity 2, 4 frames, 3 packets: the queue fills and overflows while a batch is dispatched |
| `Cobs` | round trip, delimiter, indices, refusal, arrival | blocks of 2, messages to 5 bytes, noise to 5: every position of zeros, full blocks and ends |
| `DashboardLine` | what takes effect, grid of reads, refinement of `Receiver` | 3 packets of 3 kinds, one byte lost or corrupted anywhere |
| `DashboardVariables` | responses are current | 3 packets of 6 kinds, 2 of 3 variables, two share an id |
| `DashboardArrival` | intact packets are processed | 3 packets, one fault: the damaged one may be first, middle or last |
| `HoustonSessions` | sessions, order, refresh | 2 sessions, 3 packets, one loss, one frame by itself, one edit, an id beyond a byte |
| `HoustonLiveness` | applied values and refreshes arrive; refinement of `Receiver`; no null field | 2 sessions, 4 packets, no loss |
| `HoustonWideIds` | **violated**: modify names the clicked variable | ids 1 and 5, a "byte" holding 4 |
| `Frame` | index, port and Detach, windows, rows, latest value, refinement of `TelemetryPanel` | 2 ports and a default, 2 keys, 2 values, 2 waiting |
| `FrameWindows` | **violated**: the loop's last `End` ends the dock space | the same |
| `TelemetryCsv` | **violated**: rows hold the data | 2 keys, 2 values, 3 waiting |
| `Uplink` | what consumers get, that the stream is found again | 3 messages of 4 kinds, one byte corrupted or one run lost, listening from anywhere |

Three packets or messages are enough where one must be damaged, one must be cut wrongly because of it and a later one must
recover. Two sessions are enough for anything left over from the one before. Two ports are enough for a list to become shorter,
empty and reordered. `Cobs` runs with blocks shorter than a message, which the firmware's buffer (100 bytes, blocks of 254)
excludes; the firmware's case is the one that is proved. Deadlock is checked everywhere except where the program
really ends, by a crash, an assertion or its window (`HoustonSessions`, `HoustonWideIds`, `Frame`, `FrameWindows`), and where
the firmware has said all it has to say (`Uplink`).

What they show. Everything not marked as violated holds. Four facts about the code are worth knowing, three of them as findings:

* `sendModifyPacket` takes the id as `uint8_t`. With ids above 255 the modify names another variable, or a null field is
  dereferenced. The README's packet format has two bytes for the name.
* The CSV file never holds data: its columns come from `dataMap`, which only commented-out code filled. The README strikes
  the feature off its list.
* When the CSV file does not open, `TelemetryPanel::render` returns between `Begin` and `End`. The panels after it balance, so the
  `End` that `main.cpp:219` calls "end docking" ends the Telemetry window and the dock space stays open. `OnlyTelemetryLeftOpen`
  shows that it is the only such path.
* `Aligned`: all reads of the receiver are multiples of four bytes, so once a byte is lost on the way to the firmware,
  it never takes another packet. It is a property that holds, not a contradiction to any document.

`IntactArrive` names exactly when a damaged byte costs more than its packet (`Misframed`). `ErrorsAreFinal` says that after an I/O
error the direction is dead until Detach while `status` stays true. `OnlyErrorsStall` is its converse: nothing but an error ends the
chain of writes or of reads, since every completion starts the next operation itself. `ConsumedAsSent` names the one way in which a
consumer gets what was never sent as one message: the header of one and the payload of another of its size, when the line lost all
between them; no checksum covers both.

## 5. Fairness

* UI steps: weak. The render loop runs while the window is open. No user action (attach, click, detach) is ever assumed.
* io thread: strong for the read handler's steps, posted handlers and write completions. `io_context` runs ready handlers in order,
  and the UI holds `rx_mutex_` for a swap only, once per vertical sync. The port's reads are not fair: the device may be silent. A
  write completes or fails.
* COBS: both functions are loops that run to their return.
* Firmware: weak on `Dashboard_Update` (its main loop) and on a byte already sent arriving, being lost or being corrupted.
* `Houston`: weak on the frame loop and on the firmware taking packets.
* `Uplink`: weak on bytes that leave arriving (`sendData` sends what it was given), and on dispatching, which every frame does.
* `Frame`: none; it states no liveness.

## 6. Proofs

`SerialProducerProofs` proves, for every capacity above zero and every number of frames and packets:
`TypeCorrect`, `SingleWriteAlways`, `TxInOrderAlways`, `RxInOrderAlways`, `ErrorsAreFinalAlways`,
`OnlyErrorsStallAlways`. The first two are proved together
(`TypedWrites`): a completion appends to `written` only a packet whose type `SingleWrite` fixes. `TxInOrder` is inductive with them. `RxInOrder` is not: it
needs who holds the lock at which place (`LockHeld`), that a batch exists only while one is being dispatched (`BatchShape`), and
that accepted numbers are not ahead of the port (`AcceptedTaken`). Action properties follow from the same invariants. Assumptions:
`CapacityAssumption`, `BoundsAssumption`.

`SerialLinkProofs` proves `ImplementsLinkAlways`: every step of the two threads is a step of `SerialLink` or a stutter, in the
states `SerialProducerProofs` allows, strengthened by `ExitedWhenStopped` (nothing is dispatched or written once `stop` has returned).

`CobsProofs` proves every safety property of `Cobs` for every code size, buffer size, message, noise and stale contents:
`TypeCorrect`, `InPlaceAlways`, `RoundTripAlways`, `OnlyFullBufferRefusedAlways`, `DelimitedOnceAlways`. The invariant `Trip` says
that there is a set of places of codes in the frame (`codes`) and, for each, the byte of the message with which its block begins
(`org`); a block but the last is closed by a zero of the message or is full (`Closed`), and it begins after a row of nonzero
bytes whose length is a multiple of a full block (`Opens`). So the zeros the decoder leaves out are those of `LosesZero` exactly
(`ZeroBehindBlock`): its output is the message, or shorter (`Output`). `Overhead` counts the codes of full blocks: there are at most
`BufSize \div (MaxCode - 1)`, which `kAlertBufCOBSize` allows for, so only the delimiter can lack space (`Space`). Assumption: `SizeAssumption`.

`DashboardProofs` proves, for every size of header and tail, every set of packets and variables and any number of faults,
`TypeCorrect`, `AlignedAlways`, `RepliesCurrentAlways` and, under `ShortGaps`, `OnlyAsSentAlways`. `ShortGaps` bounds the damaged
bytes by the size of a payload with its tail: without a limit, a loss from one payload to the next header joins the header of one modify
to the payload of another. The inductive
invariant has four parts. `LineInv`: bytes on the line keep the order and spacing in which they were sent, none missing between two of
them unless damaged, and reads stay on the grid of `Unit` bytes. `HeldInv`: while a header is held, the line continues
behind it. `TakenInv`: processed packets have rising numbers and lie behind the header that is held. `CurrentInv`: each variable in memory holds the
value of the last modify processed since it was registered. Assumptions: `SizeAssumption`, `PacketsAssumption` (payloads are whole
`LiveDataPacket_t`s).

`ReceiverProofs` proves `ImplementsReceiverAlways` from these, under `ShortGaps` and `LivePackets` (only requests and modifies with a
payload are sent, which is what LiveDataPanel does): the register step, the send step and the processing step are the abstract
ones, every other step stutters.

`HoustonProofs` proves `TypeCorrect`, `InOrderOnceAlways`, `ShownThisSessionAlways`, `RefreshForgetsAlways` and
`ImplementsReceiverAlways`, for every bound and every set of variables, values and keys; and `NoCrashAlways` and
`NamesVariableAlways` under `IdsFit`: no registered id is too wide for a byte. `HoustonWideIds` shows that `NamesVariable` fails
without that hypothesis, so it is exactly what the finding is about. Two invariants carry the proofs:

* `OrderInv`: the numbers in `toDevice \o txData` rise and lie above `taken` and at most at `number`. Each step is reduced to one of
  five changes of these queues (kept, handed over, one queued, cut off by Detach, the first one gone), and two lemmas show that they
  keep the order. The refinement reuses the five: they are the abstract receiver's stutter, submit, loss and take.
* `HoustonInv`: what there is, relative to the registered variables, the session and `oldest`. None of its parts is inductive alone.
  *Received* frames and what the panels keep of them carry the open session (`Telemetries`, `Alerts`, `Replies`), because there is
  nothing of them while none is open (`Closed`); that needs `Drained`, which panel's queue is empty where in the frame, since Detach
  does not touch the consumers. *Requests* and responses under way have numbers from `oldest` on, which Refresh resets to the least
  one still open. *Snapshots*: a response holds variables that are still registered with their types, so that the fields on the panel
  always agree with the firmware's types (`FieldsFit`); with it, a field of a bool is 0 or 1 and the checkbox's `1 - x` is a value.
  *Sent* packets name a registered variable, through its own id or one that is equal to it in a byte.

`SelectInSeq` and `SelectLastInSeq` choose least and greatest indices; that these exist is `LeastOf` and `GreatestOf`, from the
well-foundedness of the order on `Nat`. Assumption: `HoustonAssumption` (ids are numbers, a byte holds some).

`UplinkProofs` proves `TypeCorrect` and `ConsumedAsSentAlways`, for every size of header, tail and messages and any number of faults. The
invariant looks at all pieces that wait, the one being read included: the positions of their bytes rise over all pieces (`Rising`), what
was sent between two neighbours of a piece is damaged (`Gaps`, `LastGap`), and what was consumed lies before all that waits (`Consumed`).
Steps are reduced to a few kinds, which move pieces and append at most one byte (`Traced`). Assumption: `UplinkAssumption`.

`FrameProofs` proves `TypeCorrect`, `IndexInRangeAlways`, `PortIffAttachedAlways` (by `NullAssumption`: no port is the null pointer),
`OnlyTelemetryLeftOpenAlways` (which windows are open where), `PanelAsAssumedAlways` and, through that refinement,
`RowFitsHeaderAlways` and the action property `LatestShownAlways`, which needs of `Spec` that the queue is typed and that of the steps
that empty it only those that draw have anything to drain.

Model-checked only: all liveness (`StopReturns`, `PacketLeaves`, `FrameDispatched`, `Arrives`, `IntactArrive`, `WholeConsumed`,
`AppliedReaches`, `RefreshShows`: beyond the prover, as ENABLED is). Induction over recursive data is beyond it too; the modules
that carry proofs have no recursive operators.

## 7. Not modelled

Widgets and number formatting; setting up the window, fonts and OpenGL; `ScrollingBuffer` (unused); the arithmetic of the CRCs;
messages longer than `alertBuffer`, which overrun it before any length is checked (`UplinkAssumption` excludes them); a `sendData` that
returns before `alertBufferCOBS` may be reused (the firmware's callback); a frame type without a handler, whose null handler is called;
several `Dashboard_t` sharing the static buffers; the build files. Each is a component note or a hazard with its reason.
