--------------------------- MODULE SerialProducer ---------------------------
(***************************************************************************)
(* src/producer/SerialProducer.h: one producer object, from its creation   *)
(* by ControlPanel::render to the end of its stop(), with the two threads  *)
(* that touch it.                                                          *)
(*                                                                         *)
(* The UI thread runs ControlPanel::render once per frame: produce() takes *)
(* the received frames under rx_mutex_ and dispatches them, send_data()    *)
(* posts the dispatcher's outgoing packets to io_context_, then the other  *)
(* panels run and may queue more. The io thread runs the handlers of       *)
(* io_context_ one at a time: posted writes, write completions and read    *)
(* completions.                                                            *)
(*                                                                         *)
(* Frames and packets are numbered in the order they appear, so a number   *)
(* names one frame, and losses, duplicates and reorderings are visible.    *)
(***************************************************************************)
EXTENDS Naturals, Sequences

CONSTANTS
  RX_CAPACITY,  \* frames rx_queue_ may hold (1024 in the source)
  MaxFrames,    \* bound: frames the port delivers
  MaxSends      \* bound: packets the panels queue

ASSUME CapacityAssumption == RX_CAPACITY \in Nat \ {0}
ASSUME BoundsAssumption   == MaxFrames \in Nat /\ MaxSends \in Nat

VARIABLES
  ui,           \* where the UI thread is
  io,           \* where the io thread is
  stopRequested,\* io_context_.stop() was called
  rx_mutex_,    \* holder of the mutex: "free", "ui" or "io"
  reading,      \* an async_read_until is outstanding on serial_
  taken,        \* number of frames the io thread has taken from the port
  rx_queue_,    \* received frames, shared by both threads
  batch,        \* the frames produce() has swapped out
  txData,       \* Dispatcher::txData, only touched by the UI thread
  next,         \* position of send_data()'s loop: packets posted this round
  posted,       \* handlers posted to io_context_ that have not run
  tx_queue_,    \* packets to write, only touched by the io thread
  inflight,     \* buffers handed to async_write and not completed
  accepted,     \* history: frames pushed to rx_queue_
  dispatched,   \* history: frames given to Dispatcher::dispatchData
  written,      \* history: packets whose write completed
  sent          \* history: number of packets given to Dispatcher::sendData

rxVars   == <<rx_mutex_, taken, rx_queue_, batch, accepted, dispatched>>
txVars   == <<txData, next, posted, tx_queue_, inflight, written, sent>>
vars     == <<ui, io, stopRequested, reading, rxVars, txVars>>

UIPlaces ==
  {"detached",  \* dataProducer is null or not started
   "frame",     \* ControlPanel::render, about to act on the Detach button
   "produce",   \* about to call produce()
   "swap",      \* in produce(), rx_mutex_ held, before the swap
   "swapping",  \* in produce(), in the middle of batch.swap(rx_queue_)
   "dispatch",  \* in produce(), looping over batch
   "send",      \* in send_data(), looping over txData
   "panels",    \* the other panels render
   "joining",   \* in stop(), waiting for background_thread_
   "stopped"}   \* stop() has returned; ControlPanel deletes the object

IOPlaces ==
  {"off",       \* background_thread_ not started
   "run",       \* in io_context_.run(), between two handlers
   "received",  \* in the read handler, a frame extracted, no lock yet
   "push",      \* in the read handler, rx_mutex_ held
   "rearm",     \* in the read handler, about to call start_read()
   "exited"}    \* io_context_.run() has returned

Init ==
  /\ ui = "detached" /\ io = "off"
  /\ stopRequested = FALSE /\ rx_mutex_ = "free" /\ reading = FALSE
  /\ taken = 0
  /\ rx_queue_ = <<>> /\ batch = <<>> /\ accepted = <<>> /\ dispatched = <<>>
  /\ txData = <<>> /\ next = 0 /\ sent = 0
  /\ posted = <<>> /\ tx_queue_ = <<>> /\ inflight = <<>> /\ written = <<>>

-----------------------------------------------------------------------------
(* The UI thread.                                                          *)

(* start(): the port opens, the first read is issued, the thread starts.   *)
(* A start() that fails returns before it changes anything.                *)
Start ==
  /\ ui = "detached"
  /\ reading' = TRUE
  /\ io' = "run"
  /\ ui' = "produce"
  /\ UNCHANGED <<stopRequested, rxVars, txVars>>

(* A frame in which the Detach button is not pressed.                      *)
KeepAttached ==
  /\ ui = "frame"
  /\ ui' = "produce"
  /\ UNCHANGED <<io, stopRequested, reading, rxVars, txVars>>

(* produce() takes the lock.                                               *)
ProduceLock ==
  /\ ui = "produce"
  /\ rx_mutex_ = "free"
  /\ rx_mutex_' = "ui"
  /\ ui' = "swap"
  /\ UNCHANGED <<io, stopRequested, reading, taken, rx_queue_, batch,
                 accepted, dispatched, txVars>>

QueueEmpty_AllButOne == Len(rx_queue_) <= 1
QueueEmpty == rx_queue_ = <<>>

(* produce() finds the queue empty, and returns.                           *)
ProduceEmpty ==
  /\ ui = "swap"
  /\ QueueEmpty
  /\ rx_mutex_' = "free"
  /\ ui' = "send"
  /\ UNCHANGED <<io, stopRequested, reading, taken, rx_queue_, batch,
                 accepted, dispatched, txVars>>

(* batch.swap(rx_queue_) in its two halves, and the unlock.                *)
SwapOut ==
  /\ ui = "swap"
  /\ ~QueueEmpty
  /\ batch' = rx_queue_
  /\ ui' = "swapping"
  /\ UNCHANGED <<io, stopRequested, reading, rx_mutex_, taken, rx_queue_,
                 accepted, dispatched, txVars>>

SwapIn ==
  /\ ui = "swapping"
  /\ rx_queue_' = <<>>
  /\ rx_mutex_' = "free"
  /\ ui' = "dispatch"
  /\ UNCHANGED <<io, stopRequested, reading, taken, batch, accepted,
                 dispatched, txVars>>

(* The loop of produce() over the batch.                                   *)
Dispatch ==
  /\ ui = "dispatch"
  /\ batch # <<>>
  /\ dispatched' = Append(dispatched, Head(batch))
  /\ batch' = Tail(batch)
  /\ UNCHANGED <<ui, io, stopRequested, reading, rx_mutex_, taken, rx_queue_,
                 accepted, txVars>>

DispatchEnd ==
  /\ ui = "dispatch"
  /\ batch = <<>>
  /\ ui' = "send"
  /\ UNCHANGED <<io, stopRequested, reading, rxVars, txVars>>

(* The loop of send_data(): each packet is copied into a posted handler.   *)
PostPacket ==
  /\ ui = "send"
  /\ next < Len(txData)
  /\ posted' = Append(posted, txData[next + 1])
  /\ next' = next + 1
  /\ UNCHANGED <<ui, io, stopRequested, reading, rxVars, txData, tx_queue_,
                 inflight, written, sent>>

SendDataEnd_Early ==
  /\ ui = "send"
  /\ txData' = <<>>
  /\ next' = 0
  /\ ui' = "panels"
  /\ UNCHANGED <<io, stopRequested, reading, rxVars, posted, tx_queue_,
                 inflight, written, sent>>

SendDataEnd_NotCleared ==
  /\ ui = "send"
  /\ next = Len(txData)
  /\ next' = 0
  /\ ui' = "panels"
  /\ UNCHANGED <<io, stopRequested, reading, rxVars, txData, posted, tx_queue_,
                 inflight, written, sent>>

SendDataEnd ==
  /\ ui = "send"
  /\ next = Len(txData)
  /\ txData' = <<>>
  /\ next' = 0
  /\ ui' = "panels"
  /\ UNCHANGED <<io, stopRequested, reading, rxVars, posted, tx_queue_,
                 inflight, written, sent>>

(* Dispatcher::sendData, called by a panel: while the panels render, or    *)
(* with nothing attached (Refresh works there too).                        *)
SendData ==
  /\ ui \in {"panels", "detached"}
  /\ sent < MaxSends
  /\ txData' = Append(txData, sent + 1)
  /\ sent' = sent + 1
  /\ UNCHANGED <<ui, io, stopRequested, reading, rxVars, next, posted,
                 tx_queue_, inflight, written>>

PanelsEnd ==
  /\ ui = "panels"
  /\ ui' = "frame"
  /\ UNCHANGED <<io, stopRequested, reading, rxVars, txVars>>

(* The Detach button calls stop(): io_context_.stop(), then join ...       *)
Stop_JoinOnly ==
  /\ ui = "frame"
  /\ ui' = "joining"
  /\ UNCHANGED <<io, stopRequested, reading, rxVars, txVars>>

Stop ==
  /\ ui = "frame"
  /\ stopRequested' = TRUE
  /\ ui' = "joining"
  /\ UNCHANGED <<io, reading, rxVars, txVars>>

(* ... and once the thread is gone the port is closed, which cancels the   *)
(* outstanding read and write without running their handlers.              *)
StopJoined ==
  /\ ui = "joining"
  /\ io = "exited"
  /\ reading' = FALSE
  /\ inflight' = <<>>
  /\ ui' = "stopped"
  /\ UNCHANGED <<io, stopRequested, rxVars, txData, next, posted, tx_queue_,
                 written, sent>>

-----------------------------------------------------------------------------
(* The io thread. io_context_.run() starts no handler once it is stopped.  *)

BetweenHandlers == io = "run" /\ ~stopRequested

(* The read handler with a frame: extracts it up to the delimiter.         *)
ReadFrame ==
  /\ BetweenHandlers
  /\ reading
  /\ taken < MaxFrames
  /\ reading' = FALSE
  /\ taken' = taken + 1
  /\ io' = "received"
  /\ UNCHANGED <<ui, stopRequested, rx_mutex_, rx_queue_, batch, accepted,
                 dispatched, txVars>>

(* The read handler with two delimiters in a row: the empty frame is       *)
(* skipped.                                                                *)
ReadEmpty ==
  /\ BetweenHandlers
  /\ reading
  /\ reading' = FALSE
  /\ io' = "rearm"
  /\ UNCHANGED <<ui, stopRequested, rxVars, txVars>>

(* The read handler with an error: no further read is issued.              *)
ReadError ==
  /\ BetweenHandlers
  /\ reading
  /\ reading' = FALSE
  /\ UNCHANGED <<ui, io, stopRequested, rxVars, txVars>>

PushLock_Unguarded ==
  /\ io = "received"
  /\ rx_mutex_' = "io"
  /\ io' = "push"
  /\ UNCHANGED <<ui, stopRequested, reading, taken, rx_queue_, batch,
                 accepted, dispatched, txVars>>

(* The read handler waits for the lock.                                    *)
PushLock ==
  /\ io = "received"
  /\ rx_mutex_ = "free"
  /\ rx_mutex_' = "io"
  /\ io' = "push"
  /\ UNCHANGED <<ui, stopRequested, reading, taken, rx_queue_, batch,
                 accepted, dispatched, txVars>>

HasRoom_Always  == TRUE
HasRoom_OneLess == Len(rx_queue_) + 1 < RX_CAPACITY
HasRoom == Len(rx_queue_) < RX_CAPACITY

(* The frame enters rx_queue_ if there is room, and is dropped otherwise.  *)
Push ==
  /\ io = "push"
  /\ \/ /\ HasRoom
        /\ rx_queue_' = Append(rx_queue_, taken)
        /\ accepted' = Append(accepted, taken)
     \/ /\ ~HasRoom
        /\ UNCHANGED <<rx_queue_, accepted>>
  /\ rx_mutex_' = "free"
  /\ io' = "rearm"
  /\ UNCHANGED <<ui, stopRequested, reading, taken, batch, dispatched, txVars>>

(* start_read() at the end of the read handler.                            *)
StartRead ==
  /\ io = "rearm"
  /\ reading' = TRUE
  /\ io' = "run"
  /\ UNCHANGED <<ui, stopRequested, rxVars, txVars>>

WriteInProgress_Never    == FALSE
WriteInProgress_InFlight == inflight # <<>>
WriteInProgress == tx_queue_ # <<>>

(* start_write(): a buffer on the front of the queue goes to async_write.  *)
StartWrite(buffers, queue) == Append(buffers, Head(queue))

(* A posted handler: queues its packet, and starts a write if the queue    *)
(* was empty.                                                              *)
RunPosted ==
  /\ BetweenHandlers
  /\ posted # <<>>
  /\ posted' = Tail(posted)
  /\ tx_queue_' = Append(tx_queue_, Head(posted))
  /\ inflight' = IF WriteInProgress THEN inflight
                 ELSE StartWrite(inflight, tx_queue_')
  /\ UNCHANGED <<ui, io, stopRequested, reading, rxVars, txData, next,
                 written, sent>>

ContinueWriting_Never(buffers, queue) == buffers
ContinueWriting(buffers, queue) ==
  IF queue = <<>> THEN buffers ELSE StartWrite(buffers, queue)

(* The write handler without error: the next packet is started.            *)
WriteDone ==
  /\ BetweenHandlers
  /\ inflight # <<>>
  /\ written' = Append(written, Head(inflight))
  /\ tx_queue_' = Tail(tx_queue_)
  /\ inflight' = ContinueWriting(Tail(inflight), tx_queue_')
  /\ UNCHANGED <<ui, io, stopRequested, reading, rxVars, txData, next,
                 posted, sent>>

(* The write handler with an error: the packet stays at the front of       *)
(* tx_queue_ and no write is started again.                                *)
WriteError ==
  /\ BetweenHandlers
  /\ inflight # <<>>
  /\ inflight' = Tail(inflight)
  /\ UNCHANGED <<ui, io, stopRequested, reading, rxVars, txData, next,
                 posted, tx_queue_, written, sent>>

RunReturns ==
  /\ io = "run"
  /\ stopRequested
  /\ io' = "exited"
  /\ UNCHANGED <<ui, stopRequested, reading, rxVars, txVars>>

-----------------------------------------------------------------------------
(* ControlPanel deletes the object after stop(): nothing happens to it.    *)
Deleted ==
  /\ ui = "stopped"
  /\ UNCHANGED vars

(* What the UI thread does by itself once a producer is attached.          *)
UIStep ==
  \/ KeepAttached \/ ProduceLock \/ ProduceEmpty \/ SwapOut \/ SwapIn
  \/ Dispatch \/ DispatchEnd \/ PostPacket \/ SendDataEnd \/ PanelsEnd
  \/ StopJoined

(* What the user decides.                                                  *)
UserStep == Start \/ Stop \/ SendData

ReadStep  == ReadFrame \/ ReadEmpty \/ ReadError
RxHandler == PushLock \/ Push \/ StartRead
WriteStep == WriteDone \/ WriteError

Next ==
  \/ UIStep \/ UserStep
  \/ ReadStep \/ RxHandler \/ RunPosted \/ WriteStep \/ RunReturns
  \/ Deleted

(* The render loop keeps running while the window is open. io_context_     *)
(* runs ready handlers first come first served, so neither a posted        *)
(* handler nor the completion of a write (the driver completes or fails    *)
(* every write) can be passed over by read handlers for ever, and the UI   *)
(* thread leaves rx_mutex_ free for the rest of each frame, which the      *)
(* vertical sync of main.cpp stretches, so the read handler gets it:       *)
(* strong fairness for these. run() notices a stop. Nothing obliges the    *)
(* device to send, nor the user to click.                                  *)
Fairness ==
  /\ WF_vars(UIStep)
  /\ SF_vars(RxHandler)
  /\ SF_vars(RunPosted)
  /\ SF_vars(WriteStep)
  /\ WF_vars(RunReturns)

Spec     == Init /\ [][Next]_vars
FairSpec == Spec /\ Fairness
-----------------------------------------------------------------------------
(* The types, and the capacity of rx_queue_: however the handlers and      *)
(* produce() interleave, at most RX_CAPACITY frames wait in it.            *)
TypeOK ==
  /\ ui \in UIPlaces /\ io \in IOPlaces
  /\ stopRequested \in BOOLEAN /\ reading \in BOOLEAN
  /\ rx_mutex_ \in {"free", "ui", "io"}
  /\ taken \in 0..MaxFrames /\ sent \in 0..MaxSends /\ next \in Nat
  /\ rx_queue_ \in Seq(Nat) /\ Len(rx_queue_) <= RX_CAPACITY
  /\ batch \in Seq(Nat) /\ accepted \in Seq(Nat) /\ dispatched \in Seq(Nat)
  /\ txData \in Seq(Nat) /\ posted \in Seq(Nat) /\ tx_queue_ \in Seq(Nat)
  /\ inflight \in Seq(Nat) /\ written \in Seq(Nat)

(* No accepted frame is lost, duplicated or overtaken between the io       *)
(* thread and the dispatcher, whatever produce() and the read handler do   *)
(* at the same time: what was dispatched, then the batch, then rx_queue_   *)
(* is what was accepted, in the order it came from the port. During the    *)
(* swap, the batch and rx_queue_ are the same frames.                      *)
InBatch == IF ui = "swapping" THEN 0 ELSE Len(batch)

RxInOrder ==
  /\ Len(accepted) = Len(dispatched) + InBatch + Len(rx_queue_)
  /\ \A i \in 1..Len(dispatched) : dispatched[i] = accepted[i]
  /\ \A i \in 1..Len(batch) : batch[i] = accepted[Len(dispatched) + i]
  /\ \A i \in 1..Len(rx_queue_) :
        rx_queue_[i] = accepted[Len(dispatched) + InBatch + i]
  /\ \A i, j \in 1..Len(accepted) : i < j => accepted[i] < accepted[j]

(* No packet of the panels is lost, duplicated or overtaken on its way     *)
(* from txData through the posted handlers and tx_queue_ to the port: the  *)
(* packets are, in this order, written, queued, posted, and waiting in     *)
(* txData.                                                                 *)
TxInOrder ==
  LET queued == Len(written) + Len(tx_queue_)
      out    == queued + Len(posted) IN
  /\ sent + next = out + Len(txData) /\ next <= Len(txData)
  /\ \A i \in 1..Len(written) : written[i] = i
  /\ \A i \in 1..Len(tx_queue_) : tx_queue_[i] = Len(written) + i
  /\ \A i \in 1..Len(posted) : posted[i] = queued + i
  /\ \A i \in 1..Len(txData) : next + txData[i] = out + i

(* Asio forbids two async_write operations on one port at a time, and the  *)
(* buffer must outlive the write: at most one write is outstanding, and    *)
(* its buffer is the packet still at the front of tx_queue_.               *)
SingleWrite ==
  /\ Len(inflight) <= 1
  /\ inflight # <<>> => tx_queue_ # <<>> /\ Head(inflight) = Head(tx_queue_)

(* A failed write leaves its packet at the front of tx_queue_, a failed    *)
(* read issues no other: from then on, until the user detaches, nothing is *)
(* written, or nothing is received, although status remains true and the   *)
(* panel still offers Detach.                                              *)
WriteStalled == tx_queue_ # <<>> /\ inflight = <<>>
ReadStalled  == io = "run" /\ ~reading

ErrorsAreFinal ==
  [][/\ WriteStalled => WriteStalled' /\ written' = written
     /\ ReadStalled /\ io' # "exited" => ReadStalled' /\ taken' = taken]_vars

(* Nothing but an error stalls a direction: a write that succeeds starts   *)
(* the next one, a packet posted to an empty queue starts the first, and   *)
(* a read handler always issues the next read.  A stall begins with the    *)
(* failed packet still at the front, and between two handlers.             *)
OnlyErrorsStall ==
  [][/\ ~WriteStalled /\ WriteStalled' /\ io # "exited" => tx_queue_' = tx_queue_
     /\ ~ReadStalled /\ ReadStalled' => io = "run"]_vars

(* stop() returns: the UI thread never waits for an io thread that waits   *)
(* for the UI thread, and every handler that has begun can finish.         *)
StopReturns == ui = "joining" ~> ui = "stopped"

(* A packet handed to sendData is written, unless a write fails or the     *)
(* user detaches first.                                                    *)
PacketLeaves ==
  \A p \in 1..MaxSends :
    (ui # "detached" /\ p <= sent)
      ~> (Len(written) >= p \/ WriteStalled \/ stopRequested)

(* An accepted frame is dispatched, unless the user detaches first.        *)
FrameDispatched ==
  \A n \in 1..MaxFrames :
    Len(accepted) >= n ~> (Len(dispatched) >= n \/ stopRequested)

(* The two threads, the lock and the queues implement the abstract link.   *)
Link ==
  INSTANCE SerialLink WITH
    Capacity  <- RX_CAPACITY,
    offered   <- IF io \in {"received", "push"} THEN taken - 1 ELSE taken,
    inbox     <- (IF ui = "swapping" THEN <<>> ELSE batch) \o rx_queue_,
    delivered <- dispatched,
    submitted <- sent,
    outbox    <- tx_queue_ \o posted \o SubSeq(txData, next + 1, Len(txData)),
    written   <- written,
    detached  <- ui = "stopped"

ImplementsLink == Link!Spec
=============================================================================
