----------------------------- MODULE SerialLink -----------------------------
(***************************************************************************)
(* What one attachment of Houston to a serial port promises to the rest of *)
(* the application, with threads, locks and buffers left out: frames read  *)
(* from the port reach the dispatcher in the order they were accepted, a   *)
(* frame may be discarded only while a full buffer of accepted ones waits  *)
(* for the dispatcher, and packets handed to the link leave in the order   *)
(* they were handed over, up to the first failed write or the detach.      *)
(***************************************************************************)
EXTENDS Naturals, Sequences

CONSTANT
  Capacity    \* accepted frames that must be waiting before one is discarded

VARIABLES
  offered,    \* number of frames read from the port so far: 1, 2, 3, ...
  inbox,      \* accepted frames the dispatcher has not seen
  delivered,  \* frames the dispatcher has seen
  submitted,  \* number of packets handed to the link so far: 1, 2, 3, ...
  outbox,     \* packets handed over and not yet written
  written,    \* packets written to the port
  detached    \* the link is closed for good

vars == <<offered, inbox, delivered, submitted, outbox, written, detached>>

Init ==
  /\ offered = 0 /\ inbox = <<>> /\ delivered = <<>>
  /\ submitted = 0 /\ outbox = <<>> /\ written = <<>>
  /\ detached = FALSE

(* The next frame from the port is accepted.                               *)
Accept ==
  /\ ~detached
  /\ offered' = offered + 1
  /\ inbox' = Append(inbox, offered + 1)
  /\ UNCHANGED <<delivered, submitted, outbox, written, detached>>

(* The next frame is discarded, because a full buffer is waiting.          *)
Discard ==
  /\ ~detached
  /\ Len(inbox) >= Capacity
  /\ offered' = offered + 1
  /\ UNCHANGED <<inbox, delivered, submitted, outbox, written, detached>>

(* The oldest accepted frame reaches the dispatcher.                       *)
Deliver ==
  /\ ~detached
  /\ inbox # <<>>
  /\ delivered' = Append(delivered, Head(inbox))
  /\ inbox' = Tail(inbox)
  /\ UNCHANGED <<offered, submitted, outbox, written, detached>>

(* A panel hands over a packet. Panels may do so while nothing is attached.*)
Submit ==
  /\ submitted' = submitted + 1
  /\ outbox' = Append(outbox, submitted + 1)
  /\ UNCHANGED <<offered, inbox, delivered, written, detached>>

(* The oldest packet is written to the port.                               *)
Transmit ==
  /\ ~detached
  /\ outbox # <<>>
  /\ written' = Append(written, Head(outbox))
  /\ outbox' = Tail(outbox)
  /\ UNCHANGED <<offered, inbox, delivered, submitted, detached>>

Detach ==
  /\ ~detached
  /\ detached' = TRUE
  /\ UNCHANGED <<offered, inbox, delivered, submitted, outbox, written>>

Next == Accept \/ Discard \/ Deliver \/ Submit \/ Transmit \/ Detach

Spec == Init /\ [][Next]_vars
=============================================================================
