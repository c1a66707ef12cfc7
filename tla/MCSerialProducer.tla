-------------------------- MODULE MCSerialProducer --------------------------
(***************************************************************************)
(* SerialProducer for TLC: the bounds let rx_queue_ fill up and overflow   *)
(* while a batch is being dispatched, and let packets wait in each of the  *)
(* four places on their way out.                                           *)
(***************************************************************************)
EXTENDS SerialProducer

MCCapacity == 2
MCFrames   == 4
MCSends    == 3
=============================================================================
