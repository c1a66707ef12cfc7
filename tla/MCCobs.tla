------------------------------- MODULE MCCobs -------------------------------
(***************************************************************************)
(* Cobs for TLC: full blocks are two bytes long, so that a message holds   *)
(* several of them, in every position relative to zeros and to the end of  *)
(* the buffers; alertBufferCOBS is fresh or holds what a message of zeros  *)
(* left.                                                                   *)
(***************************************************************************)
EXTENDS Cobs

MCMaxCode   == 3
MCBufSize   == 5
MCMinFrame  == 3
MCNoiseSize == 5
MCStaleBuffers ==
  { [k \in 0..(DestSize - 1) |-> 0],
    [k \in 0..(DestSize - 1) |-> IF k < DestSize - 1 THEN 1 ELSE 0] }
=============================================================================
