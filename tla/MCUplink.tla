------------------------------ MODULE MCUplink ------------------------------
(* An instance of Uplink.tla for TLC: header and tail are 2 and 1 bytes;   *)
(* the calls are telemetry and an alert of equal size, a response without  *)
(* variables, and an alert that fills the buffer.                          *)
EXTENDS Uplink

Message(type, key, value) == [packetType |-> type, keySize |-> key, valueSize |-> value]

MCMessages ==
  {Message("telemetry", 1, 1), Message("alert", 0, 2), Message("response", 0, 0),
   Message("alert", 0, 3)}
=============================================================================
