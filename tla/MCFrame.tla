------------------------------ MODULE MCFrame ------------------------------
(* An instance of Frame.tla for TLC: two ports that may be listed, one     *)
(* that is only the default, two telemetry keys.                           *)
EXTENDS Frame

MCPorts  == {"COM3", "COM4"}
MCKeys   == {"volts", "rpm"}
MCValues == {"12", "13"}
=============================================================================
