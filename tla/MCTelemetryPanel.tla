-------------------------- MODULE MCTelemetryPanel --------------------------
(* An instance of TelemetryPanel.tla for TLC: two keys, two values.        *)
EXTENDS TelemetryPanel

MCKeys   == {"volts", "rpm"}
MCValues == {"12", "13"}
=============================================================================
