---------------------------- MODULE MCDashboard ----------------------------
(* Instances of Dashboard.tla for TLC: the packets of LiveDataPanel.cpp    *)
(* and sizes in the code's ratios 12 : 8 : 4, scaled to 6 : 4 : 2.         *)
EXTENDS Dashboard

LiveSize == 4

Request         == [packetType |-> "request", size |-> 0, data |-> ZeroData]
Modify(id, t, v) ==
  [packetType |-> "modify", size |-> LiveSize,
   data |-> [packetID |-> id, valueType |-> t, value |-> v]]

(* No panel sends it: a host with a longer modify, here of zeros, so that  *)
(* what is left of it in the stream looks like headers.                    *)
Oversized == [Modify(0, 0, 0) EXCEPT !.size = 3 * LiveSize]

MCLinePackets  == {Request, Modify(0, 0, 0), Modify(1, 1, 1)}
MCTwoPackets   == {Request, Modify(1, 1, 1)}
MCVarPackets   == {Request, Modify(1, 0, 1), Modify(1, 0, 2), Modify(2, 0, 1),
                   Modify(1, TYPE_STRING, 1), Oversized}
MCOneVariable  == {[packetID |-> 1, valueType |-> 1]}
MCVariables    == {[packetID |-> 1, valueType |-> 0], [packetID |-> 2, valueType |-> 0],
                   [packetID |-> 1, valueType |-> TYPE_STRING]}
MCNoVariable   == {}
=============================================================================
