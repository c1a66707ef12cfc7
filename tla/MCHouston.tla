----------------------------- MODULE MCHouston -----------------------------
(* Instances of Houston.tla for TLC.  An id is scaled: IdRange is 4, so    *)
(* 5 is an id beyond a byte whose low part is 1, and 6 one whose low part  *)
(* is 2.                                                                   *)
EXTENDS Houston

Var(id, t) == [packetID |-> id, valueType |-> t]

MCSmallIds == {Var(1, "bool"), Var(2, "float")}
MCWideIds  == {Var(1, "int"), Var(6, "float")}
MCTwinIds  == {Var(1, "int"), Var(5, "int")}
MCKeys     == {"k"}
MCValues   == {0, 1}
=============================================================================
