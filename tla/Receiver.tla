------------------------------- MODULE Receiver -------------------------------
(***************************************************************************)
(* What the firmware's end of the link promises to LiveDataPanel: the      *)
(* packets that were submitted take effect in their order, each at most    *)
(* once and as it was submitted; some are lost; and a modify changes the   *)
(* variables of its id and type, and nothing else.                         *)
(***************************************************************************)
EXTENDS Naturals, Sequences

CONSTANTS
  Slots,     \* places at which a variable can be registered
  Ids, Types, Values,
  Writable   \* the types a modify can write

VARIABLES
  queue,     \* packets that may still take effect
  memory     \* slot -> [packetID, valueType, value]

vars == <<queue, memory>>

Submittable ==
  [kind : {"request"}]
    \union [kind : {"modify"}, packetID : Ids, valueType : Types, value : Values]

Init == queue = <<>> /\ memory = [s \in {} |-> 0]

Register(s, id, t) ==
  /\ s \notin DOMAIN memory
  /\ memory' = [x \in DOMAIN memory \union {s} |->
                  IF x = s THEN [packetID |-> id, valueType |-> t, value |-> 0]
                  ELSE memory[x]]
  /\ UNCHANGED queue

Submit(p) ==
  /\ queue' = Append(queue, p)
  /\ UNCHANGED memory

(* Packets that follow each other are lost.                                *)
Lose ==
  /\ \E i \in 0..Len(queue) : \E j \in (i + 1)..(Len(queue) + 1) :
       queue' = SubSeq(queue, 1, i) \o SubSeq(queue, j, Len(queue))
  /\ UNCHANGED memory

Named(p)    == {s \in DOMAIN memory : memory[s].packetID = p.packetID}
Matching(p) == {s \in Named(p) : memory[s].valueType = p.valueType}

(* A modify writes the variables of its id and type.  If its id also names *)
(* variables of another type, it may leave some of them out.               *)
Writes(p) ==
  IF p.kind # "modify" \/ p.valueType \notin Writable THEN {{}}
  ELSE IF Matching(p) = Named(p) THEN {Named(p)}
  ELSE SUBSET Matching(p)

(* A packet takes effect; the packets before it never will.                *)
Take(k) ==
  /\ queue' = SubSeq(queue, k + 1, Len(queue))
  /\ \E W \in Writes(queue[k]) :
       memory' = [s \in DOMAIN memory |->
                    IF s \in W THEN [memory[s] EXCEPT !.value = queue[k].value]
                    ELSE memory[s]]

Next ==
  \/ \E s \in Slots, id \in Ids, t \in Types : Register(s, id, t)
  \/ \E p \in Submittable : Submit(p)
  \/ Lose
  \/ \E k \in DOMAIN queue : Take(k)

Spec == Init /\ [][Next]_vars
=============================================================================
