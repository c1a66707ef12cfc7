---------------------------- MODULE UplinkProofs ----------------------------
(***************************************************************************)
(* What the consumers get of the firmware's messages, for every size of    *)
(* header, tail and message and any number of faults.                      *)
(***************************************************************************)
EXTENDS Uplink, TLAPS

-----------------------------------------------------------------------------
(* The pieces on their way to dispatchData: rx_queue_ and, last, the one   *)
(* that is being read.                                                     *)
Pieces   == Len(frames) + 1
Piece(i) == IF i <= Len(frames) THEN frames[i] ELSE buffer

Bytes == [at : Nat \X Nat, intact : BOOLEAN]

(* Positions are <<message, offset>>, in the order of sending.             *)
Before(a, b) == a[1] < b[1] \/ (a[1] = b[1] /\ a[2] < b[2])

HasLeft(a) == a[1] \in 1..Len(sent) /\ Before(a, Current)

(* the last byte of a message's tail                                       *)
End(m) == <<m, writeSize(sent[m])>>

(* All that was sent between two bytes is damaged.                         *)
AllLost(a, b) ==
  \A m \in 1..Len(sent) : \A o \in 0..(FrameSize(sent[m]) - 1) :
    Before(a, <<m, o>>) /\ Before(<<m, o>>, b) => <<m, o>> \in damaged

Typed ==
  /\ sent \in Seq(Messages) /\ off \in Nat
  /\ sent # <<>> => off <= FrameSize(Last(sent))
  /\ frames \in Seq(Seq(Bytes)) /\ buffer \in Seq(Bytes)
  /\ consumed \in Seq([head : Nat, body : Nat])

Arrived ==
  \A i \in 1..Pieces : \A k \in 1..Len(Piece(i)) :
    /\ HasLeft(Piece(i)[k].at)
    /\ Piece(i)[k].intact => Piece(i)[k].at \notin damaged

Rising ==
  \A i, j \in 1..Pieces : \A k \in 1..Len(Piece(i)), l \in 1..Len(Piece(j)) :
    i < j \/ (i = j /\ k < l) => Before(Piece(i)[k].at, Piece(j)[l].at)

Gaps ==
  \A i \in 1..Pieces : \A k \in 1..(Len(Piece(i)) - 1) :
    AllLost(Piece(i)[k].at, Piece(i)[k + 1].at)

LastGap == buffer # <<>> => AllLost(Last(buffer).at, Current)

(* What was consumed: as it was sent, and before all that is on its way.   *)
AsSent(h, p) ==
  /\ h <= p /\ payload(sent[h]) = payload(sent[p])
  /\ \A o \in 1..HeaderSize : <<h, o>> \notin damaged
  /\ \A o \in (1 + HeaderSize)..writeSize(sent[p]) : <<p, o>> \notin damaged
  /\ h # p => /\ Damaged(h, 1 + HeaderSize, FrameSize(sent[h]) - 1)
              /\ Damaged(p, 0, HeaderSize)

Ahead(h, p) ==
  /\ h \in 1..Len(sent) /\ HasLeft(End(p))
  /\ \A i \in 1..Pieces : \A k \in 1..Len(Piece(i)) : Before(End(p), Piece(i)[k].at)

Consumed ==
  \A c \in 1..Len(consumed) : /\ Ahead(consumed[c].head, consumed[c].body)
                              /\ AsSent(consumed[c].head, consumed[c].body)

InOrder ==
  \A j, k \in 1..Len(consumed) : j < k => consumed[j].body < consumed[k].head

UplinkInv ==
  Typed /\ Arrived /\ Rising /\ Gaps /\ LastGap /\ Consumed /\ InOrder

(* The kinds of steps.                                                     *)
Sends ==
  /\ ~Sending
  /\ \E m \in Messages : sent' = Append(sent, m) /\ off' = 0
  /\ UNCHANGED <<damaged, frames, buffer, consumed>>

Moves ==
  /\ Sending /\ off' = off + 1
  /\ damaged' \in {damaged, damaged \union {Current}}
  /\ UNCHANGED <<sent, consumed>>

Reads == Moves /\ ReadByte

Cuts == Moves /\ ReadZero

Swallows == Moves /\ Current \in damaged' /\ UNCHANGED <<frames, buffer>>

Dispatches ==
  /\ frames # <<>> /\ frames' = Tail(frames)
  /\ UNCHANGED <<sent, off, damaged, buffer>>

Takes ==
  \E h, p \in DOMAIN sent :
    Passes(Head(frames), h, p) /\ consumed' = Append(consumed, [head |-> h, body |-> p])

Same == UNCHANGED <<sent, off, damaged, frames, buffer, consumed>>

LEMMA Steps ==
  [Next]_vars => \/ Sends \/ Reads \/ Cuts \/ Swallows \/ Same
                 \/ Dispatches /\ (Takes \/ consumed' = consumed)
<1> SUFFICES ASSUME [Next]_vars
             PROVE  \/ Sends \/ Reads \/ Cuts \/ Swallows \/ Same
                    \/ Dispatches /\ (Takes \/ consumed' = consumed)
  OBVIOUS
<1>1. CASE \E m \in Messages : Send(m)
  BY <1>1 DEF Send, Sends
<1>2. CASE ArriveByte \/ CorruptByte
  BY <1>2 DEF ArriveByte, CorruptByte, Arrives, Leaves, Fault, Reads, Moves
<1>3. CASE ArriveZero \/ CorruptZero
  BY <1>3 DEF ArriveZero, CorruptZero, Arrives, Leaves, Fault, Cuts, Moves
<1>4. CASE LoseByte \/ LoseMore \/ NotListening
  BY <1>4 DEF LoseByte, LoseMore, NotListening, Lost, Leaves, Fault, Swallows, Moves
<1>5. CASE Listen \/ UNCHANGED vars
  BY <1>5 DEF Listen, vars, air, Same
<1>6. CASE Consume \/ Reject
  BY <1>6 DEF Consume, Reject, Dispatched, air, Dispatches, Takes
<1>7. QED
  BY <1>1, <1>2, <1>3, <1>4, <1>5, <1>6 DEF Next

-----------------------------------------------------------------------------
(* Sequences and positions                                                 *)

LEMMA SeqFacts ==
  ASSUME NEW S, NEW s \in Seq(S)
  PROVE  /\ Len(s) \in Nat /\ DOMAIN s = 1..Len(s)
         /\ s = <<>> <=> Len(s) = 0
         /\ \A i \in 1..Len(s) : s[i] \in S
  OBVIOUS

LEMMA AppendFacts ==
  ASSUME NEW S, NEW s \in Seq(S), NEW x \in S
  PROVE  /\ Append(s, x) \in Seq(S)
         /\ Len(s) \in Nat /\ Len(Append(s, x)) = Len(s) + 1
         /\ \A i \in 1..Len(s) : Append(s, x)[i] = s[i]
         /\ Append(s, x)[Len(s) + 1] = x
  OBVIOUS

LEMMA TailFacts ==
  ASSUME NEW S, NEW s \in Seq(S), s # <<>>
  PROVE  /\ Tail(s) \in Seq(S) /\ Len(s) \in Nat \ {0}
         /\ Len(Tail(s)) = Len(s) - 1 /\ Head(s) = s[1]
         /\ \A i \in 1..Len(Tail(s)) : Tail(s)[i] = s[i + 1]
  OBVIOUS

LEMMA Sizes ==
  ASSUME NEW m \in Messages
  PROVE  /\ payload(m) \in Nat /\ writeSize(m) \in Nat /\ FrameSize(m) \in Nat
         /\ writeSize(m) = HeaderSize + payload(m) + TailSize
         /\ FrameSize(m) = writeSize(m) + 2
         /\ HeaderSize \in Nat \ {0} /\ TailSize \in Nat \ {0}
  BY UplinkAssumption DEF payload, writeSize, FrameSize

LEMMA HeaderShorter ==
  ASSUME NEW m \in Messages
  PROVE  writeSize(m) > HeaderSize
<1>1. /\ payload(m) \in Nat /\ HeaderSize \in Nat /\ TailSize \in Nat \ {0}
      /\ writeSize(m) = HeaderSize + payload(m) + TailSize
  BY Sizes
<1> QED  BY <1>1

LEMMA PieceTyped ==
  ASSUME Typed
  PROVE  /\ Pieces \in Nat /\ Len(frames) \in Nat
         /\ \A i \in 1..Pieces : /\ Piece(i) \in Seq(Bytes) /\ Len(Piece(i)) \in Nat
                                 /\ \A k \in 1..Len(Piece(i)) :
                                      /\ Piece(i)[k] \in Bytes
                                      /\ Piece(i)[k].at \in Nat \X Nat
<1>1. Len(frames) \in Nat /\ \A i \in 1..Len(frames) : frames[i] \in Seq(Bytes)
  BY SeqFacts DEF Typed
<1>2. ASSUME NEW i \in 1..Pieces PROVE Piece(i) \in Seq(Bytes)
  BY <1>1, <1>2 DEF Typed, Pieces, Piece
<1>3. \A b \in Bytes : b.at \in Nat \X Nat
  BY DEF Bytes
<1>4. QED
  BY <1>1, <1>2, <1>3, SeqFacts DEF Pieces

-----------------------------------------------------------------------------
(* A byte of a piece was there before, s pieces further on, or has just    *)
(* been appended to the piece that is read.                                *)
Old(s, i, k) ==
  /\ i + s \in 1..Pieces /\ k \in 1..Len(Piece(i + s))
  /\ Piece(i)'[k] = Piece(i + s)[k]

New(s, i, k) ==
  /\ Moves /\ s = 0 /\ i = Pieces /\ Pieces' = Pieces
  /\ k = Len(buffer) + 1 /\ k = Len(Piece(i)')
  /\ Piece(i)'[k].at = Current
  /\ Piece(i)'[k].intact => Current \notin damaged'

Traced(s) ==
  \A i \in 1..Pieces' : \A k \in 1..Len(Piece(i)') : Old(s, i, k) \/ New(s, i, k)

LEMMA TracedSame ==
  ASSUME Typed, UNCHANGED <<frames, buffer>>
  PROVE  Traced(0)
<1>1. /\ Pieces' = Pieces /\ Pieces \in Nat
      /\ \A i \in 1..Pieces : Piece(i)' = Piece(i) /\ i + 0 = i
  BY PieceTyped DEF Pieces, Piece
<1>2. QED
  BY <1>1 DEF Traced, Old

LEMMA TracedReads ==
  ASSUME Typed, Reads
  PROVE  Traced(0) /\ buffer' \in Seq(Bytes) /\ buffer' # <<>> /\ Last(buffer').at = Current
<1> DEFINE x == [at |-> Current, intact |-> Current \notin damaged']
<1>1. Current \in Nat \X Nat /\ x \in Bytes
  BY SeqFacts DEF Typed, Current, Bytes
<1>2. /\ frames' = frames /\ buffer' = Append(buffer, x) /\ Moves
      /\ x.at = Current /\ (x.intact => Current \notin damaged')
  BY DEF Reads, ReadByte
<1> HIDE DEF x
<1>3. /\ buffer' \in Seq(Bytes) /\ Len(buffer) \in Nat /\ Len(buffer') = Len(buffer) + 1
      /\ \A k \in 1..Len(buffer) : buffer'[k] = buffer[k]
      /\ buffer'[Len(buffer) + 1] = x
  BY <1>1, <1>2, AppendFacts DEF Typed
<1>4. /\ Pieces' = Pieces /\ Pieces \in Nat /\ Len(frames) \in Nat /\ Pieces = Len(frames) + 1
      /\ \A i \in 1..Pieces : i + 0 = i
      /\ \A i \in 1..Len(frames) : Piece(i)' = Piece(i)
      /\ Piece(Pieces)' = buffer' /\ Piece(Pieces) = buffer
  <2>1. Pieces' = Pieces /\ Pieces \in Nat /\ Len(frames) \in Nat /\ Pieces = Len(frames) + 1
    BY <1>2, PieceTyped DEF Pieces
  <2>2. \A i \in 1..Len(frames) : Piece(i)' = Piece(i)
    BY <1>2 DEF Piece
  <2>3. Piece(Pieces)' = buffer' /\ Piece(Pieces) = buffer
    BY <1>2, <2>1 DEF Piece
  <2>4. QED
    BY <2>1, <2>2, <2>3
<1>5. ASSUME NEW i \in 1..Pieces', NEW k \in 1..Len(Piece(i)')
      PROVE  Old(0, i, k) \/ New(0, i, k)
  <2>1. CASE i \in 1..Len(frames)
    BY <1>4, <1>5, <2>1 DEF Old
  <2>2. CASE i = Pieces
    <3>1. Piece(i)' = buffer' /\ Piece(i) = buffer
      BY <1>4, <2>2
    <3>2. CASE k \in 1..Len(buffer)
      BY <1>3, <1>4, <2>2, <3>1, <3>2 DEF Old
    <3>3. CASE k = Len(buffer) + 1
      BY <1>2, <1>3, <1>4, <2>2, <3>1, <3>3 DEF New
    <3>4. QED
      BY <1>3, <1>5, <3>1, <3>2, <3>3
  <2>3. QED
    BY <1>4, <1>5, <2>1, <2>2
<1>6. buffer' # <<>> /\ Last(buffer').at = Current
  BY <1>2, <1>3 DEF Last
<1>7. QED
  BY <1>3, <1>5, <1>6 DEF Traced

LEMMA TracedCuts ==
  ASSUME Typed, Cuts
  PROVE  Traced(0) /\ frames' \in Seq(Seq(Bytes)) /\ buffer' = <<>>
<1>1. buffer' = <<>> /\ frames' = IF buffer = <<>> THEN frames ELSE Append(frames, buffer)
  BY DEF Cuts, ReadZero, AfterZero
<1>2. CASE buffer = <<>>
  BY <1>1, <1>2, TracedSame DEF Typed
<1>3. CASE buffer # <<>>
  <2>1. /\ frames' \in Seq(Seq(Bytes)) /\ Len(frames) \in Nat
        /\ Len(frames') = Len(frames) + 1
        /\ \A i \in 1..Len(frames) : frames'[i] = frames[i]
        /\ frames'[Len(frames) + 1] = buffer
    BY <1>1, <1>3, AppendFacts DEF Typed
  <2>2. Pieces = Len(frames) + 1 /\ Pieces' = Len(frames) + 2
    BY <2>1 DEF Pieces
  <2>3. ASSUME NEW i \in 1..Pieces', NEW k \in 1..Len(Piece(i)')
        PROVE  Old(0, i, k)
    <3>1. CASE i \in 1..Len(frames)
      <4>1. Piece(i)' = Piece(i) /\ i + 0 = i /\ i \in 1..Pieces
        BY <2>1, <2>2, <3>1 DEF Piece
      <4>2. QED
        BY <2>3, <4>1 DEF Old
    <3>2. CASE i = Len(frames) + 1
      <4>1. Piece(i)' = Piece(i) /\ i + 0 = i /\ i \in 1..Pieces
        BY <2>1, <2>2, <3>2 DEF Piece
      <4>2. QED
        BY <2>3, <4>1 DEF Old
    <3>3. CASE i = Len(frames) + 2
      <4>1. Piece(i)' = <<>>
        BY <1>1, <2>1, <3>3 DEF Piece
      <4>2. QED
        BY <2>3, <4>1
    <3>4. QED
      BY <2>1, <2>2, <2>3, <3>1, <3>2, <3>3
  <2>4. QED
    BY <1>1, <2>1, <2>3 DEF Traced
<1>4. QED
  BY <1>2, <1>3

LEMMA TracedDispatches ==
  ASSUME Typed, Dispatches
  PROVE  /\ Traced(1) /\ frames' \in Seq(Seq(Bytes)) /\ Pieces \in Nat /\ 1 < Pieces
         /\ Head(frames) = Piece(1)
<1>1. /\ frames' \in Seq(Seq(Bytes)) /\ Len(frames) \in Nat \ {0}
      /\ Len(frames') = Len(frames) - 1 /\ Head(frames) = frames[1]
      /\ \A i \in 1..Len(frames') : frames'[i] = frames[i + 1]
      /\ buffer' = buffer
  BY TailFacts DEF Typed, Dispatches
<1>2. Pieces = Len(frames) + 1 /\ Pieces' = Len(frames)
  BY <1>1 DEF Pieces
<1>3. ASSUME NEW i \in 1..Pieces' PROVE Piece(i)' = Piece(i + 1) /\ i + 1 \in 1..Pieces
  <2>1. CASE i \in 1..Len(frames')
    BY <1>1, <1>2, <2>1 DEF Piece
  <2>2. CASE i = Len(frames)
    BY <1>1, <1>2, <2>2 DEF Piece
  <2>3. QED
    BY <1>1, <1>2, <1>3, <2>1, <2>2
<1>4. Traced(1)
  BY <1>3 DEF Traced, Old
<1>5. 1 < Pieces /\ Head(frames) = Piece(1)
  BY <1>1, <1>2 DEF Piece
<1>6. QED
  BY <1>1, <1>2, <1>4, <1>5

-----------------------------------------------------------------------------
(* What a step does to what has left and what is damaged.                  *)
Grows ==
  /\ Typed' /\ Len(sent) <= Len(sent') /\ Len(sent) \in Nat /\ Len(sent') \in Nat
  /\ \A m \in 1..Len(sent) : sent'[m] = sent[m] /\ sent[m] \in Messages
  /\ \A a \in Nat \X Nat : HasLeft(a) => HasLeft(a)'
  /\ damaged \subseteq damaged' /\ damaged' \subseteq damaged \union {Current}
  /\ Current \in Nat \X Nat /\ ~HasLeft(Current)

LEMMA SendGrows ==
  ASSUME Typed, Sends
  PROVE  /\ Grows
         /\ off' = 0 /\ Len(sent') = Len(sent) + 1
         /\ sent # <<>> => FrameSize(sent[Len(sent)]) <= off
<1>1. PICK m \in Messages : sent' = Append(sent, m) /\ off' = 0
  BY DEF Sends
<1>2. /\ sent' \in Seq(Messages) /\ Len(sent) \in Nat /\ Len(sent') = Len(sent) + 1
      /\ sent'[Len(sent) + 1] = m /\ \A k \in 1..Len(sent) : sent'[k] = sent[k]
  BY <1>1, AppendFacts DEF Typed
<1>3. \A k \in 1..Len(sent) : sent[k] \in Messages
  BY SeqFacts DEF Typed
<1>4. Typed'
  BY <1>1, <1>2, Sizes DEF Typed, Sends, Last
<1>5. \A a \in Nat \X Nat : HasLeft(a) => HasLeft(a)'
  BY <1>2 DEF HasLeft, Before, Current
<1>6. Current \in Nat \X Nat /\ ~HasLeft(Current)
  BY <1>2 DEF HasLeft, Before, Current, Typed
<1>7. sent # <<>> => FrameSize(sent[Len(sent)]) <= off
  <2> HAVE sent # <<>>
  <2>1. sent[Len(sent)] \in Messages
    BY <1>2, <1>3, SeqFacts DEF Typed
  <2>2. FrameSize(sent[Len(sent)]) \in Nat
    BY <2>1, Sizes
  <2>3. QED
    BY <2>2 DEF Sends, Sending, Last, Typed
<1>8. QED
  BY <1>1, <1>2, <1>3, <1>4, <1>5, <1>6, <1>7 DEF Grows, Sends

LEMMA MoveGrows ==
  ASSUME Typed, Moves, frames' \in Seq(Seq(Bytes)), buffer' \in Seq(Bytes)
  PROVE  /\ Grows /\ sent' = sent /\ off' = off + 1
         /\ \A a \in Nat \X Nat : a = Current => HasLeft(a)'
<1>1. sent' = sent /\ off' = off + 1 /\ consumed' = consumed /\ sent # <<>>
      /\ off < FrameSize(Last(sent))
  BY DEF Moves, Sending
<1>2. Len(sent) \in Nat \ {0} /\ \A k \in 1..Len(sent) : sent[k] \in Messages
  BY <1>1, SeqFacts DEF Typed
<1>3. Last(sent) \in Messages /\ FrameSize(Last(sent)) \in Nat
  BY <1>2, Sizes DEF Last
<1>4. Typed'
  BY <1>1, <1>3 DEF Typed
<1>5. \A a \in Nat \X Nat : HasLeft(a) => HasLeft(a)'
  BY <1>1, <1>2 DEF HasLeft, Before, Current, Typed
<1>6. Current \in Nat \X Nat /\ ~HasLeft(Current)
  BY <1>2 DEF HasLeft, Before, Current, Typed
<1>7. \A a \in Nat \X Nat : a = Current => HasLeft(a)'
  BY <1>1, <1>2 DEF HasLeft, Before, Current, Typed
<1>8. QED
  BY <1>1, <1>2, <1>4, <1>5, <1>6, <1>7 DEF Grows, Moves

LEMMA QuietGrows ==
  ASSUME Typed, Typed', UNCHANGED <<sent, off, damaged>>
  PROVE  Grows
<1>1. Len(sent) \in Nat /\ \A k \in 1..Len(sent) : sent[k] \in Messages
  BY SeqFacts DEF Typed
<1>2. \A a \in Nat \X Nat : HasLeft(a) => HasLeft(a)'
  BY DEF HasLeft, Current
<1>3. Current \in Nat \X Nat /\ ~HasLeft(Current)
  BY <1>1 DEF HasLeft, Before, Current, Typed
<1>4. QED
  BY <1>1, <1>2, <1>3 DEF Grows

LEMMA DispatchGrows ==
  ASSUME Typed, Dispatches, consumed' \in Seq([head : Nat, body : Nat])
  PROVE  Grows
<1>1. Typed'
  BY TracedDispatches DEF Dispatches, Typed
<1>2. QED
  BY <1>1, QuietGrows DEF Dispatches

LEMMA PieceTypedNext ==
  ASSUME Typed'
  PROVE  /\ Pieces' \in Nat
         /\ \A i \in 1..Pieces' : /\ Len(Piece(i)') \in Nat
                                  /\ \A k \in 1..Len(Piece(i)') :
                                       Piece(i)'[k].at \in Nat \X Nat
<1>1. Len(frames') \in Nat /\ \A i \in 1..Len(frames') : frames'[i] \in Seq(Bytes)
  BY SeqFacts DEF Typed
<1>2. ASSUME NEW i \in 1..Pieces' PROVE Piece(i)' \in Seq(Bytes)
  BY <1>1, <1>2 DEF Typed, Pieces, Piece
<1>3. \A b \in Bytes : b.at \in Nat \X Nat
  BY DEF Bytes
<1>4. QED
  BY <1>1, <1>2, <1>3, SeqFacts DEF Pieces

LEMMA MoveLeft ==
  ASSUME Typed, Moves
  PROVE  \A a \in Nat \X Nat : a = Current => HasLeft(a)'
<1>1. sent' = sent /\ off' = off + 1 /\ Len(sent) \in Nat \ {0} /\ off \in Nat
  BY SeqFacts DEF Typed, Moves, Sending
<1>2. QED
  BY <1>1 DEF HasLeft, Before, Current

-----------------------------------------------------------------------------
(* The bytes on their way keep their invariants in every step that traces. *)

LEMMA ArrivedKept ==
  ASSUME Typed, Arrived, Grows, NEW s \in {0, 1}, Traced(s)
  PROVE  Arrived'
<1> SUFFICES ASSUME NEW i \in 1..Pieces', NEW k \in 1..Len(Piece(i)')
             PROVE  /\ \A a \in Nat \X Nat : a = Piece(i)'[k].at => HasLeft(a)'
                    /\ Piece(i)'[k].intact => Piece(i)'[k].at \notin damaged'
  <2>1. Typed'
    BY DEF Grows
  <2>2. QED
    BY <2>1, PieceTypedNext DEF Arrived, HasLeft
<1>1. CASE Old(s, i, k)
  <2>1. /\ HasLeft(Piece(i + s)[k].at) /\ Piece(i)'[k] = Piece(i + s)[k]
        /\ Piece(i + s)[k].intact => Piece(i + s)[k].at \notin damaged
        /\ Piece(i + s)[k].at \in Nat \X Nat
    BY <1>1, PieceTyped DEF Old, Arrived
  <2>2. QED
    BY <2>1 DEF Grows
<1>2. CASE New(s, i, k)
  BY <1>2, MoveLeft DEF New
<1>3. QED
  BY <1>1, <1>2 DEF Traced

LEMMA RisingKept ==
  ASSUME Typed, Arrived, Rising, Grows, NEW s \in {0, 1}, Traced(s)
  PROVE  Rising'
<1> SUFFICES ASSUME NEW i \in 1..Pieces', NEW j \in 1..Pieces',
                    NEW k \in 1..Len(Piece(i)'), NEW l \in 1..Len(Piece(j)'),
                    i < j \/ (i = j /\ k < l)
             PROVE  Before(Piece(i)'[k].at, Piece(j)'[l].at)
  BY DEF Rising, Before
<1>1. Pieces' \in Nat /\ Pieces \in Nat /\ Len(Piece(i)') \in Nat /\ Len(Piece(j)') \in Nat
  BY PieceTyped, PieceTypedNext DEF Grows
<1>2. Old(s, i, k)
  BY <1>1 DEF Traced, New
<1>3. CASE Old(s, j, l)
  <2>1. i + s < j + s \/ (i + s = j + s /\ k < l)
    BY <1>1
  <2>2. QED
    BY <1>2, <1>3, <2>1 DEF Old, Rising
<1>4. CASE New(s, j, l)
  <2>1. HasLeft(Piece(i + s)[k].at) /\ Piece(i)'[k] = Piece(i + s)[k]
    BY <1>2 DEF Old, Arrived
  <2>2. QED
    BY <1>4, <2>1 DEF New, HasLeft
<1>5. QED
  BY <1>3, <1>4 DEF Traced

(* Nothing is sent between two bytes that have left.                       *)
LEMMA AllLostKept ==
  ASSUME Typed, Grows, NEW a \in Nat \X Nat, NEW b \in Nat \X Nat,
         HasLeft(a), HasLeft(b) \/ b[1] \in 1..Len(sent), AllLost(a, b)
  PROVE  \A c, d : c = a /\ d = b => AllLost(c, d)'
<1> SUFFICES ASSUME NEW m \in 1..Len(sent'), NEW o \in 0..(FrameSize(sent'[m]) - 1),
                    Before(a, <<m, o>>), Before(<<m, o>>, b)
             PROVE  <<m, o>> \in damaged'
  BY DEF AllLost
<1>1. b[1] \in 1..Len(sent) /\ b[1] \in Nat /\ Len(sent) \in Nat /\ Len(sent') \in Nat
  BY DEF HasLeft, Grows
<1>2. m \in 1..Len(sent)
  BY <1>1 DEF Before
<1>3. sent'[m] = sent[m]
  BY <1>2 DEF Grows
<1>4. QED
  BY <1>2, <1>3 DEF AllLost, Grows

LEMMA GapsKept ==
  ASSUME Typed, Arrived, Gaps, LastGap, Grows, NEW s \in {0, 1}, Traced(s)
  PROVE  Gaps'
<1>1. Pieces' \in Nat /\ Pieces \in Nat
  BY PieceTyped, PieceTypedNext DEF Grows
<1> SUFFICES ASSUME NEW i \in 1..Pieces', NEW k \in 1..(Len(Piece(i)') - 1)
             PROVE  \A c, d : c = Piece(i)'[k].at /\ d = Piece(i)'[k + 1].at
                                => AllLost(c, d)'
  BY DEF Gaps, AllLost
<1>2. Len(Piece(i)') \in Nat
  BY PieceTypedNext DEF Grows
<1>3. k \in 1..Len(Piece(i)') /\ k + 1 \in 1..Len(Piece(i)') /\ k # Len(Piece(i)')
  BY <1>2
<1>4. Old(s, i, k)
  BY <1>3 DEF Traced, New
<1>5. /\ i + s \in 1..Pieces /\ k \in 1..Len(Piece(i + s)) /\ Len(Piece(i + s)) \in Nat
      /\ Piece(i + s)[k].at \in Nat \X Nat /\ HasLeft(Piece(i + s)[k].at)
      /\ Piece(i)'[k] = Piece(i + s)[k]
  BY <1>4, PieceTyped DEF Old, Arrived
<1>6. CASE Old(s, i, k + 1)
  <2>1. /\ k + 1 \in 1..Len(Piece(i + s)) /\ Piece(i)'[k + 1] = Piece(i + s)[k + 1]
        /\ Piece(i + s)[k + 1].at \in Nat \X Nat /\ HasLeft(Piece(i + s)[k + 1].at)
    BY <1>6, PieceTyped DEF Old, Arrived
  <2>2. k \in 1..(Len(Piece(i + s)) - 1)
    BY <1>5, <2>1
  <2>3. AllLost(Piece(i + s)[k].at, Piece(i + s)[k + 1].at)
    BY <1>5, <2>2 DEF Gaps
  <2>4. PICK a \in Nat \X Nat, b \in Nat \X Nat :
          a = Piece(i + s)[k].at /\ b = Piece(i + s)[k + 1].at
    BY <1>5, <2>1
  <2>5. AllLost(a, b) /\ HasLeft(a) /\ HasLeft(b)
    BY <1>5, <2>1, <2>3, <2>4
  <2>6. \A c, d : c = a /\ d = b => AllLost(c, d)'
    BY <2>5, AllLostKept
  <2>7. QED
    BY <1>5, <2>1, <2>4, <2>6
<1>7. CASE New(s, i, k + 1)
  <2>1. /\ s = 0 /\ i = Pieces /\ k + 1 = Len(buffer) + 1 /\ Piece(i)'[k + 1].at = Current
        /\ i + s = i
    BY <1>1, <1>7 DEF New
  <2>2. Len(frames) \in Nat /\ Piece(i + s) = buffer
    BY <2>1, PieceTyped DEF Piece, Pieces
  <2>3. Len(buffer) \in Nat /\ k = Len(buffer) /\ buffer # <<>>
    BY <1>5, <2>1, <2>2, SeqFacts DEF Typed
  <2>4. Last(buffer).at = Piece(i + s)[k].at /\ AllLost(Last(buffer).at, Current)
    BY <2>2, <2>3 DEF Last, LastGap
  <2>5. Current \in Nat \X Nat /\ Current[1] \in 1..Len(sent)
    <3>1. sent # <<>> /\ Len(sent) \in Nat /\ off \in Nat
      BY <1>7, SeqFacts DEF New, Moves, Sending, Typed
    <3>2. QED
      BY <3>1, SeqFacts DEF Current, Typed
  <2>6. PICK a \in Nat \X Nat, b \in Nat \X Nat :
          a = Piece(i + s)[k].at /\ b = Current
    BY <1>5, <2>5
  <2>7. AllLost(a, b) /\ HasLeft(a) /\ b[1] \in 1..Len(sent)
    BY <1>5, <2>4, <2>5, <2>6
  <2>8. \A c, d : c = a /\ d = b => AllLost(c, d)'
    BY <2>7, AllLostKept
  <2>9. QED
    BY <1>5, <2>1, <2>6, <2>8
<1>8. QED
  BY <1>3, <1>6, <1>7 DEF Traced

-----------------------------------------------------------------------------
(* Between the last byte of the piece that is read and the next to leave.  *)

LEMMA LastGapSends ==
  ASSUME Typed, LastGap, Sends
  PROVE  LastGap'
<1>1. /\ Grows /\ off' = 0 /\ Len(sent') = Len(sent) + 1 /\ buffer' = buffer
      /\ damaged' = damaged
      /\ sent # <<>> => FrameSize(sent[Len(sent)]) <= off
  BY SendGrows DEF Sends
<1>2. /\ Len(sent) \in Nat /\ off \in Nat /\ (sent = <<>> <=> Len(sent) = 0)
      /\ \A m \in 1..Len(sent) : FrameSize(sent[m]) \in Nat
  <2>1. \A m \in 1..Len(sent) : sent[m] \in Messages
    BY SeqFacts DEF Typed
  <2>2. QED
    BY <2>1, SeqFacts, Sizes DEF Typed
<1> SUFFICES ASSUME buffer # <<>>,
                    NEW m \in 1..Len(sent'), NEW o \in 0..(FrameSize(sent'[m]) - 1),
                    Before(Last(buffer).at, <<m, o>>), Before(<<m, o>>, <<Len(sent'), off'>>)
             PROVE  <<m, o>> \in damaged
  BY <1>1 DEF LastGap, AllLost, Current
<1>3. m \in 1..Len(sent)
  BY <1>1, <1>2 DEF Before
<1>4. o \in 0..(FrameSize(sent[m]) - 1)
  BY <1>1, <1>3 DEF Grows
<1>5. Before(<<m, o>>, Current)
  <2>1. m < Len(sent) \/ (m = Len(sent) /\ o < off)
    BY <1>1, <1>2, <1>3, <1>4
  <2>2. QED
    BY <2>1 DEF Before, Current
<1>6. QED
  BY <1>3, <1>4, <1>5 DEF LastGap, AllLost

LEMMA LastGapReads ==
  ASSUME Typed, Reads
  PROVE  LastGap'
<1>1. sent' = sent /\ off' = off + 1 /\ Last(buffer').at = Current
  BY TracedReads DEF Reads, Moves
<1>2. Len(sent) \in Nat /\ off \in Nat
  BY SeqFacts DEF Typed
<1>3. ASSUME NEW m \in 1..Len(sent), NEW o \in Nat,
             Before(Current, <<m, o>>), Before(<<m, o>>, <<Len(sent), off + 1>>)
      PROVE  FALSE
  BY <1>2, <1>3 DEF Before, Current
<1>4. \A m \in 1..Len(sent) : FrameSize(sent[m]) \in Nat
  <2>1. \A m \in 1..Len(sent) : sent[m] \in Messages
    BY SeqFacts DEF Typed
  <2>2. QED
    BY <2>1, Sizes
<1>5. QED
  BY <1>1, <1>2, <1>3, <1>4 DEF LastGap, AllLost, Current

LEMMA LastGapSwallows ==
  ASSUME Typed, LastGap, Swallows
  PROVE  LastGap'
<1>1. /\ sent' = sent /\ off' = off + 1 /\ buffer' = buffer
      /\ damaged \subseteq damaged' /\ Current \in damaged'
  BY DEF Swallows, Moves
<1>2. Len(sent) \in Nat /\ off \in Nat
  BY SeqFacts DEF Typed
<1>3. \A m \in 1..Len(sent) : FrameSize(sent[m]) \in Nat
  <2>1. \A m \in 1..Len(sent) : sent[m] \in Messages
    BY SeqFacts DEF Typed
  <2>2. QED
    BY <2>1, Sizes
<1> SUFFICES ASSUME buffer # <<>>,
                    NEW m \in 1..Len(sent), NEW o \in 0..(FrameSize(sent[m]) - 1),
                    Before(Last(buffer).at, <<m, o>>), Before(<<m, o>>, <<Len(sent), off + 1>>)
             PROVE  <<m, o>> \in damaged'
  BY <1>1 DEF LastGap, AllLost, Current
<1>4. Before(<<m, o>>, Current) \/ <<m, o>> = Current
  BY <1>2, <1>3 DEF Before, Current
<1>5. QED
  BY <1>1, <1>4 DEF LastGap, AllLost

-----------------------------------------------------------------------------
(* What was consumed stays as it was sent.                                 *)

LEMMA AheadKept ==
  ASSUME Typed, Arrived, Grows, NEW s \in {0, 1}, Traced(s),
         NEW h \in Nat, NEW p \in Nat, Ahead(h, p)
  PROVE  Ahead(h, p)'
<1>1. /\ p \in 1..Len(sent) /\ End(p)' = End(p) /\ End(p) \in Nat \X Nat
      /\ HasLeft(End(p)) /\ End(p)[1] = p /\ End(p) = <<p, writeSize(sent[p])>>
  <2>1. p \in 1..Len(sent)
    BY DEF Ahead, HasLeft, End
  <2>2. sent'[p] = sent[p] /\ writeSize(sent[p]) \in Nat
    BY <2>1, Sizes DEF Grows
  <2>3. QED
    BY <2>1, <2>2 DEF Ahead, End
<1>2. PICK e \in Nat \X Nat : e = End(p)
  BY <1>1
<1>3. HasLeft(End(p))'
  <2>1. HasLeft(e)'
    BY <1>1, <1>2 DEF Grows
  <2>2. e = End(p)'
    BY <1>1, <1>2
  <2>3. QED
    BY <2>1, <2>2 DEF HasLeft
<1>4. h \in 1..Len(sent')
  BY DEF Ahead, Grows
<1>5. ASSUME NEW i \in 1..Pieces', NEW k \in 1..Len(Piece(i)')
      PROVE  Before(e, Piece(i)'[k].at)
  <2>1. CASE Old(s, i, k)
    BY <1>2, <2>1 DEF Old, Ahead
  <2>2. CASE New(s, i, k)
    BY <1>1, <1>2, <2>2 DEF New, HasLeft
  <2>3. QED
    BY <2>1, <2>2 DEF Traced
<1>6. QED
  BY <1>1, <1>2, <1>3, <1>4, <1>5 DEF Ahead, Before

LEMMA AsSentKept ==
  ASSUME Typed, Grows, NEW h \in Nat, NEW p \in Nat, Ahead(h, p), AsSent(h, p)
  PROVE  AsSent(h, p)'
<1>1. /\ p \in 1..Len(sent) /\ h \in 1..Len(sent) /\ h <= p
      /\ sent'[p] = sent[p] /\ sent'[h] = sent[h]
      /\ sent[p] \in Messages /\ sent[h] \in Messages
  BY DEF Ahead, HasLeft, End, Grows, AsSent
<1>2. /\ writeSize(sent[p]) \in Nat /\ HeaderSize \in Nat \ {0}
      /\ writeSize(sent[p]) > HeaderSize
  <2>1. sent[p] \in Messages
    BY <1>1
  <2>2. QED
    BY <2>1, Sizes, HeaderShorter
<1>3. \A o \in Nat : o <= writeSize(sent[p]) => HasLeft(<<p, o>>)
  BY <1>1, <1>2 DEF Ahead, HasLeft, End, Before, Current, Typed
<1>4. \A o \in 1..HeaderSize : HasLeft(<<h, o>>)
  <2>1. CASE h = p
    BY <1>2, <1>3, <2>1
  <2>2. CASE h < p
    <3>1. h < Len(sent) /\ Len(sent) \in Nat
      BY <1>1, <2>2 DEF Grows
    <3>2. QED
      BY <1>1, <3>1 DEF HasLeft, Before, Current
  <2>3. QED
    BY <1>1, <2>1, <2>2
<1>5. \A a \in Nat \X Nat : HasLeft(a) /\ a \notin damaged => a \notin damaged'
  BY DEF Grows
<1>6. \A o \in 1..HeaderSize : <<h, o>> \notin damaged'
  <2>1. ASSUME NEW o \in 1..HeaderSize PROVE <<h, o>> \notin damaged'
    <3>1. <<h, o>> \in Nat \X Nat /\ <<h, o>> \notin damaged
      BY <1>2 DEF AsSent
    <3>2. QED
      BY <1>4, <1>5, <3>1
  <2>2. QED
    BY <2>1
<1>7. \A o \in (1 + HeaderSize)..writeSize(sent[p]) : <<p, o>> \notin damaged'
  BY <1>2, <1>3, <1>5 DEF AsSent
<1>8. QED
  BY <1>1, <1>6, <1>7 DEF AsSent, Damaged, Grows

-----------------------------------------------------------------------------
(* What dispatchData lets through.                                         *)

LEMMA PassesShape ==
  ASSUME Typed, Arrived, NEW h \in 1..Len(sent), NEW p \in 1..Len(sent),
         1 \in 1..Pieces, Passes(Piece(1), h, p)
  PROVE  /\ HeaderSize \in Nat \ {0} /\ writeSize(sent[h]) \in Nat
         /\ writeSize(sent[h]) > HeaderSize /\ writeSize(sent[p]) = writeSize(sent[h])
         /\ FrameSize(sent[h]) = writeSize(sent[h]) + 2
         /\ FrameSize(sent[p]) = writeSize(sent[h]) + 2
         /\ payload(sent[h]) = payload(sent[p])
         /\ Len(Piece(1)) = 1 + writeSize(sent[h])
         /\ \A k \in 1..(1 + HeaderSize) :
              Piece(1)[k].at = <<h, k - 1>> /\ <<h, k - 1>> \notin damaged
         /\ \A k \in (2 + HeaderSize)..(1 + writeSize(sent[h])) :
              Piece(1)[k].at = <<p, k - 1>> /\ <<p, k - 1>> \notin damaged
<1> DEFINE f == Piece(1)
           n == writeSize(sent[h])
<1>1. sent[h] \in Messages /\ sent[p] \in Messages
  BY SeqFacts DEF Typed
<1>2. /\ HeaderSize \in Nat \ {0} /\ TailSize \in Nat \ {0} /\ n \in Nat
      /\ payload(sent[h]) \in Nat /\ n = HeaderSize + payload(sent[h]) + TailSize
      /\ payload(sent[h]) = payload(sent[p]) /\ writeSize(sent[p]) = n
      /\ FrameSize(sent[h]) = n + 2 /\ FrameSize(sent[p]) = n + 2
  BY <1>1, Sizes DEF Passes, PayloadOf
<1>3. Len(f) \in Nat /\ \A k \in 1..Len(f) : f[k].intact => f[k].at \notin damaged
  BY PieceTyped DEF Arrived
<1>4. Len(f) = 1 + n
  BY <1>2, <1>3 DEF Passes, SizeMatches, decodeSize, size
<1>5. ASSUME NEW k \in 1..(1 + HeaderSize)
      PROVE  f[k].at = <<h, k - 1>> /\ <<h, k - 1>> \notin damaged
  <2>1. Holds(f, k, h, k - 1) /\ k \in 1..Len(f)
    BY <1>2, <1>4 DEF Passes, HeaderOf
  <2>2. f[k].at = <<h, k - 1>> /\ f[k].intact
    BY <2>1 DEF Holds
  <2>3. QED
    BY <1>3, <2>1, <2>2
<1>6. ASSUME NEW k \in (2 + HeaderSize)..(1 + n)
      PROVE  f[k].at = <<p, k - 1>> /\ <<p, k - 1>> \notin damaged
  <2>1. Holds(f, k, p, k - 1) /\ k \in 1..Len(f)
    BY <1>2, <1>4 DEF Passes, PayloadOf
  <2>2. f[k].at = <<p, k - 1>> /\ f[k].intact
    BY <2>1 DEF Holds
  <2>3. QED
    BY <1>3, <2>1, <2>2
<1> HIDE DEF f
<1>7. /\ \A k \in 1..(1 + HeaderSize) :
           f[k].at = <<h, k - 1>> /\ <<h, k - 1>> \notin damaged
      /\ \A k \in (2 + HeaderSize)..(1 + n) :
           f[k].at = <<p, k - 1>> /\ <<p, k - 1>> \notin damaged
  BY <1>5, <1>6
<1>8. n > HeaderSize
  BY <1>2
<1> HIDE DEF n
<1>9. QED
  BY <1>2, <1>4, <1>7, <1>8, Zenon DEF f, n

LEMMA PassesAsSent ==
  ASSUME Typed, Arrived, Rising, Gaps, NEW h \in 1..Len(sent), NEW p \in 1..Len(sent),
         1 \in 1..Pieces, Passes(Piece(1), h, p)
  PROVE  AsSent(h, p)
<1> DEFINE f == Piece(1)
           n == writeSize(sent[h])
<1>1. /\ HeaderSize \in Nat \ {0} /\ n \in Nat /\ n > HeaderSize
      /\ writeSize(sent[p]) = n /\ Len(f) = 1 + n
      /\ FrameSize(sent[h]) = n + 2 /\ FrameSize(sent[p]) = n + 2
      /\ payload(sent[h]) = payload(sent[p])
      /\ \A k \in 1..(1 + HeaderSize) :
           f[k].at = <<h, k - 1>> /\ <<h, k - 1>> \notin damaged
      /\ \A k \in (2 + HeaderSize)..(1 + n) :
           f[k].at = <<p, k - 1>> /\ <<p, k - 1>> \notin damaged
  BY PassesShape
<1> HIDE DEF f, n
<1>2. /\ f[1 + HeaderSize].at = <<h, HeaderSize>>
      /\ f[(1 + HeaderSize) + 1].at = <<p, 1 + HeaderSize>>
      /\ 1 + HeaderSize \in 1..Len(f) /\ (1 + HeaderSize) + 1 \in 1..Len(f)
      /\ 1 + HeaderSize \in 1..(Len(f) - 1)
  <2>1. 1 + HeaderSize \in 1..(1 + HeaderSize) /\ (1 + HeaderSize) - 1 = HeaderSize
    BY <1>1
  <2>2. /\ (1 + HeaderSize) + 1 \in (2 + HeaderSize)..(1 + n)
        /\ ((1 + HeaderSize) + 1) - 1 = 1 + HeaderSize
    BY <1>1
  <2>3. f[1 + HeaderSize].at = <<h, (1 + HeaderSize) - 1>>
    BY <1>1, <2>1
  <2>4. f[(1 + HeaderSize) + 1].at = <<p, ((1 + HeaderSize) + 1) - 1>>
    BY <1>1, <2>2
  <2>5. QED
    BY <1>1, <2>1, <2>2, <2>3, <2>4
<1>3. /\ Before(<<h, HeaderSize>>, <<p, 1 + HeaderSize>>)
      /\ AllLost(<<h, HeaderSize>>, <<p, 1 + HeaderSize>>)
  <2>1. Before(f[1 + HeaderSize].at, f[(1 + HeaderSize) + 1].at)
    BY <1>1, <1>2 DEF Rising, f
  <2>2. AllLost(f[1 + HeaderSize].at, f[(1 + HeaderSize) + 1].at)
    BY <1>2 DEF Gaps, f
  <2>3. QED
    BY <1>2, <2>1, <2>2
<1>4. h <= p
  BY <1>3 DEF Before
<1>5. \A o \in 1..HeaderSize : <<h, o>> \notin damaged
  <2> SUFFICES ASSUME NEW o \in 1..HeaderSize PROVE <<h, o>> \notin damaged
    OBVIOUS
  <2>1. o + 1 \in 1..(1 + HeaderSize) /\ (o + 1) - 1 = o
    BY <1>1
  <2>2. <<h, (o + 1) - 1>> \notin damaged
    BY <1>1, <2>1
  <2>3. QED
    BY <2>1, <2>2
<1>6. \A o \in (1 + HeaderSize)..n : <<p, o>> \notin damaged
  <2> SUFFICES ASSUME NEW o \in (1 + HeaderSize)..n PROVE <<p, o>> \notin damaged
    OBVIOUS
  <2>1. o + 1 \in (2 + HeaderSize)..(1 + n) /\ (o + 1) - 1 = o
    BY <1>1
  <2>2. <<p, (o + 1) - 1>> \notin damaged
    BY <1>1, <2>1
  <2>3. QED
    BY <2>1, <2>2
<1>7. ASSUME h # p
      PROVE  /\ \A o \in (1 + HeaderSize)..(FrameSize(sent[h]) - 1) : <<h, o>> \in damaged
             /\ \A o \in 0..HeaderSize : <<p, o>> \in damaged
  <2>1. h < p
    BY <1>4, <1>7
  <2>2. ASSUME NEW o \in (1 + HeaderSize)..(FrameSize(sent[h]) - 1)
        PROVE  <<h, o>> \in damaged
    <3>1. o \in 0..(FrameSize(sent[h]) - 1)
      BY <1>1
    <3>2. Before(<<h, HeaderSize>>, <<h, o>>) /\ Before(<<h, o>>, <<p, 1 + HeaderSize>>)
      BY <1>1, <2>1 DEF Before
    <3>3. QED
      BY <1>3, <3>1, <3>2 DEF AllLost
  <2>3. ASSUME NEW o \in 0..HeaderSize
        PROVE  <<p, o>> \in damaged
    <3>1. o \in 0..(FrameSize(sent[p]) - 1)
      BY <1>1
    <3>2. Before(<<h, HeaderSize>>, <<p, o>>) /\ Before(<<p, o>>, <<p, 1 + HeaderSize>>)
      BY <1>1, <2>1 DEF Before
    <3>3. QED
      BY <1>3, <3>1, <3>2 DEF AllLost
  <2>4. QED
    BY <2>2, <2>3
<1>8. QED
  BY <1>1, <1>4, <1>5, <1>6, <1>7 DEF AsSent, Damaged

LEMMA PassesAhead ==
  ASSUME Typed, Arrived, Rising, Consumed, Dispatches,
         NEW h \in 1..Len(sent), NEW p \in 1..Len(sent), Passes(Head(frames), h, p)
  PROVE  /\ Ahead(h, p)'
         /\ \A c \in 1..Len(consumed) : consumed[c].body < h
<1>1. /\ Traced(1) /\ Pieces \in Nat /\ 1 < Pieces /\ 1 \in 1..Pieces
      /\ Head(frames) = Piece(1)
      /\ UNCHANGED <<sent, off>>
  BY TracedDispatches DEF Dispatches
<1> DEFINE f == Piece(1)
           n == writeSize(sent[h])
<1>2. /\ HeaderSize \in Nat \ {0} /\ n \in Nat /\ n > HeaderSize
      /\ writeSize(sent[p]) = n /\ Len(f) = 1 + n
      /\ \A k \in 1..(1 + HeaderSize) : f[k].at = <<h, k - 1>>
      /\ \A k \in (2 + HeaderSize)..(1 + n) : f[k].at = <<p, k - 1>>
  BY <1>1, PassesShape
<1> HIDE DEF f, n
<1>3. f[1].at = <<h, 0>> /\ 1 \in 1..Len(f)
  <2>1. 1 \in 1..(1 + HeaderSize) /\ 1 - 1 = 0
    BY <1>2
  <2>2. f[1].at = <<h, 1 - 1>>
    BY <1>2, <2>1
  <2>3. QED
    BY <1>2, <2>1, <2>2
<1>4. f[1 + n].at = End(p) /\ 1 + n \in 1..Len(f)
  <2>1. 1 + n \in (2 + HeaderSize)..(1 + n) /\ (1 + n) - 1 = n
    BY <1>2
  <2>2. f[1 + n].at = <<p, (1 + n) - 1>>
    BY <1>2, <2>1
  <2>3. QED
    BY <1>2, <2>1, <2>2 DEF End
<1>5. HasLeft(End(p))
  BY <1>1, <1>4 DEF Arrived, f
<1>6. ASSUME NEW i \in 1..Pieces', NEW k \in 1..Len(Piece(i)')
      PROVE  Before(End(p), Piece(i)'[k].at)
  <2>1. Old(1, i, k)
    BY <1>1, <1>6 DEF Traced, New
  <2>2. /\ i + 1 \in 1..Pieces /\ 1 < i + 1 /\ k \in 1..Len(Piece(i + 1))
        /\ Piece(i)'[k] = Piece(i + 1)[k]
    BY <1>1, <2>1 DEF Old
  <2>3. Before(f[1 + n].at, Piece(i + 1)[k].at)
    BY <1>1, <1>4, <2>2 DEF Rising, f
  <2>4. QED
    BY <1>4, <2>2, <2>3
<1>7. End(p)' = End(p)
  BY <1>1 DEF End
<1>8. Ahead(h, p)'
  BY <1>1, <1>5, <1>6, <1>7 DEF Ahead, HasLeft, Current, Before
<1>9. ASSUME NEW c \in 1..Len(consumed) PROVE consumed[c].body < h
  <2>1. consumed[c] \in [head : Nat, body : Nat]
    BY SeqFacts DEF Typed
  <2> DEFINE q == consumed[c].body
  <2>2. q \in Nat /\ Ahead(consumed[c].head, q)
    BY <2>1 DEF Consumed
  <2> HIDE DEF q
  <2>3. Before(End(q), <<h, 0>>) /\ q \in 1..Len(sent)
    BY <1>1, <1>3, <2>2 DEF Ahead, HasLeft, End, f
  <2>4. writeSize(sent[q]) \in Nat
    <3>1. sent[q] \in Messages
      BY <2>3, SeqFacts DEF Typed
    <3>2. QED
      BY <3>1, Sizes
  <2>5. QED
    BY <2>2, <2>3, <2>4 DEF Before, End, q
<1>10. QED
  BY <1>8, <1>9

-----------------------------------------------------------------------------
(* Every step keeps the invariant.                                         *)

LEMMA StreamKept ==
  ASSUME UplinkInv, Grows, NEW s \in {0, 1}, Traced(s)
  PROVE  /\ Typed' /\ Arrived' /\ Rising' /\ Gaps'
         /\ \A c \in 1..Len(consumed) :
              \A h, p : h = consumed[c].head /\ p = consumed[c].body
                          => Ahead(h, p)' /\ AsSent(h, p)'
<1> USE DEF UplinkInv
<1>1. Typed' /\ Arrived' /\ Rising' /\ Gaps'
  BY ArrivedKept, RisingKept, GapsKept DEF Grows
<1>2. ASSUME NEW c \in 1..Len(consumed),
             NEW h, NEW p, h = consumed[c].head, p = consumed[c].body
      PROVE  Ahead(h, p)' /\ AsSent(h, p)'
  <2>1. h \in Nat /\ p \in Nat
    <3>1. consumed[c] \in [head : Nat, body : Nat]
      BY SeqFacts DEF Typed
    <3>2. QED
      BY <1>2, <3>1
  <2>2. Ahead(h, p) /\ AsSent(h, p)
    BY <1>2 DEF Consumed
  <2>3. QED
    BY <2>1, <2>2, AheadKept, AsSentKept
<1>3. QED
  BY <1>1, <1>2

LEMMA InvKept ==
  ASSUME UplinkInv, Grows, NEW s \in {0, 1}, Traced(s), LastGap', consumed' = consumed
  PROVE  UplinkInv'
<1>1. Typed' /\ Arrived' /\ Rising' /\ Gaps'
  BY StreamKept
<1>2. Consumed'
  <2> SUFFICES ASSUME NEW c \in 1..Len(consumed)
               PROVE  \A h, p : h = consumed[c].head /\ p = consumed[c].body
                                  => Ahead(h, p)' /\ AsSent(h, p)'
    BY DEF Consumed, Ahead, AsSent, HasLeft, Before, End, Damaged
  <2>1. QED
    BY StreamKept
<1>3. InOrder'
  BY DEF UplinkInv, InOrder
<1>4. QED
  BY <1>1, <1>2, <1>3 DEF UplinkInv

LEMMA LastGapQuiet ==
  ASSUME LastGap, UNCHANGED <<sent, off, damaged, buffer>>
  PROVE  LastGap'
BY DEF LastGap, AllLost, Current

LEMMA TakesKept ==
  ASSUME UplinkInv, Dispatches, Takes
  PROVE  UplinkInv'
<1>1. Typed /\ Arrived /\ Rising /\ Gaps /\ LastGap /\ Consumed /\ InOrder
  BY DEF UplinkInv
<1>2. PICK h \in 1..Len(sent), p \in 1..Len(sent) :
        Passes(Head(frames), h, p) /\ consumed' = Append(consumed, [head |-> h, body |-> p])
  BY <1>1, SeqFacts DEF Takes, Typed
<1> DEFINE e == [head |-> h, body |-> p]
<1>3. /\ consumed' \in Seq([head : Nat, body : Nat])
      /\ Len(consumed) \in Nat /\ Len(consumed') = Len(consumed) + 1
      /\ \A c \in 1..Len(consumed) : consumed'[c] = consumed[c]
      /\ consumed'[Len(consumed) + 1] = e
  <2>1. e \in [head : Nat, body : Nat]
    BY <1>1, SeqFacts DEF Typed
  <2> HIDE DEF e
  <2>2. consumed' = Append(consumed, e)
    BY <1>2 DEF e
  <2>3. QED
    BY <1>1, <2>1, <2>2, AppendFacts DEF Typed
<1>4. Traced(1) /\ Grows /\ Head(frames) = Piece(1) /\ 1 \in 1..Pieces
  BY <1>1, <1>3, TracedDispatches, DispatchGrows
<1>5. /\ Typed' /\ Arrived' /\ Rising' /\ Gaps'
      /\ \A c \in 1..Len(consumed) :
           \A q, r : q = consumed[c].head /\ r = consumed[c].body
                       => Ahead(q, r)' /\ AsSent(q, r)'
  BY <1>4, StreamKept
<1>6. LastGap'
  BY <1>1, LastGapQuiet DEF Dispatches
<1>7. Ahead(h, p)' /\ \A c \in 1..Len(consumed) : consumed[c].body < h
  BY <1>1, <1>2, PassesAhead
<1>8. AsSent(h, p)'
  <2>1. AsSent(h, p)
    BY <1>1, <1>2, <1>4, PassesAsSent
  <2>2. UNCHANGED <<sent, damaged>>
    BY DEF Dispatches
  <2>3. QED
    BY <2>1, <2>2 DEF AsSent, Damaged
<1>9. Consumed'
  <2> SUFFICES ASSUME NEW c \in 1..Len(consumed')
               PROVE  \A q, r : q = consumed'[c].head /\ r = consumed'[c].body
                                  => Ahead(q, r)' /\ AsSent(q, r)'
    BY DEF Consumed, Ahead, AsSent, HasLeft, Before, End, Damaged
  <2>1. CASE c \in 1..Len(consumed)
    BY <1>3, <1>5, <2>1
  <2>2. CASE c = Len(consumed) + 1
    BY <1>3, <1>7, <1>8, <2>2
  <2>3. c \in 1..Len(consumed) \/ c = Len(consumed) + 1
    <3>1. Len(consumed) \in Nat /\ Len(consumed') = Len(consumed) + 1
      BY <1>3
    <3>2. QED
      BY <3>1
  <2>4. QED
    BY <2>1, <2>2, <2>3
<1>10. InOrder'
  <2> SUFFICES ASSUME NEW j \in 1..Len(consumed'), NEW k \in 1..Len(consumed'), j < k
               PROVE  consumed'[j].body < consumed'[k].head
    BY DEF InOrder
  <2>0. Len(consumed) \in Nat /\ Len(consumed') = Len(consumed) + 1
    BY <1>3
  <2>1. j \in 1..Len(consumed) /\ consumed'[j] = consumed[j]
    <3>1. j \in 1..Len(consumed)
      BY <2>0
    <3>2. QED
      BY <1>3, <3>1
  <2>2. CASE k \in 1..Len(consumed)
    BY <1>1, <1>3, <2>1, <2>2 DEF InOrder
  <2>3. CASE k = Len(consumed) + 1
    BY <1>3, <1>7, <2>1, <2>3
  <2>4. k \in 1..Len(consumed) \/ k = Len(consumed) + 1
    BY <2>0
  <2>5. QED
    BY <2>2, <2>3, <2>4
<1>11. QED
  BY <1>5, <1>6, <1>9, <1>10 DEF UplinkInv

LEMMA UplinkNext == UplinkInv /\ [Next]_vars => UplinkInv'
<1> SUFFICES ASSUME UplinkInv, [Next]_vars PROVE UplinkInv'
  OBVIOUS
<1>1. Typed /\ LastGap
  BY DEF UplinkInv
<1>2. CASE Sends
  <2>1. Grows /\ Traced(0) /\ LastGap' /\ consumed' = consumed
    BY <1>1, <1>2, SendGrows, TracedSame, LastGapSends DEF Sends
  <2>2. QED
    BY <2>1, InvKept
<1>3. CASE Reads
  <2>1. Traced(0) /\ LastGap' /\ buffer' \in Seq(Bytes)
    BY <1>1, <1>3, TracedReads, LastGapReads
  <2>2. Moves /\ frames' = frames /\ consumed' = consumed
    BY <1>3 DEF Reads, ReadByte, Moves
  <2>3. Grows
    BY <1>1, <2>1, <2>2, MoveGrows DEF Typed
  <2>4. QED
    BY <2>1, <2>2, <2>3, InvKept
<1>4. CASE Cuts
  <2>1. Traced(0) /\ frames' \in Seq(Seq(Bytes)) /\ buffer' = <<>>
    BY <1>1, <1>4, TracedCuts
  <2>2. Moves /\ consumed' = consumed /\ LastGap' /\ buffer' \in Seq(Bytes)
    BY <1>4, <2>1 DEF Cuts, Moves, LastGap
  <2>3. Grows
    BY <1>1, <2>1, <2>2, MoveGrows
  <2>4. QED
    BY <2>1, <2>2, <2>3, InvKept
<1>5. CASE Swallows
  <2>1. Moves /\ UNCHANGED <<frames, buffer, consumed>>
    BY <1>5 DEF Swallows, Moves
  <2>2. Grows /\ Traced(0) /\ LastGap'
    BY <1>1, <1>5, <2>1, MoveGrows, TracedSame, LastGapSwallows DEF Typed
  <2>3. QED
    BY <2>1, <2>2, InvKept
<1>6. CASE Same
  <2>1. Typed' /\ LastGap' /\ Traced(0)
    BY <1>1, <1>6, TracedSame, LastGapQuiet DEF Same, Typed
  <2>2. Grows
    BY <1>1, <1>6, <2>1, QuietGrows DEF Same
  <2>3. QED
    BY <1>6, <2>1, <2>2, InvKept DEF Same
<1>7. CASE Dispatches /\ Takes
  BY <1>7, TakesKept
<1>8. CASE Dispatches /\ consumed' = consumed
  <2>1. Grows /\ Traced(1) /\ LastGap'
    BY <1>1, <1>8, TracedDispatches, DispatchGrows, LastGapQuiet DEF Dispatches, Typed
  <2>2. QED
    BY <1>8, <2>1, InvKept
<1>9. QED
  BY <1>2, <1>3, <1>4, <1>5, <1>6, <1>7, <1>8, Steps

LEMMA UplinkInit == Init => UplinkInv
<1> SUFFICES ASSUME Init PROVE UplinkInv
  OBVIOUS
<1>1. /\ sent = <<>> /\ off = 0 /\ frames = <<>> /\ buffer = <<>> /\ consumed = <<>>
      /\ Len(<<>>) = 0 /\ \A S : <<>> \in Seq(S)
  BY DEF Init
<1>2. Typed
  BY <1>1 DEF Typed
<1>3. Pieces = 1 /\ Piece(1) = <<>> /\ \A i \in 1..1 : i = 1
  BY <1>1 DEF Pieces, Piece
<1>4. \A i \in 1..Pieces : Len(Piece(i)) = 0
  BY <1>1, <1>3
<1>5. Arrived /\ Rising /\ Gaps /\ LastGap /\ Consumed /\ InOrder
  BY <1>1, <1>4 DEF Arrived, Rising, Gaps, LastGap, Consumed, InOrder
<1>6. QED
  BY <1>2, <1>5 DEF UplinkInv

LEMMA UplinkSeen == UplinkInv => ConsumedAsSent
<1> SUFFICES ASSUME UplinkInv PROVE ConsumedAsSent
  OBVIOUS
<1>1. DOMAIN consumed = 1..Len(consumed)
  BY SeqFacts DEF UplinkInv, Typed
<1>2. ASSUME NEW k \in 1..Len(consumed)
      PROVE  AsSent(consumed[k].head, consumed[k].body)
  BY DEF UplinkInv, Consumed
<1>3. QED
  BY <1>1, <1>2 DEF ConsumedAsSent, AsSent, UplinkInv, InOrder

(* A consumer gets what was sent, in order, once, for every size of the    *)
(* messages and whatever the line corrupts or loses; a header is followed  *)
(* by the payload of another message only when the line lost all between.  *)
THEOREM ConsumedAsSentAlways == Spec => []ConsumedAsSent
  BY UplinkInit, UplinkNext, UplinkSeen, PTL DEF Spec

-----------------------------------------------------------------------------
(* The types that the invariant does not fix: bounds, damage, and that no  *)
(* empty piece waits.                                                      *)
Bounded ==
  /\ Len(sent) <= MaxMessages /\ faults \in 0..MaxFaults
  /\ damaged \subseteq (1..Len(sent)) \X Nat
  /\ \A k \in 1..Len(frames) : frames[k] # <<>>

LEMMA BoundsNext ==
  ASSUME UplinkInv, Bounded, [Next]_vars
  PROVE  Len(sent') <= MaxMessages /\ faults' \in 0..MaxFaults
<1>1. MaxMessages \in Nat /\ MaxFaults \in Nat
  BY UplinkAssumption
<1>2. sent \in Seq(Messages) /\ Len(sent) \in Nat
  BY SeqFacts DEF UplinkInv, Typed
<1>3. CASE \E m \in Messages : Send(m)
  <2>1. PICK m \in Messages : Send(m)
    BY <1>3
  <2>2. Len(sent') = Len(sent) + 1
    BY <1>2, <2>1, AppendFacts DEF Send
  <2>3. QED
    BY <1>1, <1>2, <2>1, <2>2 DEF Send, Bounded
<1>4. CASE ~\E m \in Messages : Send(m)
  BY <1>1, <1>4
  DEF Next, vars, air, ArriveByte, ArriveZero, CorruptByte, CorruptZero, Arrives, Fault,
      LoseByte, LoseMore, NotListening, Lost, Listen, Consume, Reject, Dispatched, Bounded
<1>5. QED
  BY <1>3, <1>4

LEMMA BoundedNext == UplinkInv /\ Bounded /\ [Next]_vars => Bounded'
<1> SUFFICES ASSUME UplinkInv, Bounded, [Next]_vars PROVE Bounded'
  OBVIOUS
<1>1. Typed
  BY DEF UplinkInv
<1>2. Len(sent) \in Nat /\ Len(frames) \in Nat
  BY <1>1, SeqFacts DEF Typed
<1>3. damaged' \subseteq (1..Len(sent')) \X Nat
  <2>1. CASE Sends
    BY <1>1, <1>2, <2>1, SendGrows DEF Sends, Bounded
  <2>2. CASE Moves
    <3>1. Current \in (1..Len(sent)) \X Nat
      BY <1>1, <2>2, SeqFacts DEF Typed, Moves, Sending, Current
    <3>2. QED
      BY <2>2, <3>1 DEF Moves, Bounded
  <2>3. CASE UNCHANGED <<sent, damaged>>
    BY <2>3 DEF Bounded
  <2>4. QED
    BY <2>1, <2>2, <2>3, Steps DEF Reads, Cuts, Swallows, Same, Dispatches
<1>4. \A k \in 1..Len(frames') : frames'[k] # <<>>
  <2>1. CASE UNCHANGED frames
    BY <2>1 DEF Bounded
  <2>2. CASE Cuts /\ buffer # <<>>
    <3>1. frames' = Append(frames, buffer)
      BY <2>2 DEF Cuts, ReadZero, AfterZero
    <3>2. QED
      BY <1>1, <2>2, <3>1, AppendFacts DEF Typed, Bounded
  <2>3. CASE Dispatches
    <3>1. /\ Len(frames) \in Nat \ {0} /\ Len(frames') = Len(frames) - 1
          /\ \A k \in 1..Len(frames') : frames'[k] = frames[k + 1]
      BY <1>1, <2>3, TailFacts DEF Typed, Dispatches
    <3>2. QED
      BY <3>1 DEF Bounded
  <2>4. QED
    BY <2>1, <2>2, <2>3, Steps
    DEF Sends, Reads, ReadByte, Cuts, ReadZero, AfterZero, Swallows, Same
<1>5. QED
  BY <1>3, <1>4, BoundsNext DEF Bounded

LEMMA BoundedTypes == UplinkInv /\ Bounded => TypeOK
<1> SUFFICES ASSUME UplinkInv, Bounded PROVE TypeOK
  OBVIOUS
<1>1. Typed /\ Consumed
  BY DEF UplinkInv
<1>2. DOMAIN sent = 1..Len(sent) /\ DOMAIN frames = 1..Len(frames)
  BY <1>1, SeqFacts DEF Typed
<1>3. consumed \in Seq([head : DOMAIN sent, body : DOMAIN sent])
  <2> DEFINE R == [head : DOMAIN sent, body : DOMAIN sent]
  <2>1. ASSUME NEW c \in 1..Len(consumed) PROVE consumed[c] \in R
    <3>1. consumed[c] \in [head : Nat, body : Nat]
      BY <1>1, SeqFacts DEF Typed
    <3>2. consumed[c].head \in DOMAIN sent /\ consumed[c].body \in DOMAIN sent
      BY <1>1, <1>2 DEF Consumed, Ahead, HasLeft, End
    <3>3. QED
      BY <3>1, <3>2
  <2>2. Len(consumed) \in Nat /\ consumed = [c \in 1..Len(consumed) |-> consumed[c]]
    BY <1>1 DEF Typed
  <2> HIDE DEF R
  <2>3. consumed \in [1..Len(consumed) -> R]
    BY <2>1, <2>2
  <2>4. PICK n \in Nat : consumed \in [1..n -> R]
    BY <2>2, <2>3
  <2>5. consumed \in Seq(R)
    BY <2>4
  <2>6. QED
    BY <2>5 DEF R
<1>4. QED
  BY <1>1, <1>2, <1>3 DEF TypeOK, Bounded, Typed

(* The types: no piece outgrows what was sent, no empty one waits, every   *)
(* damaged byte belongs to a message, and so does all that was consumed.   *)
THEOREM TypeCorrect == Spec => []TypeOK
<1>1. Init => Bounded
  BY UplinkAssumption DEF Init, Bounded
<1>2. QED
  BY <1>1, UplinkInit, UplinkNext, BoundedNext, BoundedTypes, PTL DEF Spec
=============================================================================
