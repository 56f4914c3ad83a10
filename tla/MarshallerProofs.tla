-------------------------- MODULE MarshallerProofs --------------------------
(***************************************************************************)
(* Proofs about Marshaller, for every set of messages, those included of   *)
(* which the buffer holds more than the count byte can name: its types,    *)
(* its buffer, what it announces and that it is a MessageStream.           *)
(***************************************************************************)
EXTENDS Marshaller, SequenceTheorems, WellFoundedInduction, TLAPS

(* The constants as the arithmetic of the proofs needs them.               *)
LEMMA ConstantTypes ==
  /\ HeaderSize \in Nat /\ BufSize \in Nat /\ HeaderSize <= BufSize
  /\ CountMod \in Nat /\ CountMod > 1
  /\ SequenceMod \in Nat /\ SequenceMod > 0
BY SizeAssumption, ModAssumption

LEMMA SizeType ==
  ASSUME NEW m \in Msg
  PROVE  Size[m] \in Nat /\ Size[m] > 0 /\ HeaderSize + Size[m] <= BufSize
BY SizeAssumption

LEMMA AppendType ==
  ASSUME NEW S, NEW seq \in Seq(S), NEW e \in S
  PROVE  Append(seq, e) \in Seq(S)
OBVIOUS

(* The pointer stays between the header and the end of m_buf, and the type *)
(* invariant holds, whatever is written, flushed, refused or thrown        *)
(* (marshaller.cpp:92-121).                                                *)
Bounds == TypeOK /\ BufferBounds

LEMMA BoundsInit == Init => Bounds
BY ConstantTypes DEF Init, Bounds, TypeOK, BufferBounds

(* flush() leaves a buffer of the message that asked for room.             *)
LEMMA FlushBounds ==
  ASSUME Bounds, NEW ok \in BOOLEAN, NEW rest \in Seq(Msg), NEW used \in Nat,
         HeaderSize + used <= BufSize, Len(rest) <= 1,
         FlushInto(ok, rest, used)
  PROVE  Bounds'
<1> DEFINE d == [seq |-> sequence, n |-> count, msgs |-> buf]
<1>0. /\ buf \in Seq(Msg) /\ wire \in Seq(Datagram)
      /\ count \in 0 .. CountMod - 1 /\ sequence \in 0 .. SequenceMod - 1
      /\ good \in BOOLEAN
  BY DEF Bounds, TypeOK
<1>1. wire' \in Seq(Datagram)
  <2>1. d \in Datagram
    BY <1>0 DEF Datagram
  <2>2. wire' = wire \/ wire' = Append(wire, d)
    BY DEF FlushInto
  <2> HIDE DEF d
  <2> QED BY <1>0, <2>1, <2>2, AppendType
<1>2. good' \in BOOLEAN
  BY <1>0 DEF FlushInto, GoodAfter
<1>3. count' \in 0 .. CountMod - 1
  BY <1>0, ConstantTypes DEF FlushInto, CountAfter
<1>4. buf' \in Seq(Msg)
  BY DEF FlushInto
<1>5. sequence' \in 0 .. SequenceMod - 1
  BY <1>0, ConstantTypes DEF FlushInto, NextSequence
<1>6. /\ ptr' \in Nat
      /\ HeaderSize <= ptr' /\ ptr' <= BufSize
  BY ConstantTypes DEF FlushInto, PtrAfter
<1> QED BY <1>1, <1>2, <1>3, <1>4, <1>5, <1>6 DEF Bounds, TypeOK, BufferBounds

LEMMA FitsBounds ==
  ASSUME Bounds, NEW m \in Msg, WriteFits(m)
  PROVE  Bounds'
<1>1. /\ Size[m] \in Nat /\ CountMod \in Nat \ {0}
      /\ count \in 0 .. CountMod - 1 /\ ptr \in Nat
  BY SizeType, ConstantTypes DEF Bounds, TypeOK
<1>2. count' \in 0 .. CountMod - 1
  BY <1>1 DEF WriteFits
<1>3. buf' \in Seq(Msg)
  BY DEF Bounds, TypeOK, WriteFits
<1>4. ptr' \in Nat /\ HeaderSize <= ptr' /\ ptr' <= BufSize
  BY <1>1, ConstantTypes DEF Bounds, BufferBounds, WriteFits, HasSpace
<1> QED BY <1>2, <1>3, <1>4 DEF Bounds, TypeOK, BufferBounds, WriteFits

LEMMA BoundsNext == Bounds /\ [Next]_vars => Bounds'
<1> SUFFICES ASSUME Bounds, [Next]_vars PROVE Bounds'
  OBVIOUS
<1>1. ASSUME NEW ok \in BOOLEAN, Flush(ok) PROVE Bounds'
  <2>1. HeaderSize + 0 <= BufSize
    BY ConstantTypes
  <2>2. <<>> \in Seq(Msg) /\ Len(<<>>) <= 1 /\ 0 \in Nat
    OBVIOUS
  <2> QED BY <1>1, <2>1, <2>2, FlushBounds DEF Flush
<1>2. ASSUME NEW m \in Msg, NEW ok \in BOOLEAN, Write(m, ok) PROVE Bounds'
  <2>1. CASE WriteFits(m)
    BY <2>1, FitsBounds
  <2>2. CASE WriteFlushes(m, ok)
    <3>1. /\ FlushInto(ok, <<m>>, Size[m])
          /\ Size[m] \in Nat /\ HeaderSize + Size[m] <= BufSize
          /\ <<m>> \in Seq(Msg) /\ Len(<<m>>) <= 1
      BY <2>2, SizeType DEF WriteFlushes
    <3> QED BY <3>1, FlushBounds
  <2> QED BY <1>2, <2>1, <2>2 DEF Write
<1>3. CASE UNCHANGED vars
  BY <1>3 DEF vars, Bounds, TypeOK, BufferBounds
<1> QED BY <1>1, <1>2, <1>3 DEF Next, FlushThrows, WriteThrows

(* Every state of the marshaller satisfies its type invariant.             *)
THEOREM TypeCorrect == Spec => []TypeOK
<1>1. Spec => []Bounds
  BY BoundsInit, BoundsNext, PTL DEF Spec
<1>2. Bounds => TypeOK
  BY DEF Bounds
<1> QED BY <1>1, <1>2, PTL

(* No write leaves the buffer: initialze_msg() always returns a place with *)
(* room for the message behind the header (marshaller.cpp:112-115).        *)
THEOREM BufferNeverOverflows == Spec => []BufferBounds
<1>1. Spec => []Bounds
  BY BoundsInit, BoundsNext, PTL DEF Spec
<1>2. Bounds => BufferBounds
  BY DEF Bounds
<1> QED BY <1>1, <1>2, PTL

-----------------------------------------------------------------------------
(* The count byte and the messages in the buffer: it may have wrapped, but  *)
(* not while they are fewer than it can name.                              *)
Counted ==
  /\ Bounds
  /\ count <= Len(buf)
  /\ Len(buf) < CountMod => count = Len(buf)
  /\ CountHonest

LEMMA CountedInit == Init => Counted
<1> SUFFICES ASSUME Init PROVE Counted
  OBVIOUS
<1>1. Bounds
  BY BoundsInit
<1> QED BY <1>1 DEF Init, Counted, CountHonest

(* What a flush leaves on the wire was there before or is the buffer.      *)
LEMMA SentByFlush ==
  ASSUME Bounds, NEW ok, NEW rest, NEW used, FlushInto(ok, rest, used),
         NEW i \in DOMAIN wire'
  PROVE  \/ i \in DOMAIN wire /\ wire'[i] = wire[i]
         \/ /\ count > 0
            /\ wire'[i] = [seq |-> sequence, n |-> count, msgs |-> buf]
<1> DEFINE d == [seq |-> sequence, n |-> count, msgs |-> buf]
<1>1. wire \in Seq(Datagram)
  BY DEF Bounds, TypeOK
<1>2. wire' = wire \/ (count > 0 /\ wire' = Append(wire, d))
  BY DEF FlushInto, CallsBack
<1> HIDE DEF d
<1>3. CASE count > 0 /\ wire' = Append(wire, d)
  <2>1. CASE i \in DOMAIN wire
    BY <1>1, <1>3, <2>1
  <2>2. CASE i = Len(wire) + 1
    <3>1. wire'[i] = d
      BY <1>1, <1>3, <2>2
    <3> QED BY <1>3, <3>1 DEF d
  <2> QED BY <1>1, <1>3, <2>1, <2>2
<1> QED BY <1>2, <1>3

(* A flush of a count that is exact leaves the announcements exact.        *)
LEMMA AnnouncedFlush ==
  ASSUME Bounds, CountAnnounced, count = Len(buf),
         NEW ok, NEW rest, NEW used, FlushInto(ok, rest, used)
  PROVE  CountAnnounced'
<1> SUFFICES ASSUME NEW i \in DOMAIN wire'
             PROVE  wire'[i].n = Len(wire'[i].msgs)
  BY DEF CountAnnounced
<1>1. \/ i \in DOMAIN wire /\ wire'[i] = wire[i]
      \/ wire'[i] = [seq |-> sequence, n |-> count, msgs |-> buf]
  BY SentByFlush
<1> QED BY <1>1 DEF CountAnnounced

LEMMA CountedFlush ==
  ASSUME Counted, Bounds',
         NEW ok \in BOOLEAN, NEW rest \in Seq(Msg), NEW used \in Nat,
         FlushInto(ok, rest, used)
  PROVE  Counted'
<1>1. count' = Len(buf') /\ Len(buf') \in Nat
  BY DEF FlushInto, CountAfter
<1>2. CountHonest'
  <2>1. /\ Len(buf) \in Nat /\ count \in Nat /\ count <= Len(buf)
        /\ Len(buf) < CountMod => count = Len(buf)
    BY ConstantTypes DEF Counted, Bounds, TypeOK
  <2> SUFFICES ASSUME NEW i \in DOMAIN wire'
               PROVE  /\ wire'[i].n \in 1 .. Len(wire'[i].msgs)
                      /\ Len(wire'[i].msgs) < CountMod =>
                           wire'[i].n = Len(wire'[i].msgs)
    BY DEF CountHonest
  <2>2. CASE i \in DOMAIN wire /\ wire'[i] = wire[i]
    BY <2>2 DEF Counted, CountHonest
  <2>3. CASE /\ count > 0
             /\ wire'[i] = [seq |-> sequence, n |-> count, msgs |-> buf]
    BY <2>1, <2>3
  <2> QED BY <2>2, <2>3, SentByFlush DEF Counted
<1> QED BY <1>1, <1>2 DEF Counted

LEMMA CountedFits ==
  ASSUME Counted, Bounds', NEW m \in Msg, WriteFits(m)
  PROVE  Counted'
<1>1. /\ Len(buf) \in Nat /\ count \in 0 .. CountMod - 1 /\ count <= Len(buf)
      /\ Len(buf) < CountMod => count = Len(buf)
      /\ Len(buf') = Len(buf) + 1 /\ CountMod \in Nat
  BY ConstantTypes DEF Counted, Bounds, TypeOK, WriteFits
<1>2. count' = (count + 1) % CountMod
  BY DEF WriteFits
<1>3. CASE count + 1 < CountMod
  <2>1. count' = count + 1
    BY <1>1, <1>2, <1>3
  <2> QED BY <1>1, <2>1 DEF Counted, CountHonest, WriteFits
<1>4. CASE count + 1 = CountMod
  <2>1. count' = 0
    BY <1>1, <1>2, <1>4
  <2>2. ~ (Len(buf') < CountMod)
    BY <1>1, <1>4
  <2> QED BY <1>1, <2>1, <2>2 DEF Counted, CountHonest, WriteFits
<1> QED BY <1>1, <1>3, <1>4

LEMMA CountedNext == Counted /\ [Next]_vars => Counted'
<1> SUFFICES ASSUME Counted, [Next]_vars PROVE Counted'
  OBVIOUS
<1>1. Bounds'
  BY BoundsNext DEF Counted
<1>2. ASSUME NEW ok \in BOOLEAN, Flush(ok) PROVE Counted'
  <2>1. <<>> \in Seq(Msg) /\ 0 \in Nat
    OBVIOUS
  <2> QED BY <1>1, <1>2, <2>1, CountedFlush DEF Flush
<1>3. ASSUME NEW m \in Msg, NEW ok \in BOOLEAN, Write(m, ok) PROVE Counted'
  <2>1. CASE WriteFits(m)
    BY <1>1, <2>1, CountedFits
  <2>2. CASE WriteFlushes(m, ok)
    <3>1. <<m>> \in Seq(Msg) /\ Size[m] \in Nat
      BY SizeType
    <3> QED BY <1>1, <2>2, <3>1, CountedFlush DEF WriteFlushes
  <2> QED BY <1>3, <2>1, <2>2 DEF Write
<1>4. CASE UNCHANGED vars
  BY <1>4, <1>1 DEF vars, Counted, CountHonest
<1> QED BY <1>2, <1>3, <1>4 DEF Next, FlushThrows, WriteThrows

(* Each datagram announces messages it holds, one at least, and all of     *)
(* them if they are fewer than the count byte can name, whatever is        *)
(* written, refused or thrown between two flushes (marshaller.cpp:98-121). *)
THEOREM CountIsHonest == Spec => []CountHonest
<1>1. Counted => CountHonest
  BY DEF Counted
<1> QED BY CountedInit, CountedNext, <1>1, PTL DEF Spec

-----------------------------------------------------------------------------
(* The steps of the marshaller as steps of MessageStream.                  *)
LEMMA ReadsAll == ASSUME NEW S, NEW q \in Seq(S) PROVE SubSeq(q, 1, Len(q)) = q
OBVIOUS

Batches == [i \in DOMAIN wire |-> Readable(wire[i])]

LEMMA AppendBatch ==
  ASSUME Bounds, NEW d, wire' = Append(wire, d)
  PROVE  Batches' = Append(Batches, Readable(d))
<1>1. wire \in Seq(Datagram)
  BY DEF Bounds, TypeOK
<1>2. DOMAIN wire = 1 .. Len(wire) /\ Len(wire) \in Nat
  BY <1>1
<1>3. /\ DOMAIN wire' = 1 .. Len(wire) + 1
      /\ wire'[Len(wire) + 1] = d
      /\ \A i \in 1 .. Len(wire) : wire'[i] = wire[i]
  BY <1>1, <1>2
<1> DEFINE S == {Readable(wire[i]) : i \in DOMAIN wire} \cup {Readable(d)}
           new == Append(Batches, Readable(d))
<1>4. Batches \in Seq(S) /\ Len(Batches) = Len(wire)
  BY <1>2 DEF Batches
<1>5. /\ new \in Seq(S) /\ Len(new) = Len(wire) + 1
      /\ new[Len(wire) + 1] = Readable(d)
      /\ \A i \in 1 .. Len(wire) : new[i] = Readable(wire[i])
  <2>1. Readable(d) \in S
    OBVIOUS
  <2> HIDE DEF S
  <2>2. \A i \in 1 .. Len(wire) : Batches[i] = Readable(wire[i])
    BY <1>2 DEF Batches
  <2> QED BY <1>4, <2>1, <2>2, AppendProperties
<1>6. Batches' = [i \in 1 .. Len(wire) + 1 |-> Readable(wire'[i])]
  BY <1>3 DEF Batches, Readable
<1>7. /\ Batches' \in Seq(S) /\ Len(Batches') = Len(wire) + 1
      /\ \A i \in 1 .. Len(wire) + 1 : Batches'[i] = new[i]
  <2>1. \A i \in 1 .. Len(wire) + 1 : Readable(wire'[i]) = new[i]
    BY <1>2, <1>3, <1>5
  <2>2. \A i \in 1 .. Len(wire) + 1 : new[i] \in S
    BY <1>5
  <2> HIDE DEF S, new
  <2> QED BY <1>2, <1>6, <2>1, <2>2
<1> HIDE DEF S, new
<1>8. Batches' = new
  BY <1>5, <1>7, SeqEqual
<1> QED BY <1>8 DEF new

LEMMA EmptyBuffer ==
  ASSUME Counted, count = 0, Len(buf) < CountMod PROVE buf = <<>>
<1>1. buf \in Seq(Msg) /\ Len(buf) = 0
  BY DEF Counted, Bounds, TypeOK
<1> QED BY <1>1, EmptySeq

LEMMA FlushIsStreamStep ==
  ASSUME Counted, NEW ok \in BOOLEAN, NEW rest, NEW used,
         FlushInto(ok, rest, used)
  PROVE  \/ buf = <<>> /\ Batches' = Batches /\ good' = good /\ buf' = rest
         \/ Stream!HandOver(rest) \/ Stream!Lose(rest) \/ Stream!Overrun(rest)
<1>1. /\ buf \in Seq(Msg) /\ Len(buf) \in Nat /\ count \in 0 .. CountMod - 1
      /\ Len(buf) < CountMod => count = Len(buf)
      /\ count <= Len(buf) /\ CountMod \in Nat
      /\ good \in BOOLEAN /\ Bounds
  BY ConstantTypes DEF Counted, Bounds, TypeOK
<1>2. buf' = rest
  BY DEF FlushInto
<1>3. CASE count = 0
  <2>1. Batches' = Batches /\ good' = good
    BY <1>1, <1>3 DEF FlushInto, CallsBack, GoodAfter, Batches
  <2>2. CASE Len(buf) < CountMod
    BY <1>2, <1>3, <2>1, <2>2, EmptyBuffer
  <2>3. CASE Len(buf) >= CountMod
    BY <1>2, <2>1, <2>3 DEF Stream!Overrun, Batches
  <2> QED BY <1>1, <2>2, <2>3
<1>4. CASE count > 0 /\ good /\ ok
  <2> DEFINE d == [seq |-> sequence, n |-> count, msgs |-> buf]
  <2>1. wire' = Append(wire, d) /\ good' = good
    BY <1>4 DEF FlushInto, CallsBack, GoodAfter
  <2>2. Readable(d) = SubSeq(buf, 1, count)
    BY DEF Readable
  <2> HIDE DEF d
  <2>3. Batches' = Append(Batches, SubSeq(buf, 1, count))
    BY <1>1, <2>1, <2>2, AppendBatch
  <2>4. CASE Len(buf) < CountMod
    <3>1. SubSeq(buf, 1, count) = buf
      BY <1>1, <2>4, ReadsAll
    <3>2. buf # <<>>
      BY <1>1, <1>4
    <3> QED BY <1>2, <1>4, <2>1, <2>3, <2>4, <3>1, <3>2
            DEF Stream!HandOver, Batches
  <2>5. CASE Len(buf) >= CountMod
    <3>1. count \in 1 .. CountMod - 1
      BY <1>1, <1>4
    <3> QED BY <1>2, <1>4, <2>1, <2>3, <2>5, <3>1 DEF Stream!Overrun, Batches
  <2> QED BY <1>1, <2>4, <2>5
<1>5. CASE count > 0 /\ ~ (good /\ ok)
  <2>1. wire' = wire /\ good' = FALSE
    BY <1>1, <1>5 DEF FlushInto, CallsBack, GoodAfter
  <2>2. buf # <<>>
    BY <1>1, <1>5
  <2> QED BY <1>2, <2>1, <2>2 DEF Stream!Lose, Batches
<1> QED BY <1>1, <1>3, <1>4, <1>5

LEMMA StreamStep ==
  ASSUME Counted, [Next]_vars
  PROVE  [Stream!Next]_(Stream!vars)
<1> USE DEF Stream!Next, Stream!vars
<1>1. ASSUME NEW ok \in BOOLEAN, Flush(ok) PROVE [Stream!Next]_(Stream!vars)
  <2>1. CASE buf = <<>> /\ Batches' = Batches /\ good' = good /\ buf' = <<>>
    BY <2>1 DEF Batches
  <2>2. CASE \/ Stream!HandOver(<<>>) \/ Stream!Lose(<<>>)
             \/ Stream!Overrun(<<>>)
    BY <2>2
  <2> QED BY <1>1, <2>1, <2>2, FlushIsStreamStep DEF Flush
<1>2. ASSUME NEW m \in Msg, NEW ok \in BOOLEAN, Write(m, ok)
      PROVE  [Stream!Next]_(Stream!vars)
  <2>1. CASE WriteFits(m)
    <3>1. Stream!Accept(m)
      BY <2>1 DEF WriteFits, Stream!Accept
    <3> QED BY <3>1
  <2>2. CASE WriteFlushes(m, ok)
    <3>1. CASE buf = <<>> /\ Batches' = Batches /\ good' = good /\ buf' = <<m>>
      <4>1. Stream!Accept(m)
        BY <3>1 DEF Stream!Accept, Batches
      <4> QED BY <4>1
    <3>2. CASE \/ Stream!HandOver(<<m>>) \/ Stream!Lose(<<m>>)
               \/ Stream!Overrun(<<m>>)
      BY <3>2
    <3> QED BY <2>2, <3>1, <3>2, FlushIsStreamStep DEF WriteFlushes
  <2> QED BY <1>2, <2>1, <2>2 DEF Write
<1>3. CASE UNCHANGED vars
  BY <1>3 DEF vars
<1> QED BY <1>1, <1>2, <1>3 DEF Next, FlushThrows, WriteThrows

(* Nothing written is lost, repeated or reordered while the callback       *)
(* succeeds and fewer than CountMod messages wait, and of more a first     *)
(* part arrives or nothing: the marshaller implements MessageStream.       *)
THEOREM MarshallerImplementsStream == Spec => ImplementsStream
<1>1. Init => Stream!Init
  BY DEF Init, Stream!Init
<1>2. Counted /\ [Next]_vars => [Stream!Next]_(Stream!vars)
  BY StreamStep
<1> QED BY CountedInit, CountedNext, <1>1, <1>2, PTL
        DEF Spec, ImplementsStream, Stream!Spec
-----------------------------------------------------------------------------
(* Sequence numbers grow with every flush, the failed ones included, so a  *)
(* datagram carries a number larger than any sent before it.               *)
Numbered ==
  /\ Bounds
  /\ \A i \in DOMAIN wire : wire[i].seq < sequence
  /\ SequencesIncrease

NotWrapping == sequence < SequenceMod - 1

LEMMA NumberedFlush ==
  ASSUME Numbered, NotWrapping, Bounds', NEW ok, NEW rest, NEW used,
         FlushInto(ok, rest, used)
  PROVE  Numbered'
<1> DEFINE d == [seq |-> sequence, n |-> count, msgs |-> buf]
<1>1. /\ wire \in Seq(Datagram) /\ Len(wire) \in Nat
      /\ DOMAIN wire = 1 .. Len(wire)
      /\ sequence \in Nat /\ sequence' = sequence + 1
  <2>1. wire \in Seq(Datagram) /\ sequence \in 0 .. SequenceMod - 1
    BY DEF Numbered, Bounds, TypeOK
  <2>2. sequence + 1 \in 0 .. SequenceMod - 1
    BY <2>1, ConstantTypes DEF NotWrapping
  <2>3. sequence' = sequence + 1
    BY <2>2, ConstantTypes DEF FlushInto, NextSequence
  <2> QED BY <2>1, <2>3
<1>2. /\ \A i \in DOMAIN wire : wire[i].seq < sequence /\ wire[i].seq \in Nat
      /\ \A i, j \in DOMAIN wire : i < j => wire[i].seq < wire[j].seq
  <2>1. \A i \in DOMAIN wire : wire[i].seq \in Nat
    <3>1. \A e \in Datagram : e.seq \in Nat
      BY ConstantTypes DEF Datagram
    <3> QED BY <1>1, <3>1
  <2> QED BY <2>1 DEF Numbered, SequencesIncrease
<1>3. CASE wire' = wire
  <2>1. \A i \in DOMAIN wire : wire[i].seq < sequence + 1
    BY <1>1, <1>2
  <2> QED BY <1>1, <1>2, <1>3, <2>1 DEF Numbered, SequencesIncrease
<1>4. CASE wire' = Append(wire, d)
  <2>1. d.seq = sequence
    OBVIOUS
  <2> HIDE DEF d
  <2>2. /\ DOMAIN wire' = 1 .. Len(wire) + 1
        /\ wire'[Len(wire) + 1] = d
        /\ \A i \in 1 .. Len(wire) : wire'[i] = wire[i]
    BY <1>1, <1>4
  <2>3. \A i \in DOMAIN wire' : wire'[i].seq < sequence'
    <3> SUFFICES ASSUME NEW i \in DOMAIN wire' PROVE wire'[i].seq < sequence'
      OBVIOUS
    <3>1. CASE i \in DOMAIN wire
      BY <1>1, <1>2, <2>2, <3>1
    <3>2. CASE i = Len(wire) + 1
      BY <1>1, <2>1, <2>2, <3>2
    <3> QED BY <1>1, <2>2, <3>1, <3>2
  <2>4. SequencesIncrease'
    <3> SUFFICES ASSUME NEW i \in DOMAIN wire', NEW j \in DOMAIN wire', i < j
                 PROVE  wire'[i].seq < wire'[j].seq
      BY DEF SequencesIncrease
    <3>1. i \in DOMAIN wire /\ wire'[i] = wire[i]
      BY <1>1, <2>2
    <3>2. CASE j \in DOMAIN wire
      BY <1>1, <1>2, <2>2, <3>1, <3>2
    <3>3. CASE j = Len(wire) + 1
      BY <1>2, <2>1, <2>2, <3>1, <3>3
    <3> QED BY <1>1, <2>2, <3>2, <3>3
  <2> QED BY <2>3, <2>4 DEF Numbered
<1> QED BY <1>3, <1>4 DEF FlushInto

LEMMA NumberedNext == Numbered /\ NotWrapping /\ [Next]_vars => Numbered'
<1> SUFFICES ASSUME Numbered, NotWrapping, [Next]_vars PROVE Numbered'
  OBVIOUS
<1>1. Bounds'
  BY BoundsNext DEF Numbered
<1>2. CASE UNCHANGED <<sequence, wire>>
  BY <1>1, <1>2 DEF Numbered, SequencesIncrease
<1>3. ASSUME NEW ok \in BOOLEAN, Flush(ok) PROVE Numbered'
  BY <1>1, <1>3, NumberedFlush DEF Flush
<1>4. ASSUME NEW m \in Msg, NEW ok \in BOOLEAN, Write(m, ok) PROVE Numbered'
  BY <1>1, <1>2, <1>4, NumberedFlush DEF Write, WriteFits, WriteFlushes
<1> QED BY <1>2, <1>3, <1>4 DEF Next, FlushThrows, WriteThrows, vars

(* Two datagrams of one sender never carry the same sequence number and    *)
(* carry increasing ones, for as long as the 32 bit counter has not come   *)
(* to its last value (marshaller.cpp:106).                                 *)
THEOREM SequencesAlwaysIncrease ==
  Spec /\ []NotWrapping => []SequencesIncrease
<1>1. Init => Numbered
  BY BoundsInit DEF Init, Numbered, SequencesIncrease
<1>2. Numbered => SequencesIncrease
  BY DEF Numbered
<1> QED BY <1>1, <1>2, NumberedNext, PTL DEF Spec

-----------------------------------------------------------------------------
(* The offsets of the messages in the buffer: f is what EndOf computes.    *)
Ends(s, f) ==
  f = [i \in 0 .. Len(s) |->
         IF i = 0 THEN HeaderSize ELSE f[i - 1] + Size[s[i]]]

(* There is only one such table: the smallest place where two differ is    *)
(* the header, where they agree, or follows a place where they agree.      *)
LEMMA EndsUnique ==
  ASSUME NEW s \in Seq(Msg), NEW f, NEW g, Ends(s, f), Ends(s, g)
  PROVE  f = g
<1> DEFINE D == {i \in 0 .. Len(s) : f[i] # g[i]}
           R == {p \in Nat \X Nat : p[1] < p[2]}
<1>1. /\ Len(s) \in Nat
      /\ f = [i \in 0 .. Len(s) |-> f[i]]
      /\ g = [i \in 0 .. Len(s) |-> g[i]]
  BY DEF Ends
<1>2. f[0] = HeaderSize /\ g[0] = HeaderSize
  BY <1>1 DEF Ends
<1>3. \A i \in 1 .. Len(s) : /\ f[i] = f[i - 1] + Size[s[i]]
                             /\ g[i] = g[i - 1] + Size[s[i]]
  BY <1>1 DEF Ends
<1>4. CASE D = {}
  BY <1>1, <1>4
<1>5. CASE D # {}
  <2>1. IsWellFoundedOn(R, Nat)
    BY NatLessThanWellFounded DEF OpToRel
  <2>2. D \subseteq Nat
    BY <1>1
  <2>3. PICK i \in D : \A y \in D : ~ (<<y, i>> \in R)
    <3> HIDE DEF D, R
    <3> QED BY <1>5, <2>1, <2>2, WFMin
  <2>4. i # 0 /\ i \in 1 .. Len(s)
    BY <1>1, <1>2
  <2>5. i - 1 \notin D
    BY <1>1, <2>3, <2>4
  <2>6. f[i - 1] = g[i - 1]
    BY <1>1, <2>4, <2>5
  <2> QED BY <1>3, <2>3, <2>4, <2>6
<1> QED BY <1>4, <1>5

LEMMA EndOfIs ==
  ASSUME NEW s \in Seq(Msg), NEW f, Ends(s, f)
  PROVE  EndOf(s) = f[Len(s)]
<1> DEFINE g == CHOOSE g : Ends(s, g)
<1>1. Ends(s, g)
  OBVIOUS
<1>2. g = f
  <2> HIDE DEF g
  <2> QED BY <1>1, EndsUnique
<1>3. EndOf(s) = g[Len(s)]
  BY DEF EndOf, Ends
<1> QED BY <1>2, <1>3

LEMMA EndsEmpty == Ends(<<>>, [i \in 0 .. 0 |-> HeaderSize])
BY DEF Ends

LEMMA EndsAppend ==
  ASSUME NEW s \in Seq(Msg), NEW f, Ends(s, f), NEW m \in Msg
  PROVE  Ends(Append(s, m),
              [i \in 0 .. Len(s) + 1 |->
                 IF i = Len(s) + 1 THEN f[Len(s)] + Size[m] ELSE f[i]])
<1> DEFINE t == Append(s, m)
           g == [i \in 0 .. Len(s) + 1 |->
                   IF i = Len(s) + 1 THEN f[Len(s)] + Size[m] ELSE f[i]]
<1>1. /\ Len(s) \in Nat /\ Len(t) = Len(s) + 1
      /\ t[Len(s) + 1] = m /\ \A i \in 1 .. Len(s) : t[i] = s[i]
  OBVIOUS
<1>2. \A i \in 0 .. Len(s) :
        f[i] = IF i = 0 THEN HeaderSize ELSE f[i - 1] + Size[s[i]]
  BY DEF Ends
<1> HIDE DEF t
<1>3. \A i \in 0 .. Len(s) + 1 :
        g[i] = IF i = 0 THEN HeaderSize ELSE g[i - 1] + Size[t[i]]
  <2> SUFFICES ASSUME NEW i \in 0 .. Len(s) + 1
               PROVE  g[i] = IF i = 0 THEN HeaderSize
                                      ELSE g[i - 1] + Size[t[i]]
    OBVIOUS
  <2>1. CASE i = 0
    BY <1>1, <1>2, <2>1
  <2>2. CASE i \in 1 .. Len(s)
    BY <1>1, <1>2, <2>2
  <2>3. CASE i = Len(s) + 1
    BY <1>1, <2>3
  <2> QED BY <1>1, <2>1, <2>2, <2>3
<1>4. g = [i \in 0 .. Len(t) |->
             IF i = 0 THEN HeaderSize ELSE g[i - 1] + Size[t[i]]]
  BY <1>1, <1>3
<1> QED BY <1>4 DEF Ends, t

(* The pointer is the last offset of a table that every write extends.     *)
Pointed == Bounds /\ \E f : Ends(buf, f) /\ ptr = f[Len(buf)]

LEMMA PointedEmpty ==
  ASSUME Bounds', buf' = <<>>, ptr' = HeaderSize
  PROVE  Pointed'
<1>1. Ends(buf', [i \in 0 .. 0 |-> HeaderSize])
  BY EndsEmpty
<1>2. ptr' = [i \in 0 .. 0 |-> HeaderSize][Len(buf')]
  OBVIOUS
<1> QED BY <1>1, <1>2 DEF Pointed

LEMMA PointedAppend ==
  ASSUME NEW s \in Seq(Msg), NEW f, Ends(s, f), NEW m \in Msg, Bounds',
         buf' = Append(s, m), ptr' = f[Len(s)] + Size[m]
  PROVE  Pointed'
<1> DEFINE g == [i \in 0 .. Len(s) + 1 |->
                   IF i = Len(s) + 1 THEN f[Len(s)] + Size[m] ELSE f[i]]
<1>1. Ends(buf', g)
  BY EndsAppend
<1>2. Len(buf') = Len(s) + 1 /\ Len(s) \in Nat
  OBVIOUS
<1>3. ptr' = g[Len(buf')]
  BY <1>2
<1> HIDE DEF g
<1> QED BY <1>1, <1>3 DEF Pointed

LEMMA PointedNext == Pointed /\ [Next]_vars => Pointed'
<1> SUFFICES ASSUME Pointed, [Next]_vars PROVE Pointed'
  OBVIOUS
<1>1. Bounds' /\ buf \in Seq(Msg) /\ HeaderSize \in Nat
  BY BoundsNext, ConstantTypes DEF Pointed, Bounds, TypeOK
<1>2. PICK f : Ends(buf, f) /\ ptr = f[Len(buf)]
  BY DEF Pointed
<1>3. ASSUME NEW ok \in BOOLEAN, Flush(ok) PROVE Pointed'
  BY <1>1, <1>3, PointedEmpty DEF Flush, FlushInto, PtrAfter
<1>4. ASSUME NEW m \in Msg, NEW ok \in BOOLEAN, Write(m, ok) PROVE Pointed'
  <2>1. CASE WriteFits(m)
    BY <1>1, <1>2, <2>1, PointedAppend DEF WriteFits
  <2>2. CASE WriteFlushes(m, ok)
    <3> DEFINE h == [i \in 0 .. 0 |-> HeaderSize]
    <3>1. Ends(<<>>, h)
      BY EndsEmpty
    <3>2. buf' = Append(<<>>, m) /\ ptr' = h[Len(<<>>)] + Size[m]
      BY <2>2 DEF WriteFlushes, FlushInto, PtrAfter
    <3>3. <<>> \in Seq(Msg)
      OBVIOUS
    <3> HIDE DEF h
    <3> QED BY <1>1, <3>1, <3>2, <3>3, PointedAppend
  <2> QED BY <1>4, <2>1, <2>2 DEF Write
<1>5. CASE UNCHANGED <<buf, ptr>>
  BY <1>1, <1>2, <1>5 DEF Pointed
<1> QED BY <1>3, <1>4, <1>5 DEF Next, FlushThrows, WriteThrows, vars

(* The size handed to the callback covers the header and every whole       *)
(* message in the buffer, whatever was flushed, refused or thrown before   *)
(* (marshaller.cpp:93-107).                                                *)
THEOREM PointerIsExact == Spec => []PtrExact
<1>1. Init => Pointed
  <2> SUFFICES ASSUME Init PROVE Pointed
    OBVIOUS
  <2>1. Ends(buf, [i \in 0 .. 0 |-> HeaderSize])
    BY EndsEmpty DEF Init
  <2>2. ptr = [i \in 0 .. 0 |-> HeaderSize][Len(buf)]
    BY DEF Init
  <2> QED BY <2>1, <2>2, BoundsInit DEF Pointed
<1>2. Pointed => PtrExact
  <2> SUFFICES ASSUME Pointed PROVE PtrExact
    OBVIOUS
  <2>1. buf \in Seq(Msg)
    BY DEF Pointed, Bounds, TypeOK
  <2>2. PICK f : Ends(buf, f) /\ ptr = f[Len(buf)]
    BY DEF Pointed
  <2>3. EndOf(buf) = f[Len(buf)]
    BY <2>1, <2>2, EndOfIs
  <2> QED BY <2>2, <2>3 DEF PtrExact
<1> QED BY <1>1, <1>2, PointedNext, PTL DEF Spec
=============================================================================
