------------------------- MODULE BrokerClientProofs -------------------------
(***************************************************************************)
(* Proofs about BrokerClient for any number of lines, datagrams, targets   *)
(* and sizes of its buffers and pipes.                                     *)
(***************************************************************************)
EXTENDS BrokerClient, FiniteSetTheorems, SequenceTheorems, TLAPS

(* What is sent, received and printed are sequences, of whatever.          *)
IsSeq(s) == \E S : s \in Seq(S)

LEMMA AppendSeq ==
  ASSUME NEW s, IsSeq(s), NEW e
  PROVE  /\ IsSeq(Append(s, e)) /\ Len(s) \in Nat
         /\ Len(Append(s, e)) = Len(s) + 1
         /\ DOMAIN s = 1 .. Len(s) /\ DOMAIN Append(s, e) = 1 .. Len(s) + 1
         /\ \A i \in 1 .. Len(s) : Append(s, e)[i] = s[i]
         /\ Append(s, e)[Len(s) + 1] = e
<1>1. PICK S : s \in Seq(S)
  BY DEF IsSeq
<1>2. s \in Seq(S \cup {e})
  BY <1>1
<1>3. Append(s, e) \in Seq(S \cup {e})
  BY <1>2
<1> QED BY <1>2, <1>3, AppendProperties, LenProperties DEF IsSeq

LEMMA TailSeq ==
  ASSUME NEW s, IsSeq(s), s # <<>>
  PROVE  /\ IsSeq(Tail(s)) /\ Len(s) \in Nat \ {0}
         /\ Len(Tail(s)) = Len(s) - 1
         /\ DOMAIN s = 1 .. Len(s) /\ DOMAIN Tail(s) = 1 .. Len(s) - 1
         /\ \A i \in 1 .. Len(s) - 1 : Tail(s)[i] = s[i + 1]
         /\ Head(s) = s[1]
<1>1. PICK S : s \in Seq(S)
  BY DEF IsSeq
<1> QED BY <1>1, HeadTailProperties, LenProperties DEF IsSeq

LEMMA EmptyIsSeq == IsSeq(<<>>) /\ Len(<<>>) = 0 /\ DOMAIN <<>> = {}
<1>1. <<>> \in Seq({})
  OBVIOUS
<1> QED BY <1>1 DEF IsSeq

LEMMA MinOfTwo ==
  ASSUME NEW a \in Nat, NEW b \in Nat
  PROVE  Min({a, b}) \in {a, b} /\ Min({a, b}) <= a /\ Min({a, b}) <= b
<1>1. \E x \in {a, b} : \A y \in {a, b} : x <= y
  OBVIOUS
<1> QED BY <1>1 DEF Min

-----------------------------------------------------------------------------
(* Between two handlers the marshaller holds nothing; in front of a flush  *)
(* it holds the command of the line handled last, whose target is set, or  *)
(* nothing.                                                                *)
Shape ==
  /\ TypeOK
  /\ handled \in Nat /\ fetched \in Nat /\ synced \in BOOLEAN
  /\ IsSeq(wire) /\ IsSeq(sent) /\ IsSeq(stdout) /\ IsSeq(calls)

Idle == pc \notin {"flush", "failed"} => count = 0 /\ buf = <<>>

Pending ==
  pc = "flush" =>
    \/ count = 0
    \/ /\ handled \in DOMAIN lines
       /\ buf = <<Command(handled)>> /\ target = lines[handled].to

CommandIInv == Shape /\ Idle /\ Pending /\ OwnTarget

LEMMA CommandInit == Init => CommandIInv
<1> SUFFICES ASSUME Init PROVE CommandIInv
  OBVIOUS
<1>1. /\ lines = <<>> /\ wire = <<>> /\ sent = <<>> /\ stdout = <<>> /\ calls = <<>>
      /\ buf = <<>> /\ count = 0 /\ pc = "poll" /\ handled = 0 /\ fetched = 0
      /\ open = TRUE /\ target = Nowhere /\ arrived = 0 /\ synced = FALSE
  BY DEF Init, Out!Init
<1>2. lines \in Seq(Line)
  BY <1>1
<1>3. TypeOK
  BY <1>1, <1>2, EmptyIsSeq, ClientAssumption DEF TypeOK
<1>4. Shape
  BY <1>1, <1>3, EmptyIsSeq DEF Shape
<1> QED BY <1>1, <1>4, EmptyIsSeq DEF CommandIInv, Idle, Pending, OwnTarget

(* A write into the empty buffer sends nothing.                            *)
LEMMA WriteFirst ==
  ASSUME count = 0, buf = <<>>, NEW m, Out!Write(m, TRUE)
  PROVE  buf' = <<m>> /\ wire' = wire
<1>1. CASE Out!WriteFits(m)
  BY <1>1 DEF Out!WriteFits
<1>2. CASE Out!WriteFlushes(m, TRUE)
  BY <1>2 DEF Out!WriteFlushes, Out!FlushInto, Out!CallsBack
<1> QED BY <1>1, <1>2 DEF Out!Write

LEMMA FlushSends ==
  ASSUME Out!Flush(TRUE)
  PROVE  /\ count' = 0 /\ buf' = <<>>
         /\ Out!CallsBack =>
              /\ count # 0
              /\ wire' = Append(wire, [seq |-> sequence, n |-> count, msgs |-> buf])
         /\ ~ Out!CallsBack => wire' = wire
BY EmptyIsSeq DEF Out!Flush, Out!FlushInto, Out!CallsBack, Out!CountAfter

LEMMA LineType ==
  ASSUME TypeOK, NEW k \in DOMAIN lines
  PROVE  lines[k].kind \in Commands \cup {"other", "broken"} /\ lines[k].to \in Address
<1>1. lines[k] \in Line
  BY DEF TypeOK
<1> QED BY <1>1 DEF Line

(* Lines already written stay, so what is said of them does.               *)
LEMMA WriteLineInv ==
  ASSUME CommandIInv, NEW l \in Line, WriteLine(l)
  PROVE  CommandIInv'
<1>1. lines \in Seq(Line) /\ lines' = Append(lines, l)
  BY DEF WriteLine, CommandIInv, Shape, TypeOK
<1>2. /\ lines' \in Seq(Line) /\ Len(lines) \in Nat /\ Len(lines') = Len(lines) + 1
      /\ DOMAIN lines \subseteq DOMAIN lines'
      /\ \A k \in DOMAIN lines : lines'[k] = lines[k]
  BY <1>1, AppendProperties, LenProperties
<1>3. /\ UNCHANGED <<open, fetched, handled, target, sent, pc>>
      /\ UNCHANGED <<buf, count, wire, arrived, synced, stdout, calls>>
  BY DEF WriteLine, out, reports
<1>4. Shape'
  BY <1>2, <1>3, ClientAssumption DEF CommandIInv, Shape, TypeOK
<1>5. \A k \in DOMAIN lines : Command(k)' = Command(k)
  BY <1>2 DEF Command
<1> HIDE DEF Line
<1>6. Idle' /\ Pending'
  BY <1>2, <1>3, <1>5 DEF CommandIInv, Idle, Pending
<1>7. OwnTarget'
  BY <1>2, <1>3, <1>5 DEF CommandIInv, OwnTarget
<1> QED BY <1>4, <1>6, <1>7 DEF CommandIInv

LEMMA HandleStdinInv ==
  ASSUME CommandIInv, HandleStdin
  PROVE  CommandIInv'
<1> DEFINE k == handled + 1
           l == lines[k]
<1>1. /\ pc = "poll" /\ count = 0 /\ buf = <<>>
      /\ handled \in Nat /\ fetched \in Nat /\ lines \in Seq(Line) /\ Len(lines) \in Nat
      /\ handled <= fetched /\ fetched <= Len(lines) /\ fetched <= handled + Fits
      /\ handled < Len(lines) /\ Fits \in Nat \ {0}
  BY ClientAssumption DEF HandleStdin, CommandIInv, Shape, TypeOK, Idle
<1>2. k \in DOMAIN lines
  BY <1>1
<1>3. /\ handled' = k /\ fetched' = FetchedAfter
      /\ UNCHANGED <<lines, open, sent, arrived, synced, stdout, calls>>
  BY DEF HandleStdin, reports
<1>4. /\ fetched' \in Nat /\ handled' <= fetched'
      /\ fetched' <= Len(lines) /\ fetched' <= handled' + Fits
  <2>1. CASE handled < fetched
    BY <1>1, <1>3, <2>1 DEF FetchedAfter
  <2>2. CASE handled = fetched
    <3>1. fetched' = Min({Len(lines), fetched + Fits})
      BY <1>1, <1>3, <2>2 DEF FetchedAfter
    <3>2. fetched + Fits \in Nat
      BY <1>1
    <3>3. /\ fetched' \in {Len(lines), fetched + Fits}
          /\ fetched' <= Len(lines) /\ fetched' <= fetched + Fits
      BY <1>1, <3>1, <3>2, MinOfTwo
    <3> QED BY <1>1, <1>3, <2>2, <3>3
  <2> QED BY <1>1, <2>1, <2>2
<1>5. l.to \in Address
  BY <1>2, LineType DEF CommandIInv, Shape
<1>6. /\ wire' = wire
      /\ pc' \in {"flush", "error"} /\ target' \in Address \cup {Nowhere, Mixed}
      /\ pc' = "error" => count' = 0 /\ buf' = <<>>
      /\ pc' = "flush" => count' = 0 \/ (buf' = <<Command(k)>> /\ target' = l.to)
  <2>1. CASE /\ target' = TargetAfter(l)
             /\ Out!Write(Command(k), TRUE) /\ pc' = "flush"
    BY <1>1, <1>5, <2>1, WriteFirst DEF TargetAfter
  <2>2. CASE target' = TargetAfter(l) /\ pc' = "flush" /\ UNCHANGED out
    BY <1>1, <1>5, <2>2 DEF TargetAfter, out
  <2>3. CASE target' \in {target, Mixed, TargetAfter(l)} /\ pc' = "error" /\ UNCHANGED out
    BY <1>1, <1>5, <2>3 DEF TargetAfter, out, CommandIInv, Shape, TypeOK
  <2> QED BY <2>1, <2>2, <2>3 DEF HandleStdin
<1> HIDE DEF k
<1>7. Shape'
  <2>1. calls = <<>>
    BY <1>1 DEF CommandIInv, Shape, TypeOK
  <2> QED BY <1>1, <1>3, <1>4, <1>6, <2>1 DEF CommandIInv, Shape, TypeOK, k
<1>8. \A j : Command(j)' = Command(j)
  BY <1>3 DEF Command
<1>9. Idle' /\ Pending'
  <2>1. buf' = <<Command(k)>> => buf' = <<Command(handled)'>>
    BY <1>3 DEF Command
  <2> QED BY <1>2, <1>3, <1>6, <2>1 DEF Idle, Pending
<1>10. OwnTarget'
  BY <1>3, <1>6, <1>8 DEF CommandIInv, OwnTarget
<1> QED BY <1>7, <1>9, <1>10 DEF CommandIInv

LEMMA FlushLineInv ==
  ASSUME CommandIInv, FlushLine
  PROVE  CommandIInv'
<1> DEFINE d == [seq |-> sequence, n |-> count, msgs |-> buf]
<1>1. /\ pc = "flush" /\ UNCHANGED <<lines, open, fetched, handled, target>>
      /\ UNCHANGED <<arrived, synced, stdout, calls>> /\ pc' \in {"poll", "failed"}
      /\ calls = <<>>
  BY DEF FlushLine, stdin, reports, CommandIInv, Shape, TypeOK
<1>2. \A j : Command(j)' = Command(j)
  BY <1>1 DEF Command
<1>3. CASE pc' = "failed" /\ UNCHANGED <<buf, count, wire, sent>>
  BY <1>1, <1>2, <1>3 DEF CommandIInv, Shape, TypeOK, Idle, Pending, OwnTarget
<1>4. CASE pc' = "poll" /\ count' = 0 /\ buf' = <<>> /\ wire' = wire /\ sent' = sent
  BY <1>1, <1>2, <1>4 DEF CommandIInv, Shape, TypeOK, Idle, Pending, OwnTarget
<1>5. CASE /\ pc' = "poll" /\ count' = 0 /\ buf' = <<>> /\ count # 0
           /\ wire' = Append(wire, d) /\ sent' = Append(sent, target)
  <2>1. IsSeq(wire) /\ IsSeq(sent) /\ Len(sent) = Len(wire)
    BY DEF CommandIInv, Shape, TypeOK
  <2> DEFINE n == Len(wire)
  <2>2. /\ IsSeq(wire') /\ IsSeq(sent') /\ n \in Nat /\ Len(wire') = n + 1 /\ Len(sent') = n + 1
        /\ DOMAIN wire = 1 .. n /\ DOMAIN wire' = 1 .. n + 1
        /\ \A i \in 1 .. n : wire'[i] = wire[i] /\ sent'[i] = sent[i]
        /\ wire'[n + 1] = d /\ sent'[n + 1] = target
    BY <1>5, <2>1, AppendSeq
  <2>3. Shape'
    BY <1>1, <1>5, <2>2 DEF CommandIInv, Shape, TypeOK
  <2>4. handled \in DOMAIN lines /\ d.msgs = <<Command(handled)>> /\ target = lines[handled].to
    BY <1>1, <1>5 DEF CommandIInv, Pending
  <2> HIDE DEF n, d
  <2>5. OwnTarget'
    <3> SUFFICES ASSUME NEW i \in 1 .. n + 1
                 PROVE  \E k \in DOMAIN lines :
                          wire'[i].msgs = <<Command(k)>> /\ sent'[i] = lines[k].to
      BY <1>1, <1>2, <2>2 DEF OwnTarget
    <3>1. CASE i = n + 1
      BY <2>2, <2>4, <3>1
    <3>2. CASE i \in 1 .. n
      BY <2>2, <3>2 DEF CommandIInv, OwnTarget
    <3> QED BY <2>2, <3>1, <3>2
  <2> QED BY <1>5, <2>3, <2>5 DEF CommandIInv, Idle, Pending
<1>6. CASE Out!Flush(TRUE) /\ sent' = SentAfter /\ pc' = "poll"
  BY <1>4, <1>5, <1>6, FlushSends DEF SentAfter
<1>7. CASE Out!FlushThrows /\ UNCHANGED sent /\ pc' = "failed"
  BY <1>3, <1>7 DEF Out!FlushThrows, Out!vars
<1> QED BY <1>6, <1>7 DEF FlushLine

(* The writer closes the pipe, stdout is read or written, datagrams arrive *)
(* and handlers end: none of it touches what is sent.                      *)
LEMMA OthersInv ==
  ASSUME CommandIInv, UNCHANGED <<lines, fetched, handled, target, out, sent>>,
         open' \in BOOLEAN, synced' \in BOOLEAN, arrived' \in 0 .. MaxDatagrams,
         IsSeq(stdout'), Len(stdout') <= PipeSize, IsSeq(calls'),
         calls' # <<>> => pc' = "print",
         pc' \in {"poll", "print", "error", "flush", "eof", "failed"},
         pc = pc' \/ pc \in {"poll", "print", "error"}
  PROVE  CommandIInv'
<1>1. UNCHANGED <<buf, count, wire>>
  BY DEF out
<1>2. \A j : Command(j)' = Command(j)
  BY DEF Command
<1> HIDE DEF Line
<1>3. Shape'
  BY <1>1 DEF CommandIInv, Shape, TypeOK
<1>4. Idle'
  BY <1>1 DEF CommandIInv, Idle
<1>5. Pending'
  BY <1>1, <1>2 DEF CommandIInv, Idle, Pending
<1>6. OwnTarget'
  BY <1>1, <1>2 DEF CommandIInv, OwnTarget
<1> QED BY <1>3, <1>4, <1>5, <1>6 DEF CommandIInv

(* No sender has reached the sequence number 2^24, from which on a datagram *)
(* that parse() reads out of step can look like one.                       *)
ShortSequences == \A d \in Foreign : d.seq < In!Byte3

LEMMA ReadSome ==
  ASSUME NEW d \in Foreign
  PROVE  IsSeq(In!Readable(d))
<1> DEFINE S == {d.msgs[i] : i \in DOMAIN d.msgs}
           readable == {k \in 1 .. Len(d.msgs) : In!CanRead(d, k)}
<1>1. d.msgs \in Seq(S) /\ Len(d.msgs) \in Nat
  BY ClientAssumption
<1> HIDE DEF S
<1>2. IsFiniteSet(1 .. Len(d.msgs)) /\ Cardinality(1 .. Len(d.msgs)) = Len(d.msgs)
  BY <1>1, FS_Interval
<1>3. Cardinality(readable) \in Nat /\ Cardinality(readable) <= Len(d.msgs)
  BY <1>2, FS_Subset, FS_CardinalityType
<1>4. In!Readable(d) = SubSeq(d.msgs, 1, Cardinality(readable))
  BY DEF In!Readable, In!Cardinality, Cardinality
<1> HIDE DEF readable
<1>5. In!Readable(d) \in Seq(S)
  BY <1>1, <1>3, <1>4
<1> QED BY <1>5 DEF IsSeq

(* What parse() calls back for one datagram comes from its sender.         *)
LEMMA ParseCalls ==
  ASSUME NEW s \in BOOLEAN, NEW d \in Foreign
  PROVE  LET callbacks == In!Parse(s, d).calls
         IN  /\ IsSeq(callbacks) /\ In!Parse(s, d).synced \in BOOLEAN
             /\ ShortSequences =>
                  \A i \in DOMAIN callbacks : d.src # Own /\ callbacks[i].src = d.src
<1> DEFINE R == In!Readable(d)
           made == [i \in 1 .. Len(R) |-> In!Call(d.src, R[i])]
<1>1. CASE ~ s /\ ~ In!Filter(d.src)
  BY <1>1, EmptyIsSeq DEF In!Parse, In!Aligned
<1>2. CASE ~ s /\ In!Filter(d.src)
  <2>1. In!Parse(s, d) = [calls |-> made, synced |-> Len(R) < d.n]
    BY <1>2 DEF In!Parse, In!Aligned
  <2>2. IsSeq(R)
    BY ReadSome
  <2> HIDE DEF R
  <2>3. Len(R) \in Nat
    BY <2>2, LenProperties DEF IsSeq
  <2>4. made \in Seq({made[i] : i \in 1 .. Len(R)})
    BY <2>3
  <2>5. \A i \in DOMAIN made : made[i].src = d.src
    BY DEF In!Call
  <2> HIDE DEF made
  <2> QED BY <1>2, <2>1, <2>4, <2>5 DEF IsSeq, In!Filter
<1>3. CASE s
  <2> DEFINE garbage == <<In!Call(Garbage, [type |-> In!MisreadType(d), device |-> Garbage])>>
  <2>1. In!Parse(s, d) = In!Misaligned(d)
    BY <1>3 DEF In!Parse
  <2>2. /\ In!Misaligned(d).calls \in {<<>>, garbage}
        /\ In!Misaligned(d).synced \in BOOLEAN
        /\ In!MisreadCount(d) = 0 => In!Misaligned(d).calls = <<>>
    BY DEF In!Misaligned
  <2>3. IsSeq(garbage)
    <3>1. garbage \in Seq({garbage[1]})
      OBVIOUS
    <3> QED BY <3>1 DEF IsSeq
  <2>4. ShortSequences => In!MisreadCount(d) = 0
    <3> SUFFICES ASSUME ShortSequences PROVE In!MisreadCount(d) = 0
      OBVIOUS
    <3>1. d.seq \in Nat /\ d.seq < In!Byte3
      BY ClientAssumption DEF ShortSequences
    <3> QED BY <3>1, SMT DEF In!MisreadCount, In!Byte3, In!Byte2
  <2> HIDE DEF garbage
  <2> QED BY <2>1, <2>2, <2>3, <2>4, EmptyIsSeq
<1> QED BY <1>1, <1>2, <1>3
-----------------------------------------------------------------------------
(* Put appends one line to stdout and leaves room for no more than fit.    *)
LEMMA PutOne ==
  ASSUME Shape, NEW line, Put(line)
  PROVE  IsSeq(stdout') /\ Len(stdout') <= PipeSize
<1>1. stdout' = Append(stdout, line) /\ Len(stdout) < PipeSize
  BY DEF Put
<1>2. IsSeq(stdout') /\ Len(stdout) \in Nat /\ Len(stdout') = Len(stdout) + 1
  BY <1>1, AppendSeq DEF Shape
<1> QED BY <1>1, <1>2, ClientAssumption

LEMMA CommandNext == CommandIInv /\ [Next]_vars => CommandIInv'
<1> SUFFICES ASSUME CommandIInv, [Next]_vars PROVE CommandIInv'
  OBVIOUS
<1>0. Shape /\ TypeOK
  BY DEF CommandIInv, Shape
<1>a. /\ open \in BOOLEAN /\ synced \in BOOLEAN /\ arrived \in 0 .. MaxDatagrams
      /\ IsSeq(stdout) /\ Len(stdout) <= PipeSize /\ IsSeq(calls)
      /\ calls # <<>> => pc = "print"
      /\ pc \in {"poll", "print", "error", "flush", "eof", "failed"}
  BY <1>0 DEF Shape, TypeOK
<1>1. ASSUME NEW l \in Line, WriteLine(l) PROVE CommandIInv'
  BY <1>1, WriteLineInv
<1>2. CASE CloseStdin
  BY <1>a, <1>2, OthersInv DEF CloseStdin, reports
<1>3. CASE ReadStdout
  <2>1. IsSeq(stdout') /\ Len(stdout') <= PipeSize
    BY <1>a, <1>3, TailSeq, ClientAssumption DEF ReadStdout
  <2> QED BY <1>a, <1>3, <2>1, OthersInv DEF ReadStdout, commands, stdin
<1>4. CASE HandleStdin
  BY <1>4, HandleStdinInv
<1>5. CASE EndOfFile
  BY <1>a, <1>5, OthersInv DEF EndOfFile, commands, stdin, reports
<1>6. ASSUME NEW d \in Foreign, HandleSock(d) PROVE CommandIInv'
  <2>1. /\ calls' = In!Parse(synced, d).calls /\ synced' = In!Parse(synced, d).synced
        /\ pc = "poll" /\ pc' = "print" /\ UNCHANGED <<commands, stdout>>
        /\ arrived < MaxDatagrams /\ arrived' = arrived + 1
    BY <1>6 DEF HandleSock
  <2>2. IsSeq(calls') /\ synced' \in BOOLEAN
    BY <1>a, <2>1, ParseCalls
  <2>3. arrived' \in 0 .. MaxDatagrams
    BY <1>a, <2>1, ClientAssumption
  <2> QED BY <1>a, <2>1, <2>2, <2>3, OthersInv DEF commands, stdin
<1>7. CASE SocketFails
  BY <1>a, <1>7, OthersInv DEF SocketFails, commands, stdin, reports
<1>8. CASE PrintError
  <2>1. IsSeq(stdout') /\ Len(stdout') <= PipeSize
    BY <1>0, <1>8, PutOne DEF PrintError
  <2>2. calls = <<>>
    BY <1>a, <1>8 DEF PrintError
  <2> QED BY <1>a, <1>8, <2>1, <2>2, OthersInv DEF PrintError, commands, stdin
<1>9. CASE FlushLine
  BY <1>9, FlushLineInv
<1>10. CASE MakeCall
  <2>1. IsSeq(stdout') /\ Len(stdout') <= PipeSize
    BY <1>0, <1>a, <1>10, PutOne DEF MakeCall
  <2>2. IsSeq(calls')
    BY <1>a, <1>10, TailSeq DEF MakeCall
  <2> QED BY <1>a, <1>10, <2>1, <2>2, OthersInv DEF MakeCall, commands, stdin
<1>11. CASE ParseReturns
  BY <1>a, <1>11, OthersInv DEF ParseReturns, commands, stdin, reports
<1>12. CASE UNCHANGED vars
  BY <1>a, <1>12, OthersInv DEF vars, commands, stdin, reports
<1> QED BY <1>1, <1>2, <1>3, <1>4, <1>5, <1>6, <1>7, <1>8, <1>9, <1>10, <1>11, <1>12
        DEF Next, Handler

(* Type correctness.                                                       *)
THEOREM TypeCorrect == Spec => []TypeOK
<1>1. CommandIInv => TypeOK
  BY DEF CommandIInv, Shape
<1> QED BY CommandInit, CommandNext, <1>1, PTL DEF Spec

(* However lines, errors, datagrams and a blocked stdout interleave, what  *)
(* is sent is one command, to the target its own line names                *)
(* (main_client.cpp:168-190).                                              *)
THEOREM CommandsReachOwnTarget == Spec => []OwnTarget
<1>1. CommandIInv => OwnTarget
  BY DEF CommandIInv
<1> QED BY CommandInit, CommandNext, <1>1, PTL DEF Spec

-----------------------------------------------------------------------------
(* SentInOrder of any wire and any lines.                                  *)
InOrder(w, ls, n) ==
  /\ \A i, j \in DOMAIN w : i < j => LineOf(w[i]) < LineOf(w[j])
  /\ {LineOf(w[i]) : i \in DOMAIN w} = {k \in 1 .. n : ls[k].kind \in Commands}

(* In front of a flush either the line handled last is no command, and     *)
(* nothing is counted, or it is the one that waits in the buffer; and the  *)
(* marshaller stays good, because a send() that fails throws, so that what *)
(* is counted is sent.                                                     *)
Waiting ==
  /\ count = 1 /\ handled \in DOMAIN lines /\ lines[handled].kind \in Commands
  /\ buf = <<Command(handled)>> /\ InOrder(wire, lines, handled - 1)

Orderly ==
  /\ good = TRUE
  /\ pc \notin {"flush", "failed"} => InOrder(wire, lines, handled)
  /\ pc = "flush" => \/ count = 0 /\ InOrder(wire, lines, handled)
                     \/ Waiting

LEMMA OrderlyInit == Init => Orderly
<1> SUFFICES ASSUME Init PROVE Orderly
  OBVIOUS
<1>1. wire = <<>> /\ handled = 0 /\ good = TRUE /\ pc = "poll"
  BY DEF Init, Out!Init
<1>2. InOrder(<<>>, lines, 0)
  BY EmptyIsSeq DEF InOrder
<1> QED BY <1>1, <1>2 DEF Orderly

(* A line that is no command adds nothing ...                              *)
LEMMA NoCommandNothingSent ==
  ASSUME NEW w, NEW ls, NEW n \in Nat, InOrder(w, ls, n),
         ls[n + 1].kind \notin Commands
  PROVE  InOrder(w, ls, n + 1)
<1>1. \A k \in 1 .. n + 1 : k \in 1 .. n \/ k = n + 1
  OBVIOUS
<1>2. {k \in 1 .. n + 1 : ls[k].kind \in Commands}
        = {k \in 1 .. n : ls[k].kind \in Commands}
  BY <1>1
<1> QED BY <1>2 DEF InOrder

(* ... and one that is adds itself, behind the others.                     *)
LEMMA CommandSentNext ==
  ASSUME NEW w, IsSeq(w), NEW ls, NEW n \in Nat, InOrder(w, ls, n),
         ls[n + 1].kind \in Commands, NEW d, LineOf(d) = n + 1
  PROVE  InOrder(Append(w, d), ls, n + 1)
<1> DEFINE v == Append(w, d)
           m == Len(w)
<1>1. /\ m \in Nat /\ DOMAIN w = 1 .. m /\ DOMAIN v = 1 .. m + 1
      /\ \A i \in 1 .. m : v[i] = w[i]
      /\ v[m + 1] = d
  BY AppendSeq
<1> HIDE DEF v, m
<1>2. \A i \in 1 .. m : LineOf(v[i]) = LineOf(w[i]) /\ LineOf(w[i]) \in 1 .. n
  BY <1>1 DEF InOrder
<1>3. ASSUME NEW i \in DOMAIN v, NEW j \in DOMAIN v, i < j
      PROVE  LineOf(v[i]) < LineOf(v[j])
  <2>1. CASE j = m + 1
    <3>1. i \in 1 .. m
      BY <1>1, <1>3, <2>1
    <3>2. LineOf(v[i]) \in 1 .. n /\ LineOf(v[j]) = n + 1
      BY <1>1, <1>2, <2>1, <3>1
    <3> QED BY <3>2
  <2>2. CASE j # m + 1
    <3>1. i \in 1 .. m /\ j \in 1 .. m
      BY <1>1, <1>3, <2>2
    <3> QED BY <1>1, <1>2, <1>3, <3>1 DEF InOrder
  <2> QED BY <2>1, <2>2
<1>4. {LineOf(v[i]) : i \in DOMAIN v}
        = {LineOf(w[i]) : i \in DOMAIN w} \cup {n + 1}
  <2>1. DOMAIN v = DOMAIN w \cup {m + 1}
    BY <1>1
  <2> QED BY <1>1, <1>2, <2>1
<1>5. {k \in 1 .. n + 1 : ls[k].kind \in Commands}
        = {k \in 1 .. n : ls[k].kind \in Commands} \cup {n + 1}
  <2>1. \A k \in 1 .. n + 1 : k \in 1 .. n \/ k = n + 1
    OBVIOUS
  <2>2. n + 1 \in 1 .. n + 1
    OBVIOUS
  <2> QED BY <2>1, <2>2
<1>6. {LineOf(w[i]) : i \in DOMAIN w} = {k \in 1 .. n : ls[k].kind \in Commands}
  BY DEF InOrder
<1>7. {LineOf(v[i]) : i \in DOMAIN v}
        = {k \in 1 .. n + 1 : ls[k].kind \in Commands}
  BY <1>4, <1>5, <1>6
<1>8. InOrder(v, ls, n + 1)
  BY <1>3, <1>7 DEF InOrder
<1> QED BY <1>8 DEF v

LEMMA WriteCounts ==
  ASSUME count = 0, buf = <<>>, good = TRUE, NEW m, Out!Write(m, TRUE)
  PROVE  buf' = <<m>> /\ wire' = wire /\ count' = 1 /\ good' = TRUE
<1>0. CountMod \in Nat /\ CountMod > 1
  BY PartsAssumption DEF Out!ModAssumption
<1>1. CASE Out!WriteFits(m)
  <2>1. count' = (0 + 1) % CountMod /\ good' = good
    BY <1>1 DEF Out!WriteFits
  <2>2. (0 + 1) % CountMod = 1
    BY <1>0
  <2> QED BY <2>1, <2>2, WriteFirst
<1>2. CASE Out!WriteFlushes(m, TRUE)
  <2>1. count' = Len(<<m>>) /\ good' = TRUE
    BY <1>2 DEF Out!WriteFlushes, Out!FlushInto, Out!CallsBack, Out!CountAfter,
                Out!GoodAfter
  <2> QED BY <2>1, WriteFirst
<1> QED BY <1>1, <1>2 DEF Out!Write

LEMMA OrderlyHandleStdin ==
  ASSUME CommandIInv, Orderly, HandleStdin
  PROVE  Orderly'
<1> DEFINE k == handled + 1
           l == lines[k]
<1>1. /\ pc = "poll" /\ count = 0 /\ buf = <<>> /\ good = TRUE
      /\ handled \in Nat /\ k \in DOMAIN lines /\ InOrder(wire, lines, handled)
  <2>1. /\ pc = "poll" /\ count = 0 /\ buf = <<>> /\ handled \in Nat
        /\ lines \in Seq(Line) /\ handled < Len(lines)
    BY DEF HandleStdin, CommandIInv, Shape, TypeOK, Idle
  <2>2. k \in DOMAIN lines
    BY <2>1
  <2> QED BY <2>1, <2>2 DEF Orderly
<1>2. handled' = k /\ lines' = lines
  BY DEF HandleStdin
<1>3. k - 1 = handled
  BY <1>1
<1> HIDE DEF k
<1>4. CASE l.kind \in Commands /\ Out!Write(Command(k), TRUE) /\ pc' = "flush"
  <2>1. buf' = <<Command(k)>> /\ wire' = wire /\ count' = 1 /\ good' = TRUE
    BY <1>1, <1>4, WriteCounts
  <2>2. Command(handled)' = Command(k)
    BY <1>2 DEF Command
  <2>3. Waiting'
    BY <1>1, <1>2, <1>3, <1>4, <2>1, <2>2 DEF Waiting
  <2> QED BY <1>4, <2>1, <2>3 DEF Orderly
<1>5. CASE /\ l.kind \in {"other", "broken"} /\ UNCHANGED out
           /\ pc' \in {"flush", "error"}
  <2>1. wire' = wire /\ count' = 0 /\ good' = TRUE
    BY <1>1, <1>5 DEF out
  <2>2. l.kind \notin Commands
    BY <1>5 DEF Commands
  <2>3. InOrder(wire, lines, k)
    BY <1>1, <2>2, NoCommandNothingSent DEF k
  <2> QED BY <1>2, <1>5, <2>1, <2>3 DEF Orderly
<1> QED BY <1>4, <1>5 DEF HandleStdin, k

LEMMA OrderlyFlushLine ==
  ASSUME CommandIInv, Orderly, FlushLine
  PROVE  Orderly'
<1> DEFINE d == [seq |-> sequence, n |-> count, msgs |-> buf]
<1>1. /\ pc = "flush" /\ lines' = lines /\ handled' = handled
      /\ good = TRUE /\ handled \in Nat /\ IsSeq(wire)
      /\ (count = 0 /\ InOrder(wire, lines, handled)) \/ Waiting
  BY DEF FlushLine, stdin, Orderly, CommandIInv, Shape
<1>2. CASE Out!FlushThrows /\ pc' = "failed"
  BY <1>1, <1>2 DEF Out!FlushThrows, Out!vars, Orderly
<1>3. CASE Out!Flush(TRUE) /\ pc' = "poll"
  <2>1. /\ good' = TRUE
        /\ wire' = IF count > 0 THEN Append(wire, d) ELSE wire
    BY <1>1, <1>3 DEF Out!Flush, Out!FlushInto, Out!CallsBack, Out!GoodAfter
  <2>2. InOrder(wire', lines, handled)
    <3>1. CASE count = 0 /\ InOrder(wire, lines, handled)
      BY <2>1, <3>1
    <3>2. CASE Waiting
      <4>1. /\ wire' = Append(wire, d) /\ d.msgs = <<Command(handled)>>
            /\ handled \in DOMAIN lines /\ lines[handled].kind \in Commands
            /\ InOrder(wire, lines, handled - 1)
        BY <2>1, <3>2 DEF Waiting
      <4>2. LineOf(d) = handled
        BY <4>1 DEF LineOf, Command
      <4>3. handled - 1 \in Nat /\ (handled - 1) + 1 = handled
        BY <1>1, <4>1 DEF CommandIInv, Shape, TypeOK
      <4> HIDE DEF d
      <4> QED BY <1>1, <4>1, <4>2, <4>3, CommandSentNext
    <3> QED BY <1>1, <3>1, <3>2
  <2> QED BY <1>1, <1>3, <2>1, <2>2 DEF Orderly
<1> QED BY <1>2, <1>3 DEF FlushLine

LEMMA OrderlyWriteLine ==
  ASSUME CommandIInv, Orderly, NEW l \in Line, WriteLine(l)
  PROVE  Orderly'
<1>1. /\ lines \in Seq(Line) /\ lines' = Append(lines, l)
      /\ handled \in Nat /\ handled <= Len(lines) /\ IsSeq(lines)
      /\ UNCHANGED <<handled, pc, good, count, buf, wire>>
  <2>1. /\ lines \in Seq(Line) /\ lines' = Append(lines, l) /\ handled \in Nat
        /\ fetched \in Nat /\ handled <= fetched /\ fetched <= Len(lines)
        /\ UNCHANGED <<handled, pc, good, count, buf, wire>>
    BY DEF WriteLine, CommandIInv, Shape, TypeOK, out
  <2>2. Len(lines) \in Nat
    BY <2>1
  <2> HIDE DEF Line
  <2> QED BY <2>1, <2>2 DEF IsSeq
<1> HIDE DEF Line
<1>2. \A k \in DOMAIN lines : k \in DOMAIN lines' /\ lines'[k] = lines[k]
  BY <1>1, AppendSeq
<1>3. ASSUME NEW n \in Nat, n <= handled, InOrder(wire, lines, n)
      PROVE  InOrder(wire, lines', n)
  <2>1. \A k \in 1 .. n : lines'[k] = lines[k]
    BY <1>1, <1>2, <1>3
  <2>2. {k \in 1 .. n : lines'[k].kind \in Commands}
          = {k \in 1 .. n : lines[k].kind \in Commands}
    BY <2>1
  <2> QED BY <1>3, <2>2 DEF InOrder
<1>4. Waiting => Waiting'
  <2> SUFFICES ASSUME Waiting PROVE Waiting'
    OBVIOUS
  <2>1. handled - 1 \in Nat
    BY <1>1 DEF Waiting
  <2>2. Command(handled)' = Command(handled)
    BY <1>1, <1>2 DEF Command, Waiting
  <2> QED BY <1>1, <1>2, <1>3, <2>1, <2>2 DEF Waiting
<1> QED BY <1>1, <1>3, <1>4 DEF Orderly

LEMMA OrderlyNext == CommandIInv /\ Orderly /\ [Next]_vars => Orderly'
<1> SUFFICES ASSUME CommandIInv, Orderly, [Next]_vars PROVE Orderly'
  OBVIOUS
<1>1. CASE \/ CloseStdin \/ ReadStdout \/ EndOfFile \/ SocketFails \/ MakeCall
           \/ ParseReturns \/ PrintError \/ UNCHANGED vars
           \/ \E d \in Foreign : HandleSock(d)
  <2>1. /\ UNCHANGED <<lines, handled, good, count, buf, wire>>
        /\ pc' = pc \/ pc \notin {"flush", "failed"}
    BY <1>1
    DEF CloseStdin, ReadStdout, EndOfFile, SocketFails, MakeCall, ParseReturns,
        PrintError, HandleSock, vars, commands, stdin, out
  <2>2. pc \notin {"flush", "failed"} => count = 0 /\ InOrder(wire, lines, handled)
    BY DEF CommandIInv, Idle, Orderly
  <2>3. Command(handled)' = Command(handled)
    BY <2>1 DEF Command
  <2> QED BY <2>1, <2>2, <2>3 DEF Orderly, Waiting
<1>2. ASSUME NEW l \in Line, WriteLine(l) PROVE Orderly'
  BY <1>2, OrderlyWriteLine
<1>3. CASE HandleStdin
  BY <1>3, OrderlyHandleStdin
<1>4. CASE FlushLine
  BY <1>4, OrderlyFlushLine
<1> QED BY <1>1, <1>2, <1>3, <1>4 DEF Next, Handler

(* Between two lines each command read so far has been sent once and in    *)
(* the order of the lines, whatever lines failed, whatever arrived and     *)
(* however long stdout was blocked in between (main_client.cpp:150-195).   *)
THEOREM CommandsOnceInOrder == Spec => []CommandsSentOnce
<1>1. Init => CommandIInv /\ Orderly
  BY CommandInit, OrderlyInit
<1>2. CommandIInv /\ Orderly /\ [Next]_vars => (CommandIInv /\ Orderly)'
  BY CommandNext, OrderlyNext
<1>3. Orderly => CommandsSentOnce
  BY DEF Orderly, CommandsSentOnce, SentInOrder, InOrder
<1> QED BY <1>1, <1>2, <1>3, PTL DEF Spec

-----------------------------------------------------------------------------
(* While parse() makes its calls the source address is the one of the      *)
(* datagram they come from.                                                *)
CallsOf(d) ==
  /\ source = d.from /\ d.src # Own
  /\ \A i \in DOMAIN calls : calls[i].src = d.src

ReportIInv ==
  /\ PrintedFromSource
  /\ calls # <<>> => \E d \in Foreign : CallsOf(d)

LEMMA ReportInit == Init => ReportIInv
BY EmptyIsSeq DEF Init, ReportIInv, PrintedFromSource

(* One more line on stdout.                                                *)
LEMMA PutFromSource ==
  ASSUME Shape, PrintedFromSource, NEW line, Put(line),
         line.type # "error" =>
           \E d \in Foreign : d.src = line.src /\ d.from = line.ip /\ d.src # Own
  PROVE  PrintedFromSource'
<1>1. stdout' = Append(stdout, line) /\ IsSeq(stdout)
  BY DEF Put, Shape
<1>2. /\ Len(stdout) \in Nat
      /\ DOMAIN stdout = 1 .. Len(stdout) /\ DOMAIN stdout' = 1 .. Len(stdout) + 1
      /\ \A i \in 1 .. Len(stdout) : stdout'[i] = stdout[i]
      /\ stdout'[Len(stdout) + 1] = line
  BY <1>1, AppendSeq
<1> QED BY <1>2 DEF PrintedFromSource

LEMMA ReportNext ==
  ShortSequences /\ CommandIInv /\ ReportIInv /\ [Next]_vars => ReportIInv'
<1> SUFFICES ASSUME ShortSequences, Shape, ReportIInv, [Next]_vars PROVE ReportIInv'
  BY DEF CommandIInv
<1>1. CASE UNCHANGED <<source, calls, stdout>>
  BY <1>1 DEF ReportIInv, PrintedFromSource, CallsOf
<1>2. CASE ReadStdout
  <2>1. UNCHANGED <<source, calls>> /\ stdout # <<>> /\ stdout' = Tail(stdout)
    BY <1>2 DEF ReadStdout
  <2>2. /\ Len(stdout) \in Nat \ {0}
        /\ DOMAIN stdout = 1 .. Len(stdout) /\ DOMAIN stdout' = 1 .. Len(stdout) - 1
        /\ \A i \in 1 .. Len(stdout) - 1 : stdout'[i] = stdout[i + 1]
    BY <2>1, TailSeq DEF Shape
  <2>3. \A i \in DOMAIN stdout' : i + 1 \in DOMAIN stdout /\ stdout'[i] = stdout[i + 1]
    BY <2>2
  <2> QED BY <2>1, <2>3 DEF ReportIInv, PrintedFromSource, CallsOf
<1>3. ASSUME NEW d \in Foreign, HandleSock(d) PROVE ReportIInv'
  <2>1. /\ calls' = In!Parse(synced, d).calls /\ source' = d.from /\ UNCHANGED stdout
    BY <1>3 DEF HandleSock, SourceAfter
  <2>2. synced \in BOOLEAN
    BY DEF Shape
  <2>3. \A i \in DOMAIN calls' : d.src # Own /\ calls'[i].src = d.src
    BY <2>1, <2>2, ParseCalls
  <2>4. IsSeq(calls')
    BY <2>1, <2>2, ParseCalls
  <2>5. calls' # <<>> => 1 \in DOMAIN calls'
    BY <2>4, TailSeq
  <2>6. calls' # <<>> => CallsOf(d)'
    BY <2>1, <2>3, <2>5 DEF CallsOf
  <2> QED BY <2>1, <2>6 DEF ReportIInv, PrintedFromSource
<1>4. CASE PrintError
  <2>1. UNCHANGED <<source, calls>> /\ Put([type |-> "error"])
    BY <1>4 DEF PrintError
  <2>2. PrintedFromSource'
    BY <2>1, PutFromSource DEF ReportIInv
  <2> QED BY <2>1, <2>2 DEF ReportIInv, CallsOf
<1>5. CASE MakeCall
  <2>1. /\ calls # <<>> /\ calls' = Tail(calls) /\ source' = source
        /\ Put(Printed(Head(calls))) \/ UNCHANGED stdout
    BY <1>5 DEF MakeCall
  <2>2. PICK d \in Foreign : CallsOf(d)
    BY <2>1 DEF ReportIInv
  <2>3. /\ Len(calls) \in Nat \ {0} /\ Head(calls) = calls[1]
        /\ DOMAIN calls = 1 .. Len(calls) /\ DOMAIN calls' = 1 .. Len(calls) - 1
        /\ \A i \in 1 .. Len(calls) - 1 : calls'[i] = calls[i + 1]
    BY <2>1, TailSeq DEF Shape
  <2>4. CallsOf(d)'
    BY <2>1, <2>2, <2>3 DEF CallsOf
  <2>5. Printed(Head(calls)).src = d.src /\ Printed(Head(calls)).ip = d.from /\ d.src # Own
    BY <2>2, <2>3 DEF CallsOf, Printed
  <2>6. PrintedFromSource'
    <3>1. CASE UNCHANGED stdout
      BY <3>1 DEF ReportIInv, PrintedFromSource
    <3>2. CASE Put(Printed(Head(calls)))
      BY <2>5, <3>2, PutFromSource DEF ReportIInv
    <3> QED BY <2>1, <3>1, <3>2
  <2> QED BY <2>4, <2>6 DEF ReportIInv
<1>6. [Next]_vars =>
        \/ UNCHANGED <<source, calls, stdout>>
        \/ ReadStdout \/ (\E d \in Foreign : HandleSock(d)) \/ PrintError \/ MakeCall
  BY DEF Next, Handler, vars, reports, WriteLine, CloseStdin, HandleStdin, EndOfFile,
         SocketFails, FlushLine, ParseReturns
<1> QED BY <1>1, <1>2, <1>3, <1>4, <1>5, <1>6

(* A report is printed with the address of the brick that sent it, and     *)
(* what the client sends comes back to nobody, as long as no brick has     *)
(* sent 2^24 datagrams: a name read from other bytes is not covered        *)
(* (main_client.cpp:55-77).                                                *)
THEOREM ReportsOfTheirSource ==
  ASSUME ShortSequences PROVE Spec => []PrintedFromSource
<1>1. Init => CommandIInv /\ ReportIInv
  BY CommandInit, ReportInit
<1>2. CommandIInv /\ ReportIInv /\ [Next]_vars => (CommandIInv /\ ReportIInv)'
  BY CommandNext, ReportNext
<1>3. ReportIInv => PrintedFromSource
  BY DEF ReportIInv
<1> QED BY <1>1, <1>2, <1>3, PTL DEF Spec
=============================================================================
