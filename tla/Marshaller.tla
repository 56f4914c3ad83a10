----------------------------- MODULE Marshaller -----------------------------
(***************************************************************************)
(* Class Marshaller (ev3_event_broker/marshaller.cpp): collects            *)
(* sub-messages in one fixed buffer behind a header that is written once,  *)
(* and hands the buffer to a callback when it is flushed or has no room.   *)
(*                                                                         *)
(* A sub-message is a value of Msg; its bytes are abstracted to its Size.  *)
(* The header is the sequence number and the #Messages byte, the two       *)
(* fields flush() rewrites.  The source name and hash never change.        *)
(***************************************************************************)
EXTENDS Naturals, Sequences

CONSTANTS
  Msg,          \* the sub-messages the write_* functions can be asked for
  Size,         \* Size[m]: bytes of m (POSITION_SENSOR_SIZE, RESET_SIZE, ...)
  BufSize,      \* MARSHALLER_BUF_SIZE, 1280
  HeaderSize,   \* m_header_offs: sync word, name, hash, sequence, count: 33
  CountMod,     \* m_message_count is a uint8_t: 256
  SequenceMod   \* m_sequence is a uint32_t

ASSUME SizeAssumption ==
  /\ Size \in [Msg -> Nat \ {0}]
  /\ HeaderSize \in Nat /\ BufSize \in Nat /\ HeaderSize <= BufSize
  /\ \A m \in Msg : HeaderSize + Size[m] <= BufSize

ASSUME ModAssumption == CountMod \in Nat \ {0, 1} /\ SequenceMod \in Nat \ {0}

VARIABLES
  buf,          \* the sub-messages in m_buf, behind the header
  ptr,          \* m_buf_ptr
  count,        \* m_message_count
  sequence,     \* m_sequence
  good,         \* m_good
  wire          \* the buffers for which the callback returned true, in order

vars == <<buf, ptr, count, sequence, good, wire>>

Datagram == [seq : 0 .. SequenceMod - 1, n : 0 .. CountMod - 1, msgs : Seq(Msg)]

Init ==
  /\ buf = <<>>
  /\ ptr = HeaderSize
  /\ count = 0
  /\ sequence = 0
  /\ good = TRUE
  /\ wire = <<>>

-----------------------------------------------------------------------------
(* flush(), line by line.  The callback is called only by a good marshaller *)
(* that has counted a message.                                             *)
CallsBack == good /\ count > 0

(* m_good = m_good && m_cback(..): a refusal is remembered for good.       *)
GoodForgotten(ok) == good
GoodAfter(ok) == good /\ (CallsBack => ok)

SequenceStuck == sequence
NextSequence == (sequence + 1) % SequenceMod

PtrNotReset(used) == ptr + used
PtrAfter(used) == HeaderSize + used

CountNotReset(rest) == count + Len(rest)
CountAfter(rest) == Len(rest)

(* The callback returned `ok`; what is left of the buffer is `rest`, of    *)
(* `used` bytes: nothing, or the message the flush made room for.  Count,  *)
(* sequence and pointer advance whether or not anything was sent.          *)
FlushInto(ok, rest, used) ==
  /\ wire' = IF CallsBack /\ ok
               THEN Append(wire, [seq |-> sequence, n |-> count, msgs |-> buf])
               ELSE wire
  /\ good' = GoodAfter(ok)
  /\ count' = CountAfter(rest)
  /\ sequence' = NextSequence
  /\ ptr' = PtrAfter(used)
  /\ buf' = rest

Flush(ok) == FlushInto(ok, <<>>, 0)

HasSpaceOffByOne(m) == ptr + Size[m] <= BufSize + 1

(* flush_if_no_space() leaves the buffer alone.                            *)
HasSpace(m) == ptr + Size[m] <= BufSize

(* initialze_msg() finds room: finalize_msg() moves the pointer and counts. *)
WriteFits(m) ==
  /\ HasSpace(m)
  /\ buf' = Append(buf, m)
  /\ ptr' = ptr + Size[m]
  /\ count' = (count + 1) % CountMod
  /\ UNCHANGED <<sequence, good, wire>>

(* flush_if_no_space() flushes first.                                      *)
WriteFlushes(m, ok) ==
  /\ ~ HasSpace(m)
  /\ FlushInto(ok, <<m>>, Size[m])

(* write_position_sensor, write_set_duty_cycle, write_heartbeat and        *)
(* write_reset: they differ in the message and its size only.              *)
Write(m, ok) == WriteFits(m) \/ WriteFlushes(m, ok)

(* The callback of both programs ends in socket::UDP::send, which throws   *)
(* system_error: flush() is left before its last three assignments, and a  *)
(* write that wanted room is left with it, so nothing has changed.         *)
FlushThrowsUncounted ==
  CallsBack /\ count' = 0 /\ UNCHANGED <<buf, ptr, sequence, good, wire>>
FlushThrows == CallsBack /\ UNCHANGED vars
WriteThrows(m) == ~ HasSpace(m) /\ FlushThrows

Next ==
  \/ \E ok \in BOOLEAN : Flush(ok)
  \/ FlushThrows
  \/ \E m \in Msg : (\E ok \in BOOLEAN : Write(m, ok)) \/ WriteThrows(m)

Spec == Init /\ [][Next]_vars

-----------------------------------------------------------------------------
TypeOK ==
  /\ buf \in Seq(Msg)
  /\ ptr \in Nat
  /\ count \in 0 .. CountMod - 1
  /\ sequence \in 0 .. SequenceMod - 1
  /\ good \in BOOLEAN
  /\ wire \in Seq(Datagram)

(* m_buf_ptr never leaves the buffer nor enters the header: the write that *)
(* is asked for always ends inside m_buf (marshaller.cpp:93).              *)
BufferBounds == HeaderSize <= ptr /\ ptr <= BufSize

(* m_buf_ptr is where the messages end: the size given to the callback     *)
(* (marshaller.cpp:103) covers the header and every whole message, though  *)
(* flush() moves the pointer without looking at the messages.  End[i] is   *)
(* where the i-th message ends.                                            *)
EndOf(s) ==
  LET End[i \in 0 .. Len(s)] ==
        IF i = 0 THEN HeaderSize ELSE End[i - 1] + Size[s[i]]
  IN  End[Len(s)]

PtrExact == ptr = EndOf(buf)

(* Whatever is written between two flushes, a receiver finds at least one  *)
(* message and never looks for one behind the end: the count byte may have *)
(* wrapped (marshaller.cpp:119), but never overstates, and it is exact for *)
(* a caller that flushes in time, though flushes throw in between.         *)
CountHonest ==
  \A i \in DOMAIN wire :
    /\ wire[i].n \in 1 .. Len(wire[i].msgs)
    /\ Len(wire[i].msgs) < CountMod => wire[i].n = Len(wire[i].msgs)

(* The #Messages byte "indicates the number of messages following the      *)
(* message header" (README.md:197).  The byte wraps (marshaller.cpp:119),  *)
(* so this is true only of programs that flush in time.                    *)
CountAnnounced ==
  \A i \in DOMAIN wire : wire[i].n = Len(wire[i].msgs)

(* Two datagrams of one sender never carry the same sequence number, and   *)
(* they carry increasing ones, a failed attempt included, until the 32 bit *)
(* counter wraps (marshaller.cpp:106).                                     *)
SequencesIncrease ==
  \A i, j \in DOMAIN wire : i < j => wire[i].seq < wire[j].seq

(* A receiver reads the first n messages of a datagram (marshaller.cpp:189). *)
Readable(d) == SubSeq(d.msgs, 1, d.n)

Stream == INSTANCE MessageStream WITH
  Limit <- CountMod,
  pending <- buf,
  batches <- [i \in DOMAIN wire |-> Readable(wire[i])],
  up <- good

(* The marshaller keeps the promise of MessageStream: what is written is   *)
(* read once, in order, none lost while the callback succeeds and fewer    *)
(* than CountMod messages wait.                                            *)
ImplementsStream == Stream!Spec
=============================================================================
