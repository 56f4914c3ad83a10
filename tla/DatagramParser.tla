--------------------------- MODULE DatagramParser ---------------------------
(***************************************************************************)
(* Demarshaller::parse (ev3_event_broker/marshaller.cpp) on one datagram:  *)
(* which listener methods it calls and whether m_sync still holds the sync *)
(* word when it returns.                                                   *)
(*                                                                         *)
(* A datagram is the record [src, seq, n, msgs]: the sender's name and     *)
(* hash, the sequence number, the #Messages byte and the sub-messages      *)
(* behind it, each a record with a `type`; type "bad" is any sub-message   *)
(* parse() gives up on, an unknown type or one cut short.  Every datagram  *)
(* has a whole header and holds no second sync word.                       *)
(***************************************************************************)
EXTENDS Integers, Sequences, FiniteSets

CONSTANTS
  Own,          \* name and hash of the program that listens
  Garbage       \* a name read from bytes that are not a name

Types == {"position", "set_duty_cycle", "heartbeat", "reset"}

(* filter() of both programs: TRUE for a datagram with another name or     *)
(* another hash.                                                           *)
FilterNothing(src) == TRUE
Filter(src) == src # Own

(* The sub-messages the loop over n_messages reads before it returns.      *)
CanReadUnknown(d, k) == k <= d.n /\ k <= Len(d.msgs)
CanRead(d, k) ==
  /\ k <= d.n /\ k <= Len(d.msgs)
  /\ \A i \in 1 .. k : d.msgs[i].type \in Types

ReadableButLast(d) ==
  SubSeq(d.msgs, 1, Cardinality({k \in 1 .. Len(d.msgs) : CanRead(d, k)}) - 1)

Readable(d) ==
  SubSeq(d.msgs, 1, Cardinality({k \in 1 .. Len(d.msgs) : CanRead(d, k)}))

WellFormed(d) == d.n = Len(d.msgs) /\ CanRead(d, d.n)

Call(src, msg) == [src |-> src, msg |-> msg]

(* m_sync was not SYNC: the scan stops behind the sync word, where the     *)
(* header is.  Only the end of the loop resets m_sync; a rejected header   *)
(* and an unreadable sub-message return with it set.                       *)
AlignedKeepsSync(d) ==
  LET msgs == Readable(d)
  IN  [calls  |-> IF Filter(d.src)
                    THEN [i \in 1 .. Len(msgs) |-> Call(d.src, msgs[i])]
                    ELSE <<>>,
       synced |-> TRUE]

Aligned(d) ==
  IF ~ Filter(d.src)
    THEN [calls |-> <<>>, synced |-> TRUE]
    ELSE LET msgs == Readable(d)
         IN  [calls  |-> [i \in 1 .. Len(msgs) |-> Call(d.src, msgs[i])],
              synced |-> Len(msgs) < d.n]

(* m_sync was SYNC: the header is read from byte 0, four bytes early, and  *)
(* takes the top byte of the sequence number for #Messages and the next    *)
(* one for the type of the first sub-message.  Its source name begins with *)
(* the sync word, so it is nobody's.  Sequence numbers stay below 2^25:    *)
(* at most one sub-message is read (three days of datagrams).              *)
Byte2 == 256 * 256
Byte3 == 256 * Byte2
MisreadCount(d) == d.seq \div Byte3
MisreadType(d) ==
  LET t == (d.seq \div Byte2) % 256
  IN  CASE t = 1 -> "position" [] t = 2 -> "set_duty_cycle"
        [] t = 3 -> "heartbeat" [] t = 255 -> "reset" [] OTHER -> "bad"

(* Bytes of a datagram; positions and duty cycles take 21.                 *)
Large(type) == type \in {"position", "set_duty_cycle"}
HoldsTwentyBytes(d) ==
  Len(d.msgs) > 16 \/ \E i \in DOMAIN d.msgs : Large(d.msgs[i].type)

Misaligned(d) ==
  LET type     == MisreadType(d)
      complete == type # "bad" /\ (Large(type) => HoldsTwentyBytes(d))
  IN  IF MisreadCount(d) = 0
        THEN [calls |-> <<>>, synced |-> FALSE]
        ELSE IF complete
        THEN [calls  |-> <<Call(Garbage, [type |-> type, device |-> Garbage])>>,
              synced |-> FALSE]
        ELSE [calls |-> <<>>, synced |-> TRUE]

Parse(synced, d) == IF synced THEN Misaligned(d) ELSE Aligned(d)
=============================================================================
