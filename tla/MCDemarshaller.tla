--------------------------- MODULE MCDemarshaller ---------------------------
(***************************************************************************)
(* Demarshaller with two foreign senders and the datagrams the programs    *)
(* and a careless third party write.                                       *)
(***************************************************************************)
EXTENDS Demarshaller

CONSTANTS
  Peer, Client,         \* the other senders
  Seqs,                 \* sequence numbers
  Layouts,              \* #Messages and sub-messages of a datagram
  MaxArrivals           \* bound: datagrams

Msg(type) == [type |-> type]
Layout(n, types) ==
  [n |-> n, msgs |-> [i \in DOMAIN types |-> Msg(types[i])]]

(* A report of two motors, a heartbeat, a command; a count that is larger  *)
(* than the number of messages, an unknown type between known ones.        *)
AllLayouts ==
  {Layout(2, <<"position", "position">>), Layout(1, <<"heartbeat">>),
   Layout(1, <<"reset">>), Layout(3, <<"set_duty_cycle", "reset">>),
   Layout(3, <<"position", "bad", "heartbeat">>)}

(* What the Marshaller writes.                                             *)
MarshallerLayouts ==
  {Layout(1, <<"position">>), Layout(1, <<"heartbeat">>),
   Layout(1, <<"set_duty_cycle">>)}

(* The first and the last sequence number with a zero in its top byte.     *)
ShortSeqs == {0, Byte3 - 1}

(* 0x01FF0000: after four days the top byte reads as a count of one and    *)
(* the next one as the type of a reset.                                    *)
LongSeqs == {0, Byte3 + 255 * Byte2}

Datagrams ==
  {[src |-> src, seq |-> seq, n |-> l.n, msgs |-> l.msgs] :
     src \in {Own, Peer, Client}, seq \in Seqs, l \in Layouts}

Bounded == Len(arrived) < MaxArrivals
=============================================================================
