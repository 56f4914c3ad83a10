---------------------------- MODULE MCMarshaller ----------------------------
(***************************************************************************)
(* Marshaller on small buffers: messages of two bytes and of one byte in a *)
(* buffer with room for four, so that each write meets a buffer that is    *)
(* empty, partly full, exactly full and one byte short.  The count wraps   *)
(* at three: as in the code, more of the smallest messages fit the buffer  *)
(* than it can name, and fewer of the others.                              *)
(***************************************************************************)
EXTENDS Marshaller, TLC

CONSTANTS
  Position, Duty,       \* sub-messages of two bytes
  Heartbeat,            \* a sub-message of one byte
  MaxWire,              \* bound: datagrams on the wire
  MaxSequence           \* bound: flushes

MCMsg == {Position, Duty, Heartbeat}
MCSize == (Heartbeat :> 1) @@ (Position :> 2) @@ (Duty :> 2)

Bounded == Len(wire) <= MaxWire /\ sequence <= MaxSequence
=============================================================================
