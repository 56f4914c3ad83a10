--------------------------- MODULE MessageStream ---------------------------
(***************************************************************************)
(* What a Marshaller promises the code that writes messages to it: every   *)
(* accepted message is handed to the transport exactly once, in the order  *)
(* of the writes, packed into batches, for as long as the transport does   *)
(* not report a failure; after a failure nothing is handed over any more.  *)
(* The promise is for a caller that lets fewer than Limit messages wait;   *)
(* of Limit or more the first few arrive, or none, and nobody is told.     *)
(***************************************************************************)
EXTENDS Naturals, Sequences

CONSTANTS
  Msg,                      \* the messages a caller can write
  Limit                     \* a batch can name fewer messages than that

VARIABLES
  pending,                  \* messages accepted and not yet handed over
  batches,                  \* batches handed over, each as a receiver reads it
  up                        \* FALSE once the transport has reported a failure

vars == <<pending, batches, up>>

Init ==
  /\ pending = <<>>
  /\ batches = <<>>
  /\ up = TRUE

(* The pending messages leave as one batch, whole and in order; `rest` are *)
(* the messages accepted by the same call.                                 *)
HandOver(rest) ==
  /\ up
  /\ pending # <<>> /\ Len(pending) < Limit
  /\ batches' = Append(batches, pending)
  /\ pending' = rest
  /\ UNCHANGED up

(* The transport refuses the batch, or had refused an earlier one.         *)
Lose(rest) ==
  /\ pending # <<>>
  /\ up' = FALSE
  /\ pending' = rest
  /\ UNCHANGED batches

(* Too many to be named: as far as they are read, they are read in order.  *)
Overrun(rest) ==
  /\ Len(pending) >= Limit
  /\ \/ UNCHANGED batches
     \/ up /\ \E k \in 1 .. Limit - 1 :
                batches' = Append(batches, SubSeq(pending, 1, k))
  /\ pending' = rest
  /\ UNCHANGED up

Accept(m) ==
  /\ pending' = Append(pending, m)
  /\ UNCHANGED <<batches, up>>

Next ==
  \/ \E rest \in {<<>>} \cup {<<m>> : m \in Msg} :
       HandOver(rest) \/ Lose(rest) \/ Overrun(rest)
  \/ \E m \in Msg : Accept(m)

Spec == Init /\ [][Next]_vars
=============================================================================
