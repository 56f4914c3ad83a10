---------------------------- MODULE Demarshaller ----------------------------
(***************************************************************************)
(* A Demarshaller and its listener: datagrams arrive in any order from any *)
(* sender, the listening program itself included, because a broadcast is   *)
(* delivered to its sender too.                                            *)
(***************************************************************************)
EXTENDS DatagramParser

CONSTANT Datagram           \* the datagrams that can arrive

ASSUME DatagramAssumption ==
  \A d \in Datagram : /\ d.seq \in 0 .. 2 * Byte3 - 1
                      /\ d.n \in 0 .. 255
                      /\ d.msgs \in Seq([type : Types \cup {"bad"}])

VARIABLES
  synced,       \* m_sync = SYNC
  arrived,      \* the datagrams given to parse(), in order
  calls         \* calls[k]: the listener methods called for arrived[k]

vars == <<synced, arrived, calls>>

Init == synced = FALSE /\ arrived = <<>> /\ calls = <<>>

Receive(d) ==
  LET result == Parse(synced, d)
  IN  /\ synced' = result.synced
      /\ arrived' = Append(arrived, d)
      /\ calls' = Append(calls, result.calls)

Next == \E d \in Datagram : Receive(d)

Spec == Init /\ [][Next]_vars

-----------------------------------------------------------------------------
TypeOK ==
  /\ synced \in BOOLEAN
  /\ arrived \in Seq(Datagram)
  /\ Len(calls) = Len(arrived)
  /\ \A k \in DOMAIN calls : \A i \in DOMAIN calls[k] :
       calls[k][i].msg.type \in Types

(* A datagram parse() leaves through one of its early returns.             *)
Rejected(d) == ~ Filter(d.src) \/ ~ WellFormed(d)

(* A well-formed datagram of another program that called no listener.      *)
Lost(k) == ~ Rejected(arrived[k]) /\ arrived[k].n > 0 /\ calls[k] = <<>>

(* "both ev3_broker_client and ev3_broker_server will discard all messages *)
(* in which source_name and source_hash match their own" (README.md:185):  *)
(* every listener call repeats a sub-message of a datagram of another      *)
(* sender, at its place, under that sender's name.                         *)
OnlyForeignCalls ==
  \A k \in DOMAIN calls : \A i \in DOMAIN calls[k] :
    /\ arrived[k].src # Own
    /\ i \in DOMAIN arrived[k].msgs
    /\ calls[k][i] = Call(arrived[k].src, arrived[k].msgs[i])

(* The sub-messages of one well-formed datagram are dispatched together or *)
(* not at all: a position report is never split.                           *)
WholeOrNothing ==
  \A k \in DOMAIN calls :
    WellFormed(arrived[k]) => Len(calls[k]) \in {0, arrived[k].n}

(* The damage of an early return is limited (marshaller.cpp:184, 230): a   *)
(* datagram is lost only if the one right before it was rejected.          *)
LossAfterRejected ==
  \A k \in DOMAIN calls : Lost(k) => k > 1 /\ Rejected(arrived[k - 1])
=============================================================================
