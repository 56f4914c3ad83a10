--------------------------- MODULE MCBrokerServer ---------------------------
(***************************************************************************)
(* BrokerServer with one client and a namesake.  A position takes two      *)
(* bytes of the buffer, a heartbeat one, and there is room for six:        *)
(* reports left behind by failed ticks make a later one flush in the       *)
(* middle of its loop.  The count wraps at four: as in the code, more      *)
(* heartbeats fit the buffer than it can name, and fewer positions.        *)
(***************************************************************************)
EXTENDS BrokerServer, TLC

CONSTANTS Client, Namesake

MCSize == "position" :> 2 @@ "heartbeat" :> 1

From(src, msgs) == [src |-> src, seq |-> 0, n |-> Len(msgs), msgs |-> msgs]
Command(p, v) == [type |-> "set_duty_cycle", device |-> p, duty_cycle |-> v]
ResetMsg == [type |-> "reset"]

(* Drive a motor and stop all: a command for a motor that is gone rescans  *)
(* before the reset is called.  Drive a motor; a sub-message cut short.    *)
Commands ==
  {From(Client, <<Command(p, v), ResetMsg>>) : p \in Port, v \in DutyArg}
  \cup {From(Client, <<Command(p, v)>>) : p \in Port, v \in DutyArg}
  \cup {From(Client, <<[type |-> "bad"]>>)}

Incoming == Commands \cup {From(Namesake, <<Heartbeat>>)}
=============================================================================
