--------------------------- MODULE MCBrokerClient ---------------------------
(***************************************************************************)
(* BrokerClient with two targets, of whose lines two fit the buffer of     *)
(* stdio, and reports of two bricks.  One line fits the pipe of stdout.    *)
(***************************************************************************)
EXTENDS BrokerClient, TLC

CONSTANTS brick, other

MCSize == "set_duty_cycle" :> 2 @@ "reset" :> 1

From(src, from, types) ==
  [src |-> src, from |-> from, seq |-> 0, n |-> Len(types),
   msgs |-> [i \in DOMAIN types |-> [type |-> types[i]]]]

(* Reports of two motors, a heartbeat, a command of the client that came   *)
(* back to it because it was sent to the broadcast address.                *)
Heard ==
  {From("Brick", brick, <<"position", "position">>),
   From("Other", other, <<"heartbeat">>),
   From(Own, Nowhere, <<"reset">>)}
=============================================================================
