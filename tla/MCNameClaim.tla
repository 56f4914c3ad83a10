---------------------------- MODULE MCNameClaim ----------------------------
(***************************************************************************)
(* NameClaim with command lines that work, two of them for one name and    *)
(* port, and lines that do not.  LongName stands for a name of more than   *)
(* 16 bytes.                                                               *)
(***************************************************************************)
EXTENDS NameClaim, TLC

MCNumber == "4721" :> 4721 @@ "70257" :> 70257 @@ "" :> 0
MCLong == "LongName" :> "LongNam"
MCName == {"EV3", "LongName", "--port"}

(* No value, a bad one, an option twice; the line ev3_nengo.py:121 starts  *)
(* the client with; argparse.hpp:22-23 names the last three forms, and     *)
(* only --help is known, as a switch that exits.                           *)
Failing ==
  {<<"--port">>, <<"--port", "x">>, <<"--name", "--port", "4721">>,
   <<"--name", "EV3", "--name", "EV3">>, <<"EV3">>,
   <<"-p", "4721", "-n", "nengo">>,
   <<"--name=EV3">>, <<"-h">>, <<"--name", "EV3", "--help">>}

CONSTANTS b1, b2

(* 70257 is 4721 in 16 bits, and the empty value is port 0.                *)
Lines ==
  b1 :> {<<>>} @@
  b2 :> {<<"--port", "70257", "--name", "EV3">>,
         <<"--name", "LongName", "--port", "">>} \cup Failing
=============================================================================
