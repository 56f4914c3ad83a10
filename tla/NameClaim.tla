------------------------------ MODULE NameClaim ------------------------------
(***************************************************************************)
(* How brokers claim their names (main_server.cpp:81-84, 96-140, 165-182): *)
(* several of them, started from a command line, killed and started again, *)
(* each with the heartbeat timer and the listener of BrokerServer, over a  *)
(* network that loses datagrams.  A broadcast comes back to its sender.    *)
(*                                                                         *)
(* All heartbeat timers have one period.  It stretches a little            *)
(* (EventLoop), so between two heartbeats of one broker another sends none,*)
(* one or two.  A broker sends when what it sent before has arrived or is  *)
(* lost: a report and a heartbeat may leave in one turn of the loop        *)
(* (event_loop.cpp:114-121), but each receiver hears them in that order.   *)
(* It takes longer to start a broker than for a datagram to arrive.        *)
(***************************************************************************)
EXTENDS Integers, Sequences, FiniteSets, Functions

CONSTANTS
  Broker,
  CommandLine,  \* CommandLine[b]: the lines b is started with
  Number,       \* Number[t]: what strtol makes of token t, if it takes all of t
  Long,         \* Long[n]: the first 16 bytes of a name n longer than that
  NameToken,    \* the tokens that may be a name
  Garbage, NoValue,
  MaxStarts     \* bound: brokers started, again and again

ASSUME CommandLineAssumption ==
  CommandLine \in [Broker -> SUBSET Seq(STRING)]

ASSUME NoValueAssumption == NoValue \notin {"4721", "EV3"}

VARIABLES
  up,           \* the brokers that run
  argv,         \* argv[b]: the command line b was last started with
  name, port,   \* name[b], port[b]: device_name and port of b
  beats,        \* beats[b]: n_heartbeat, not counted beyond 5
  enabled,      \* enabled[b]: sensor_broadcast_enabled
  conflict,     \* conflict[b]
  synced,       \* synced[b]: m_sync = SYNC in b's demarshaller
  channel,      \* channel[b][c]: the datagram of b on its way to c
  lead,         \* lead[b][c]: heartbeats of b since the last one of c
  missed,       \* pairs <<b, c>>: c missed a heartbeat of b while both ran
  starts,       \* brokers started so far
  used          \* their names: records [broker, name, port]

told == <<argv, name, port>>
own == <<beats, enabled, conflict, synced>>
vars == <<up, told, own, channel, lead, missed, starts, used>>

-----------------------------------------------------------------------------
(* main_server.cpp:89-110.  The port is cut to 16 bits, its range is not   *)
(* looked at; the name is taken as it is.                                  *)
PortArg == [flag |-> "--port", is_switch |-> FALSE, default |-> "4721",
            accepts |-> DOMAIN Number]
NameArg == [flag |-> "--name", is_switch |-> FALSE, default |-> "EV3",
            accepts |-> NameToken]

Line == INSTANCE Argparse WITH Args <- <<PortArg, NameArg>>

Parsed == [line \in UNION Range(CommandLine) |-> Line!Parse(line)]
Valid == {line \in DOMAIN Parsed : ~ Parsed[line].exited}

Setting == [line \in Valid |->
  [port |-> Number[Line!Value(Parsed[line], 2)] % 65536,
   name |-> Line!Value(Parsed[line], 3)]]

(* A name on the wire has at most 16 bytes.  The hash is random, and two   *)
(* brokers never draw the same.                                            *)
Cut(n) == IF n \in DOMAIN Long THEN Long[n] ELSE n
SourceId(b) == [name |-> name[b], hash |-> b]
OnWire(b) == [name |-> Cut(name[b]), hash |-> b]

Parser(b) == INSTANCE DatagramParser WITH Own <- SourceId(b)

Hears(b, c) == c \in up /\ port[c] = port[b]

-----------------------------------------------------------------------------
Init ==
  /\ up = {}
  /\ argv = [b \in Broker |-> <<>>]
  /\ name = [b \in Broker |-> ""] /\ port = [b \in Broker |-> 0]
  /\ beats = [b \in Broker |-> 0]
  /\ enabled = [b \in Broker |-> FALSE]
  /\ conflict = [b \in Broker |-> FALSE]
  /\ synced = [b \in Broker |-> FALSE]
  /\ channel = [b \in Broker |-> [c \in Broker |-> "none"]]
  /\ lead = [b \in Broker |-> [c \in Broker |-> 0]]
  /\ missed = {} /\ starts = 0 /\ used = {}

(* A line that is not valid ends the program before it has done anything.  *)
AllArrived(b) == \A c \in Broker : channel[b][c] = "none"

Start(b, line) ==
  /\ b \notin up /\ AllArrived(b)
  /\ starts < MaxStarts
  /\ starts' = starts + 1
  /\ up' = up \cup {b}
  /\ argv' = [argv EXCEPT ![b] = line]
  /\ name' = [name EXCEPT ![b] = Setting[line].name]
  /\ port' = [port EXCEPT ![b] = Setting[line].port]
  /\ used' = used \cup {[broker |-> b, name |-> name'[b], port |-> port'[b]]}
  /\ UNCHANGED <<own, channel, lead, missed>>

(* What dies with the program, and what was on its way to it.              *)
Ends(b) ==
  /\ up' = up \ {b}
  /\ beats' = [beats EXCEPT ![b] = 0]
  /\ enabled' = [enabled EXCEPT ![b] = FALSE]
  /\ conflict' = [conflict EXCEPT ![b] = FALSE]
  /\ synced' = [synced EXCEPT ![b] = FALSE]
  /\ channel' = [c \in Broker |-> [channel[c] EXCEPT ![b] = "none"]]
  /\ lead' = [c \in Broker |-> [d \in Broker |->
                IF b \in {c, d} THEN 0 ELSE lead[c][d]]]
  /\ missed' = {pair \in missed : b \notin {pair[1], pair[2]}}
  /\ UNCHANGED <<told, starts, used>>

(* Killed, or one of the ends of BrokerServer other than a conflict.       *)
Stop(b) == b \in up /\ Ends(b)

Broadcast(b, kind) ==
  channel' = [channel EXCEPT ![b] =
                [c \in Broker |-> IF Hears(b, c) THEN kind ELSE "none"]]

-----------------------------------------------------------------------------
(* handle_hearbeat_timer                                                   *)
EnabledAtOnce(b) == ~ conflict[b]
EnabledAfter(b) == beats[b] + 1 > 4 /\ ~ conflict[b]

AbortsAtFirst(b) == ~ enabled[b] /\ conflict[b] /\ beats[b] = 0
Aborts(b) == ~ enabled[b] /\ conflict[b]

InStep(b) == \A c \in up \ {b} : lead[b][c] < 2

Beat(b) ==
  /\ b \in up /\ AllArrived(b)
  /\ InStep(b)
  /\ ~ Aborts(b)
  /\ beats' = [beats EXCEPT ![b] = IF @ = 5 THEN 5 ELSE @ + 1]
  /\ enabled' = [enabled EXCEPT ![b] = @ \/ EnabledAfter(b)]
  /\ Broadcast(b, "heartbeat")
  /\ lead' = [c \in Broker |-> [d \in Broker |->
                CASE c = b /\ d \in up \ {b} -> lead[b][d] + 1
                  [] d = b -> 0
                  [] OTHER -> lead[c][d]]]
  /\ UNCHANGED <<up, told, conflict, synced, missed, starts, used>>

Abort(b) ==
  /\ b \in up
  /\ InStep(b)
  /\ Aborts(b)
  /\ Ends(b)

(* handle_sensor_timer                                                     *)
Report(b) ==
  /\ b \in up /\ AllArrived(b)
  /\ enabled[b]
  /\ Broadcast(b, "position")
  /\ UNCHANGED <<up, told, own, lead, missed, starts, used>>

(* handle_sock.  Sequence numbers are small.                               *)
Datagram(b, kind) ==
  [src |-> OnWire(b), seq |-> 0, n |-> 1, msgs |-> <<[type |-> kind]>>]

SetsConflictOfHash(c, call) ==
  call.msg.type = "heartbeat" /\ call.src = SourceId(c)
SetsConflict(c, call) ==
  call.msg.type = "heartbeat" /\ call.src.name = name[c]

Misses(b, c) ==
  IF b # c /\ channel[b][c] = "heartbeat" THEN {<<b, c>>} ELSE {}

Receive(b, c) ==
  /\ c \in up /\ channel[b][c] # "none"
  /\ LET result == Parser(c)!Parse(synced[c], Datagram(b, channel[b][c]))
     IN  /\ synced' = [synced EXCEPT ![c] = result.synced]
         /\ conflict' = [conflict EXCEPT ![c] =
              @ \/ \E i \in DOMAIN result.calls : SetsConflict(c, result.calls[i])]
         /\ missed' = missed \cup (IF result.calls = <<>> THEN Misses(b, c) ELSE {})
  /\ channel' = [channel EXCEPT ![b][c] = "none"]
  /\ UNCHANGED <<up, told, beats, enabled, lead, starts, used>>

Lose(b, c) ==
  /\ channel[b][c] # "none"
  /\ missed' = missed \cup Misses(b, c)
  /\ channel' = [channel EXCEPT ![b][c] = "none"]
  /\ UNCHANGED <<up, told, own, lead, starts, used>>

-----------------------------------------------------------------------------
NextReliable ==
  \E b \in Broker :
    \/ \E line \in CommandLine[b] \cap Valid : Start(b, line)
    \/ Stop(b) \/ Beat(b) \/ Abort(b) \/ Report(b)
    \/ \E c \in Broker : Receive(b, c)

Next == NextReliable \/ \E b, c \in Broker : Lose(b, c)

(* Timers come round, and the network loses a datagram or delivers it.     *)
Fairness ==
  /\ \A b \in Broker : SF_vars(Beat(b) \/ Abort(b))
  /\ \A b \in Broker : WF_vars(\E c \in Broker : Receive(b, c) \/ Lose(b, c))

Spec == Init /\ [][Next]_vars
FairSpec == Spec /\ Fairness
ReliableSpec == Init /\ [][NextReliable]_vars

-----------------------------------------------------------------------------
(* Besides the types: a broker reports only after five heartbeats.         *)
TypeOK ==
  /\ up \subseteq Broker
  /\ beats \in [Broker -> 0 .. 5]
  /\ enabled \in [Broker -> BOOLEAN] /\ conflict \in [Broker -> BOOLEAN]
  /\ synced \in [Broker -> BOOLEAN]
  /\ channel \in [Broker -> [Broker -> {"none", "heartbeat", "position"}]]
  /\ lead \in [Broker -> [Broker -> 0 .. 2]]
  /\ missed \subseteq Broker \X Broker
  /\ \A b \in Broker : enabled[b] => b \in up /\ beats[b] = 5

(* A broker that runs has the settings of its command line, read as pairs  *)
(* of an option and its value, and each callback was called exactly once   *)
(* (argparse.hpp:46-48), so no setting is left without a value (main_      *)
(* server.cpp:89).                                                         *)
Told(line, flag, default) ==
  LET at == {i \in DOMAIN line : i % 2 = 1 /\ line[i] = flag}
  IN  IF at = {} THEN default ELSE line[(CHOOSE i \in at : TRUE) + 1]

Flags(line) == [i \in 1 .. Len(line) \div 2 |-> line[2 * i - 1]]

ReadAsTold(line, calls) ==
  /\ Len(line) % 2 = 0 /\ IsInjective(Flags(line))
  /\ Len(calls) = 2 /\ {calls[i].arg : i \in {1, 2}} = {2, 3}

AsTold ==
  \A b \in up : LET line == argv[b] IN
    /\ ReadAsTold(line, Parsed[line].calls)
    /\ name[b] = Told(line, "--name", "EV3")
    /\ port[b] = Number[Told(line, "--port", "4721")] % 65536

(* Two brokers of one name report at the same time only if one has missed  *)
(* a heartbeat of the other (main_server.cpp:169): four quiet periods are  *)
(* enough, however the timers drift and the brokers are restarted.  Names  *)
(* longer than 16 bytes are out: they are never recognised (line 83).      *)
SameName(b, c) == name[b] = name[c] /\ port[b] = port[c]
Reporting == {b \in up : enabled[b]}

BothOnlyAfterMiss ==
  \A b, c \in Reporting :
    b # c /\ SameName(b, c) /\ name[b] \notin DOMAIN Long
      => <<b, c>> \in missed \/ <<c, b>> \in missed

(* A conflict is with another broker that has claimed the name at this     *)
(* port, never with an echo of the broker's own heartbeats (lines 48-52).  *)
ConflictIsReal ==
  \A b \in Broker : conflict[b] =>
    \E u \in used : /\ u.broker # b /\ u.port = port[b]
                   /\ Cut(u.name) = name[b]

(* A broker does not stay undecided: it gets to report, or it ends.        *)
Decides == \A b \in Broker : b \in up ~> b \notin up \/ enabled[b]

(* "Each EV3 device in the network is assigned a unique name" (README.md:  *)
(* 19), and a second device of a name aborts (main_server.cpp:171): on a   *)
(* network that loses nothing no two brokers of one name report.           *)
UniqueName ==
  \A b, c \in Reporting : b # c => ~ SameName(b, c)
=============================================================================
