---------------------------- MODULE BrokerServer ----------------------------
(***************************************************************************)
(* ev3_broker_server (main_server.cpp): the motors, the Marshaller and the *)
(* Demarshaller of one broker, and the event loop that calls its four      *)
(* handlers, one at a time.  A handler is a few steps, so motors come and  *)
(* go in the middle of it; nothing else runs between its steps.            *)
(*                                                                         *)
(* Timing is abstract: whenever no handler runs, any of them may be next.  *)
(* What the broker broadcasts comes back to it through the network, which  *)
(* may also lose it.                                                       *)
(***************************************************************************)
EXTENDS Naturals, Sequences

CONSTANTS
  Port, MaxPlugs, DutyArg, StartDuty,                      \* as in MotorBank
  Size, BufSize, HeaderSize, CountMod, SequenceMod,        \* as in Marshaller
  Own, Garbage,                                       \* as in DatagramParser
  Namesakes,    \* other senders with the name of this broker
  Foreign,      \* the datagrams other programs send to it
  MaxWire       \* bound: a timer waits while so many datagrams are on the way

ASSUME SourceAssumption == Own \notin Namesakes /\ Garbage \notin Namesakes

ASSUME ForeignAssumption ==
  \A d \in Foreign :
    /\ d.msgs \in Seq({d.msgs[i] : i \in DOMAIN d.msgs})
    /\ \A i \in DOMAIN d.msgs : d.msgs[i].type = "set_duty_cycle" =>
         d.msgs[i].device \in Port /\ d.msgs[i].duty_cycle \in DutyArg

VARIABLES
  plugged, plugs, duty, direct, motors, phase, left,  \* Motors motors
  buf, ptr, count, sequence, good, wire,              \* Marshaller marshaller
  synced,       \* demarshaller.m_sync = SYNC
  pc,           \* the handler that runs, "poll" if none, "done" after the end
  todo,         \* the motors the sensor timer has still to report
  calls,        \* the listener calls parse() has still to make
  enabled,      \* sensor_broadcast_enabled
  conflict,     \* conflict
  beats         \* n_heartbeat, not counted beyond 5

PositionOf(p) == [type |-> "position", device |-> p]
Heartbeat == [type |-> "heartbeat"]
Msg == {PositionOf(p) : p \in Port} \cup {Heartbeat}

Bank == INSTANCE MotorBank
Out == INSTANCE Marshaller WITH Size <- [m \in Msg |-> Size[m.type]]
In == INSTANCE DatagramParser

ASSUME PartsAssumption ==
  /\ Bank!DutyAssumption /\ Bank!PlugAssumption
  /\ Out!SizeAssumption /\ Out!ModAssumption

bank == <<plugged, plugs, duty, direct, motors, phase, left>>
out == <<buf, ptr, count, sequence, good, wire>>
local == <<synced, pc, todo, calls, enabled, conflict, beats>>
vars == <<bank, out, local>>

Init ==
  /\ Bank!Init /\ Out!Init
  /\ synced = FALSE
  /\ pc = "start"
  /\ todo = {} /\ calls = <<>>
  /\ enabled = FALSE /\ conflict = FALSE /\ beats = 0

-----------------------------------------------------------------------------
Hardware == Bank!Hardware /\ UNCHANGED <<out, local>>

(* The steps of a rescan and of a reset in progress.  rescan() returns to  *)
(* parse() if a command called it, to the event loop otherwise.            *)
RescanReturns == /\ Bank!EndRescan
                 /\ pc' = IF pc = "parse" THEN "parse" ELSE "poll"
MotorLoops ==
  /\ pc # "done"
  /\ \/ Bank!OpenDir /\ UNCHANGED pc
     \/ (\E m \in left : Bank!Prune(m) \/ Bank!Probe(m)) /\ UNCHANGED pc
     \/ RescanReturns
     \/ Bank!Reset /\ UNCHANGED pc
  /\ UNCHANGED <<out, synced, todo, calls, enabled, conflict, beats>>

-----------------------------------------------------------------------------
(* handle_sensor_timer                                                     *)
SensorTimer ==
  /\ pc = "poll" /\ enabled
  /\ Len(wire) <= MaxWire
  /\ pc' = "sensor"
  /\ todo' = motors
  /\ UNCHANGED <<bank, out, synced, calls, enabled, conflict, beats>>

(* catch (std::system_error): what was written before stays in the buffer. *)
SensorRetries == UNCHANGED <<bank, pc, todo>>
SensorKeepsTodo == Bank!BeginRescan /\ pc' = "rescan" /\ UNCHANGED todo
SensorFails ==
  /\ Bank!BeginRescan
  /\ pc' = "rescan"
  /\ todo' = {}

(* The callback returns true or throws.                                    *)
ReportPosition(m) ==
  /\ pc = "sensor" /\ m \in todo
  /\ \/ /\ Bank!Good(m) /\ Out!Write(PositionOf(m.port), TRUE)
        /\ todo' = todo \ {m}
        /\ UNCHANGED <<bank, pc>>
     \/ Bank!Good(m) /\ Out!WriteThrows(PositionOf(m.port)) /\ SensorFails
     \/ ~ Bank!Good(m) /\ UNCHANGED out /\ SensorFails
  /\ UNCHANGED <<synced, calls, enabled, conflict, beats>>

SendReport ==
  /\ pc = "sensor" /\ todo = {}
  /\ \/ Out!Flush(TRUE) /\ pc' = "poll" /\ UNCHANGED <<bank, todo>>
     \/ Out!FlushThrows /\ SensorFails
  /\ UNCHANGED <<synced, calls, enabled, conflict, beats>>

(* handle_rescan_timer                                                     *)
RescanTimerAtStart ==
  /\ pc = "poll" /\ ~ enabled
  /\ Bank!BeginRescan
  /\ pc' = "rescan"
  /\ UNCHANGED <<out, synced, todo, calls, enabled, conflict, beats>>

RescanTimer ==
  /\ pc = "poll"
  /\ Bank!BeginRescan
  /\ pc' = "rescan"
  /\ UNCHANGED <<out, synced, todo, calls, enabled, conflict, beats>>

-----------------------------------------------------------------------------
(* handle_hearbeat_timer                                                   *)
HeartbeatTimerStaysQuiet ==
  /\ pc = "poll"
  /\ Len(wire) <= MaxWire
  /\ beats' = IF beats = 5 THEN 5 ELSE beats + 1
  /\ enabled' = (enabled \/ (beats' > 4 /\ ~ conflict))
  /\ pc' = "beat"
  /\ UNCHANGED <<bank, out, synced, todo, calls, conflict>>

HeartbeatTimerClaimsFirst ==
  /\ pc = "poll"
  /\ Len(wire) <= MaxWire
  /\ beats' = IF beats = 5 THEN 5 ELSE beats + 1
  /\ IF beats' <= 4 /\ ~ enabled /\ conflict
       THEN pc' = "done" /\ UNCHANGED enabled
       ELSE enabled' = (enabled \/ beats' > 4) /\ pc' = "beat"
  /\ UNCHANGED <<bank, out, synced, todo, calls, conflict>>

HeartbeatTimer ==
  /\ pc = "poll"
  /\ Len(wire) <= MaxWire
  /\ beats' = IF beats = 5 THEN 5 ELSE beats + 1
  /\ IF ~ enabled /\ conflict
       THEN pc' = "done" /\ UNCHANGED enabled
       ELSE /\ enabled' = (enabled \/ (beats' > 4 /\ ~ conflict))
            /\ pc' = "beat"
  /\ UNCHANGED <<bank, out, synced, todo, calls, conflict>>

(* Nobody catches what the callback throws here: the program ends.         *)
WriteHeartbeat ==
  /\ pc = "beat"
  /\ \/ Out!Write(Heartbeat, TRUE) /\ pc' = "beaten"
     \/ Out!WriteThrows(Heartbeat) /\ pc' = "done"
  /\ UNCHANGED <<bank, synced, todo, calls, enabled, conflict, beats>>

FlushHeartbeatCaught ==
  /\ pc = "beaten"
  /\ Out!Flush(TRUE) \/ Out!FlushThrows
  /\ pc' = "poll"
  /\ UNCHANGED <<bank, synced, todo, calls, enabled, conflict, beats>>

FlushHeartbeat ==
  /\ pc = "beaten"
  /\ \/ Out!Flush(TRUE) /\ pc' = "poll"
     \/ Out!FlushThrows /\ pc' = "done"
  /\ UNCHANGED <<bank, synced, todo, calls, enabled, conflict, beats>>

-----------------------------------------------------------------------------
(* handle_sock: recv() and parse(), which makes the calls one by one.      *)
Parse(d) ==
  LET result == In!Parse(synced, d)
  IN  /\ pc = "poll"
      /\ pc' = "parse"
      /\ synced' = result.synced
      /\ calls' = result.calls
      /\ UNCHANGED <<bank, buf, ptr, count, sequence, good,
                     todo, enabled, conflict, beats>>

ReceiveForeign == \E d \in Foreign : Parse(d) /\ UNCHANGED wire

FromSelf(d) == [src |-> Own, seq |-> d.seq, n |-> d.n, msgs |-> d.msgs]

(* A datagram of no bytes counts as a closed socket, and nobody catches    *)
(* what recv() throws: both end the program.                               *)
ReceiveFails ==
  /\ pc = "poll"
  /\ pc' = "done"
  /\ UNCHANGED <<bank, out, synced, todo, calls, enabled, conflict, beats>>

ReceiveOwn == /\ wire # <<>>
              /\ wire' = Tail(wire)
              /\ Parse(FromSelf(Head(wire)))

LoseOwn == /\ wire # <<>>
           /\ wire' = Tail(wire)
           /\ UNCHANGED <<bank, buf, ptr, count, sequence, good, local>>

SetsConflict(src) == src \in Namesakes

HandleCall ==
  /\ pc = "parse" /\ phase = "idle"
  /\ calls # <<>>
  /\ calls' = Tail(calls)
  /\ LET src == Head(calls).src
         msg == Head(calls).msg
     IN  CASE msg.type = "set_duty_cycle" ->
                IF msg.device = Garbage
                  THEN UNCHANGED <<bank, conflict>>
                  ELSE /\ Bank!SetDutyCycle(msg.device, msg.duty_cycle)
                       /\ UNCHANGED conflict
           [] msg.type = "reset" -> Bank!BeginReset /\ UNCHANGED conflict
           [] msg.type = "heartbeat" ->
                /\ conflict' = (conflict \/ SetsConflict(src))
                /\ UNCHANGED bank
           [] OTHER -> UNCHANGED <<bank, conflict>>
  /\ UNCHANGED <<out, synced, pc, todo, enabled, beats>>

ParseReturns ==
  /\ pc = "parse" /\ phase = "idle"
  /\ calls = <<>>
  /\ pc' = "poll"
  /\ UNCHANGED <<bank, out, synced, todo, calls, enabled, conflict, beats>>

-----------------------------------------------------------------------------
(* The steps of a handler that is running.                                 *)
Handler ==
  \/ MotorLoops
  \/ (\E m \in todo : ReportPosition(m)) \/ SendReport
  \/ WriteHeartbeat \/ FlushHeartbeat
  \/ HandleCall \/ ParseReturns

Next ==
  \/ Hardware \/ LoseOwn
  \/ SensorTimer \/ RescanTimer \/ HeartbeatTimer
  \/ ReceiveForeign \/ ReceiveOwn \/ ReceiveFails
  \/ Handler

(* A handler runs to its end, the event loop comes back to each timer, and *)
(* the network does not hold a datagram for ever.                          *)
Fairness ==
  /\ WF_vars(Handler)
  /\ SF_vars(RescanTimer) /\ SF_vars(HeartbeatTimer)
  /\ WF_vars(LoseOwn)

Spec == Init /\ [][Next]_vars
FairSpec == Spec /\ Fairness

-----------------------------------------------------------------------------
(* Besides the types: between two handlers nothing is half done.           *)
TypeOK ==
  /\ Bank!TypeOK
  /\ buf \in Seq(Msg) /\ ptr \in Nat
  /\ synced \in BOOLEAN
  /\ pc \in {"start", "poll", "sensor", "rescan", "beat", "beaten", "parse",
             "done"}
  /\ todo \subseteq Bank!Directory
  /\ enabled \in BOOLEAN /\ conflict \in BOOLEAN
  /\ beats \in 0 .. 5
  /\ pc = "poll" => phase = "idle"
  /\ todo # {} => pc = "sensor"
  /\ calls # <<>> => pc = "parse"

(* The handlers use the motors as MotorBank allows: none begins a rescan   *)
(* or a reset, or writes a duty cycle, while a loop over the list runs.    *)
(* For as long as the broker lives the event loop also gives the motors    *)
(* the fairness MotorBank asks of its caller, so HotPlug of that module    *)
(* (README.md:14) is true of the broker: no handler starves the rescan.    *)
ImplementsBank == Bank!Spec /\ ([]<>(pc # "done") => Bank!Fairness)

(* However many sensor ticks fail half-way and leave reports behind, a     *)
(* datagram announces what it holds and the buffer does not overflow: the  *)
(* buffer has room for more heartbeats than the count byte can name        *)
(* (marshaller.cpp:119), but the program ends with a heartbeat that is not *)
(* sent (main_server.cpp:159-176), so no two of them ever wait.            *)
DatagramsHonest == Out!BufferBounds /\ Out!CountAnnounced /\ good

(* A broker reports positions only after four heartbeats that a namesake   *)
(* could answer, and one that hears a namesake before it has claimed its   *)
(* name never reports any, however its timers and datagrams interleave     *)
(* from then on (main_server.cpp:142-176).                                 *)
Positions(s) == {i \in DOMAIN s : s[i].type = "position"}
Reporting ==
  Positions(buf) # {} \/ \E i \in DOMAIN wire : Positions(wire[i].msgs) # {}
Contested == conflict /\ ~ enabled

ClaimsBeforeReporting ==
  [](Reporting => beats = 5) /\ [](Contested => []~ Reporting)

(* The program ends or gets back to the event loop: no handler hangs.      *)
HandlersReturn == pc # "poll" ~> pc \in {"poll", "done"}

(* "Another device is already active with name .. Aborting" (main_server   *)
(* .cpp:169-173): a namesake heard before the broadcast began ends it.     *)
ConflictAborts == (conflict /\ ~ enabled) ~> pc = "done"
=============================================================================
