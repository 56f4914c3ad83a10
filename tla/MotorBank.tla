----------------------------- MODULE MotorBank -----------------------------
(***************************************************************************)
(* Class Motors (ev3_event_broker/motors.cpp) with the TachoMotors it owns *)
(* (tacho_motor.cpp) and the part of sysfs they read and write.            *)
(*                                                                         *)
(* The kernel makes a directory for each motor that is plugged in; a motor *)
(* plugged into the same port again is another directory.  So a directory  *)
(* is a port and a number, and the files a TachoMotor holds open belong to *)
(* one directory: they fail once the motor is unplugged, even if the port  *)
(* is in use again.  A motor's name follows from its port (read_name).     *)
(***************************************************************************)
EXTENDS Integers

CONSTANTS
  Port,         \* the ports, and the names of the motors on them
  MaxPlugs,     \* bound: motors plugged into one port
  DutyArg,      \* duty cycles that callers ask for
  StartDuty     \* duty cycles a motor may already run with

ASSUME DutyAssumption ==
  DutyArg \subseteq Int /\ StartDuty \subseteq -100 .. 100

ASSUME PlugAssumption == MaxPlugs \in Nat \ {0}

VARIABLES
  plugged,      \* plugged[p]: a motor is plugged into port p
  plugs,        \* plugs[p]: motors plugged into p so far, the number of the last
  duty,         \* duty[p]: duty_cycle_sp of that motor
  direct,       \* direct[p]: it obeys duty_cycle_sp ("run-direct")
  motors,       \* m_motors, as the directories of its elements
  phase,        \* where the call in progress is
  left          \* the elements the loop of that phase has still to visit

sysfs == <<plugged, plugs, duty, direct>>
vars == <<plugged, plugs, duty, direct, motors, phase, left>>

Directory == [port : Port, nr : 1 .. MaxPlugs]
Dir(p, i) == [port |-> p, nr |-> i]

Current(p) == Dir(p, plugs[p])

(* TachoMotor::good(), and what every other access to its files needs.     *)
Good(m) == plugged[m.port] /\ m = Current(m.port)

(* The entries of /sys/class/tacho-motor.                                  *)
Listing == {m \in Directory : Good(m)}

(* Motors::find(): a motor of that name is in the list.                    *)
KnownWrongName(p) == motors # {}
NeverKnown(p) == FALSE
Known(p) == \E m \in motors : m.port = p

(* The broker starts with no motors; those plugged in may be running, as a *)
(* broker that ends stops none.                                            *)
Init ==
  /\ plugged \in [Port -> BOOLEAN]
  /\ plugs = [p \in Port |-> IF plugged[p] THEN 1 ELSE 0]
  /\ duty \in [Port -> {0} \cup StartDuty]
  /\ direct \in [Port -> BOOLEAN]
  /\ \A p \in Port : ~ plugged[p] => duty[p] = 0 /\ ~ direct[p]
  /\ motors = {}
  /\ phase = "prune"
  /\ left = {}

-----------------------------------------------------------------------------
(* A motor plugged in during readdir() may be seen by it or not.           *)
Plug(p) ==
  /\ ~ plugged[p]
  /\ plugs[p] < MaxPlugs
  /\ plugged' = [plugged EXCEPT ![p] = TRUE]
  /\ plugs' = [plugs EXCEPT ![p] = @ + 1]
  /\ \/ UNCHANGED left
     \/ phase = "probe" /\ left' = left \cup {Dir(p, plugs[p] + 1)}
  /\ UNCHANGED <<duty, direct, motors, phase>>

Unplug(p) ==
  /\ plugged[p]
  /\ plugged' = [plugged EXCEPT ![p] = FALSE]
  /\ duty' = [duty EXCEPT ![p] = 0]
  /\ direct' = [direct EXCEPT ![p] = FALSE]
  /\ UNCHANGED <<plugs, motors, phase, left>>

-----------------------------------------------------------------------------
(* rescan(): remove_if asks every element of the list whether it is good.  *)
BeginRescan ==
  /\ phase = "idle"
  /\ phase' = "prune"
  /\ left' = motors
  /\ UNCHANGED <<sysfs, motors>>

PruneNothing(m) ==
  /\ phase = "prune"
  /\ m \in left
  /\ left' = left \ {m}
  /\ UNCHANGED <<sysfs, phase, motors>>

Prune(m) ==
  /\ phase = "prune"
  /\ m \in left
  /\ left' = left \ {m}
  /\ motors' = IF Good(m) THEN motors ELSE motors \ {m}
  /\ UNCHANGED <<sysfs, phase>>

OpenDir ==
  /\ phase = "prune"
  /\ left = {}
  /\ phase' = "probe"
  /\ left' = Listing
  /\ UNCHANGED <<sysfs, motors>>

(* reset(): "reset" clears every attribute and stops the motor,            *)
(* "run-direct" makes it obey duty_cycle_sp.                               *)
StoppedNotDirect(p) ==
  /\ duty' = [duty EXCEPT ![p] = 0]
  /\ direct' = [direct EXCEPT ![p] = FALSE]

Stopped(p) ==
  /\ duty' = [duty EXCEPT ![p] = 0]
  /\ direct' = [direct EXCEPT ![p] = TRUE]

(* One directory entry.  The constructor fails if the motor is gone; a     *)
(* motor whose name is known already is left alone.                        *)
Probe(m) ==
  /\ phase = "probe"
  /\ m \in left
  /\ left' = left \ {m}
  /\ IF Good(m) /\ ~ Known(m.port)
       THEN Stopped(m.port) /\ motors' = motors \cup {m}
       ELSE UNCHANGED <<duty, direct, motors>>
  /\ UNCHANGED <<plugged, plugs, phase>>

EndRescan ==
  /\ phase = "probe"
  /\ left = {}
  /\ phase' = "idle"
  /\ UNCHANGED <<sysfs, motors, left>>

-----------------------------------------------------------------------------
(* set_duty_cycle() on the motor of that name (main_server.cpp:58-66): a   *)
(* motor that is gone throws, which the caller answers with a rescan.      *)
ClampNot(v) == v
Clamp(v) == IF v > 100 THEN 100 ELSE IF v < -100 THEN -100 ELSE v

SetDutyCycle(p, v) ==
  /\ phase = "idle"
  /\ \/ /\ ~ Known(p)
        /\ UNCHANGED vars
     \/ \E m \in motors :
          /\ m.port = p /\ Good(m)
          /\ duty' = [duty EXCEPT ![p] = Clamp(v)]
          /\ UNCHANGED <<plugged, plugs, direct, motors, phase, left>>
     \/ \E m \in motors :
          /\ m.port = p /\ ~ Good(m)
          /\ phase' = "prune"
          /\ left' = motors
          /\ UNCHANGED <<sysfs, motors>>

(* on_reset() (main_server.cpp:69-79): reset() on every motor; one that is *)
(* gone throws and is passed over.                                         *)
BeginReset ==
  /\ phase = "idle"
  /\ phase' = "reset"
  /\ left' = motors
  /\ UNCHANGED <<sysfs, motors>>

ResetOneOrLeave(m) ==
  /\ phase = "reset"
  /\ m \in left
  /\ left' = IF Good(m) THEN left \ {m} ELSE {}
  /\ IF Good(m) THEN Stopped(m.port) ELSE UNCHANGED <<duty, direct>>
  /\ UNCHANGED <<plugged, plugs, motors, phase>>

ResetOne(m) ==
  /\ phase = "reset"
  /\ m \in left
  /\ left' = left \ {m}
  /\ IF Good(m) THEN Stopped(m.port) ELSE UNCHANGED <<duty, direct>>
  /\ UNCHANGED <<plugged, plugs, motors, phase>>

EndReset ==
  /\ phase = "reset"
  /\ left = {}
  /\ phase' = "idle"
  /\ UNCHANGED <<sysfs, motors, left>>

Hardware == \E p \in Port : Plug(p) \/ Unplug(p)

Scan == \/ \E m \in left : Prune(m) \/ Probe(m)
        \/ OpenDir \/ EndRescan

Reset == (\E m \in left : ResetOne(m)) \/ EndReset

Next ==
  \/ Hardware
  \/ BeginRescan \/ Scan
  \/ BeginReset \/ Reset
  \/ \E p \in Port, v \in DutyArg : SetDutyCycle(p, v)

(* The loops of a call run to their end, and the event loop calls the      *)
(* rescan timer again and again, whatever else it calls in between.        *)
Fairness == WF_vars(Scan) /\ WF_vars(Reset) /\ SF_vars(BeginRescan)

Spec == Init /\ [][Next]_vars
FairSpec == Spec /\ Fairness

-----------------------------------------------------------------------------
TypeOK ==
  /\ plugged \in [Port -> BOOLEAN]
  /\ plugs \in [Port -> 0 .. MaxPlugs]
  /\ duty \in [Port -> -100 .. 100]
  /\ direct \in [Port -> BOOLEAN]
  /\ motors \subseteq Directory
  /\ phase \in {"idle", "prune", "probe", "reset"}
  /\ left \subseteq Directory

(* find() is unambiguous: no two elements of m_motors have the same name,  *)
(* not even a dead one and the motor that took its port (motors.cpp:84).   *)
UniqueNames == \A m, n \in motors : m.port = n.port => m = n

(* A motor that turns can be stopped: it is in the list, or the first scan *)
(* of this broker has still to adopt it (motors.cpp:84-87).                *)
Running(p) == plugged[p] /\ duty[p] # 0
Adopting(p) ==
  \/ phase = "prune" /\ motors = {}
  \/ phase = "probe" /\ Current(p) \in left
NoRunaway == \A p \in Port : Running(p) => Current(p) \in motors \/ Adopting(p)

(* A motor in the list obeys the duty cycles written to it: each was put   *)
(* in run-direct mode when it was adopted, and is after every reset.       *)
ListedObey == \A m \in motors : Good(m) => direct[m.port]

(* "Resets all motors attached to the target device" (README.md:170): when *)
(* on_reset() returns every motor stands, those unplugged or plugged in    *)
(* during its loop included.                                               *)
ResetStopsAll ==
  [][phase = "reset" /\ phase' = "idle" => \A p \in Port : duty[p] = 0]_vars

(* Hot-plug capability (README.md:14): the list ends up with the motors    *)
(* that stay and without those that are gone.                              *)
HotPlug ==
  \A m \in Directory : /\ <>[]Good(m) => <>[](m \in motors)
                       /\ <>[]~Good(m) => <>[](m \notin motors)
=============================================================================
