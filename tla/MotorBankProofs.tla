-------------------------- MODULE MotorBankProofs --------------------------
(***************************************************************************)
(* Proofs about MotorBank, for every set of ports, every number of plugs   *)
(* and every duty cycle a caller may ask for.                              *)
(***************************************************************************)
EXTENDS MotorBank, TLAPS

(* A directory in the list or in a loop is one there has been.             *)
Seen == \A m \in motors \cup left : m.nr <= plugs[m.port]

(* A port in use has been plugged into, an empty one holds nothing back.   *)
Ports == \A p \in Port : /\ plugged[p] => plugs[p] >= 1
                         /\ ~ plugged[p] => duty[p] = 0

(* A motor that turns and is not in the list turned before the broker      *)
(* started, and its port has been used once.                               *)
OnlyEarly == \A p \in Port : Running(p) => Current(p) \in motors \/ plugs[p] = 1

(* A reset has still to come to each motor that turns.                     *)
Sweep == phase = "reset" => \A p \in Port : Running(p) => Current(p) \in left

(* The inductive invariant.                                                *)
IInv == /\ TypeOK /\ UniqueNames /\ ListedObey /\ NoRunaway
        /\ Seen /\ Ports /\ OnlyEarly /\ Sweep

LEMMA DirectoryRecord ==
  /\ \A m \in Directory : m = Dir(m.port, m.nr) /\ m.port \in Port
                          /\ m.nr \in 1 .. MaxPlugs
  /\ \A p \in Port, i \in 1 .. MaxPlugs :
       Dir(p, i) \in Directory /\ Dir(p, i).port = p /\ Dir(p, i).nr = i
BY DEF Directory, Dir

(* reset() of a motor, as two functions.                                   *)
LEMMA StoppedEffect ==
  ASSUME TypeOK, NEW p \in Port, Stopped(p)
  PROVE  /\ duty' \in [Port -> -100 .. 100] /\ direct' \in [Port -> BOOLEAN]
         /\ duty'[p] = 0 /\ direct'[p] = TRUE
         /\ \A q \in Port \ {p} : duty'[q] = duty[q] /\ direct'[q] = direct[q]
BY DEF TypeOK, Stopped

LEMMA InitInv == Init => IInv
<1> SUFFICES ASSUME Init PROVE IInv
  OBVIOUS
<1>1. TypeOK
  <2>1. {0} \cup StartDuty \subseteq -100 .. 100
    BY DutyAssumption
  <2>2. duty \in [Port -> -100 .. 100]
    BY <2>1 DEF Init
  <2>3. plugs \in [Port -> 0 .. MaxPlugs]
    BY PlugAssumption DEF Init
  <2> QED BY <2>2, <2>3 DEF Init, TypeOK
<1> QED BY <1>1 DEF Init, IInv, UniqueNames, ListedObey, NoRunaway, Adopting,
             Seen, Ports, OnlyEarly, Sweep, Running

-----------------------------------------------------------------------------
LEMMA PlugInv == ASSUME IInv, NEW p \in Port, Plug(p) PROVE IInv'
<1>1. TypeOK'
  <2>1. plugged' \in [Port -> BOOLEAN] /\ plugs' \in [Port -> 0 .. MaxPlugs]
    BY PlugAssumption DEF IInv, TypeOK, Plug
  <2>2. Dir(p, plugs[p] + 1) \in Directory
    BY PlugAssumption, DirectoryRecord DEF IInv, TypeOK, Plug
  <2>3. left' \subseteq Directory
    BY <2>2 DEF IInv, TypeOK, Plug
  <2> QED BY <2>1, <2>3 DEF IInv, TypeOK, Plug
<1>2. /\ plugs'[p] = plugs[p] + 1 /\ plugs[p] \in Nat
      /\ \A q \in Port : q # p => plugs'[q] = plugs[q] /\ plugged'[q] = plugged[q]
      /\ plugged[p] = FALSE /\ plugged'[p] = TRUE /\ duty[p] = 0
      /\ UNCHANGED <<duty, direct, motors, phase>>
  BY DEF IInv, TypeOK, Plug, Ports
<1>3. \A q \in Port : Running(q)' => Running(q) /\ q # p /\ Current(q)' = Current(q)
  <2> SUFFICES ASSUME NEW q \in Port, plugged'[q], duty'[q] # 0
               PROVE  Running(q) /\ q # p /\ Current(q)' = Current(q)
    BY DEF Running
  <2>1. duty' = duty /\ q # p
    BY <1>2
  <2> QED BY <1>2, <2>1 DEF Running, Current
<1>4. \A m \in motors : Good(m)' => Good(m)
  <2>1. \A m \in motors : m.nr <= plugs[m.port] /\ m.port \in Port /\ m.nr \in Nat
    BY DEF IInv, Seen, TypeOK, Directory
  <2> QED BY <1>2, <2>1 DEF Good, Current, Dir
<1>5. left \subseteq left' /\ (phase # "probe" => left' = left)
  BY DEF Plug
<1>6. UniqueNames' /\ ListedObey'
  BY <1>2, <1>4 DEF IInv, UniqueNames, ListedObey
<1>7. NoRunaway' /\ OnlyEarly' /\ Sweep'
  BY <1>2, <1>3, <1>5 DEF IInv, NoRunaway, OnlyEarly, Sweep, Adopting
<1>8. Seen' /\ Ports'
  BY <1>2 DEF IInv, TypeOK, Seen, Ports, Plug, Directory, Dir
<1> QED BY <1>1, <1>6, <1>7, <1>8 DEF IInv

LEMMA UnplugInv == ASSUME IInv, NEW p \in Port, Unplug(p) PROVE IInv'
<1>1. TypeOK'
  BY DEF IInv, TypeOK, Unplug
<1>2. /\ \A q \in Port : q # p => /\ plugged'[q] = plugged[q]
                                  /\ duty'[q] = duty[q] /\ direct'[q] = direct[q]
      /\ plugged'[p] = FALSE /\ duty'[p] = 0
      /\ UNCHANGED <<plugs, motors, phase, left>>
  BY DEF IInv, TypeOK, Unplug
<1>3. \A q \in Port : Running(q)' => Running(q) /\ Current(q)' = Current(q)
  BY <1>2 DEF Running, Current
<1>4. \A m \in motors : Good(m)' => Good(m) /\ direct'[m.port] = direct[m.port]
  BY <1>2 DEF IInv, TypeOK, Directory, Good, Current
<1>5. UniqueNames' /\ ListedObey'
  BY <1>2, <1>4 DEF IInv, UniqueNames, ListedObey
<1>6. NoRunaway' /\ OnlyEarly' /\ Sweep'
  BY <1>2, <1>3 DEF IInv, NoRunaway, OnlyEarly, Sweep, Adopting
<1>7. Seen' /\ Ports'
  BY <1>2 DEF IInv, Seen, Ports
<1> QED BY <1>1, <1>5, <1>6, <1>7 DEF IInv

-----------------------------------------------------------------------------
(* Steps that leave the hardware alone.                                    *)
LEMMA SameHardware ==
  ASSUME UNCHANGED sysfs
  PROVE  /\ \A q \in Port : (Running(q)' <=> Running(q)) /\ Current(q)' = Current(q)
         /\ \A m : Good(m)' <=> Good(m)
         /\ Ports' <=> Ports
BY DEF sysfs, Running, Current, Good, Ports

LEMMA BeginRescanInv == ASSUME IInv, BeginRescan PROVE IInv'
<1>1. phase = "idle" /\ phase' = "prune" /\ left' = motors
      /\ UNCHANGED <<sysfs, motors>>
  BY DEF BeginRescan
<1> QED BY <1>1, SameHardware DEF IInv, TypeOK, UniqueNames, ListedObey,
             NoRunaway, Adopting, Seen, OnlyEarly, Sweep, sysfs

LEMMA PruneInv == ASSUME IInv, NEW m \in left, Prune(m) PROVE IInv'
<1>1. /\ phase = "prune" /\ phase' = "prune" /\ left' \subseteq left
      /\ motors' \subseteq motors
      /\ \A n \in motors : Good(n) => n \in motors'
      /\ UNCHANGED sysfs
  BY DEF Prune
<1>2. \A p \in Port : Running(p) => Good(Current(p))
  BY DEF Running, Good, Current, Dir
<1>3. NoRunaway' /\ OnlyEarly' /\ Sweep'
  BY <1>1, <1>2, SameHardware
  DEF IInv, NoRunaway, Adopting, OnlyEarly, Sweep, sysfs
<1>4. TypeOK' /\ UniqueNames' /\ ListedObey' /\ Seen' /\ Ports'
  BY <1>1, SameHardware
  DEF IInv, TypeOK, UniqueNames, ListedObey, Seen, sysfs
<1> QED BY <1>3, <1>4 DEF IInv

LEMMA OpenDirInv == ASSUME IInv, OpenDir PROVE IInv'
<1>1. phase = "prune" /\ phase' = "probe" /\ left' = Listing
      /\ UNCHANGED <<sysfs, motors>>
  BY DEF OpenDir
<1>2. \A p \in Port : Running(p) => Current(p) \in Listing
  BY DirectoryRecord
  DEF IInv, TypeOK, Ports, Running, Current, Listing, Good
<1>3. Listing \subseteq Directory /\ \A m \in Listing : m.nr <= plugs[m.port]
  BY DEF IInv, TypeOK, Listing, Good, Current, Dir, Directory
<1>4. NoRunaway' /\ OnlyEarly' /\ Sweep'
  BY <1>1, <1>2, SameHardware
  DEF IInv, NoRunaway, Adopting, OnlyEarly, Sweep, sysfs
<1>5. TypeOK' /\ UniqueNames' /\ ListedObey' /\ Seen' /\ Ports'
  BY <1>1, <1>3, SameHardware
  DEF IInv, TypeOK, UniqueNames, ListedObey, Seen, sysfs
<1> QED BY <1>4, <1>5 DEF IInv

(* The first broker's scan: a motor already turning is not known yet, so   *)
(* it is reset before it is listed.                                        *)
LEMMA ProbeInv == ASSUME IInv, NEW m \in left, Probe(m) PROVE IInv'
<1>1. /\ phase = "probe" /\ phase' = "probe" /\ left' = left \ {m}
      /\ UNCHANGED <<plugged, plugs>>
      /\ m \in Directory /\ m.port \in Port
  BY DEF IInv, TypeOK, Directory, Probe
<1>2. CASE Good(m) /\ ~ Known(m.port)
  <2>1. Stopped(m.port) /\ motors' = motors \cup {m} /\ m = Current(m.port)
    BY <1>2 DEF Probe, Good
  <2>2. \A q \in Port : q # m.port => duty'[q] = duty[q] /\ direct'[q] = direct[q]
    BY <1>1, <2>1, StoppedEffect DEF IInv
  <2>3. duty'[m.port] = 0 /\ direct'[m.port] = TRUE
    BY <1>1, <2>1, StoppedEffect DEF IInv
  <2>4. TypeOK'
    BY <1>1, <2>1, StoppedEffect DEF IInv, TypeOK
  <2>5. \A q \in Port : /\ Running(q)' => Running(q) /\ q # m.port
                        /\ Current(q)' = Current(q)
    BY <1>1, <2>2, <2>3 DEF Running, Current
  <2>6. \A q \in Port : Current(q) = m => q = m.port
    BY DEF Current, Dir
  <2>7. NoRunaway' /\ OnlyEarly' /\ Sweep'
    BY <1>1, <2>1, <2>5, <2>6
    DEF IInv, NoRunaway, Adopting, OnlyEarly, Sweep
  <2>8. UniqueNames'
    BY <1>2, <2>1 DEF IInv, UniqueNames, Known
  <2>9. ListedObey' /\ Seen' /\ Ports'
    BY <1>1, <2>1, <2>2, <2>3
    DEF IInv, TypeOK, Directory, ListedObey, Seen, Ports, Good, Current
  <2> QED BY <2>4, <2>7, <2>8, <2>9 DEF IInv
<1>3. CASE ~ (Good(m) /\ ~ Known(m.port))
  <2>1. UNCHANGED <<sysfs, motors>>
    BY <1>1, <1>3 DEF Probe, sysfs
  <2>2. \A p \in Port : Running(p) /\ Current(p) = m => Current(p) \in motors
    <3> SUFFICES ASSUME NEW p \in Port, Running(p), Current(p) = m,
                        Current(p) \notin motors
                 PROVE  FALSE
      OBVIOUS
    <3>1. Good(m) /\ m.port = p /\ m.nr = 1 /\ plugs[p] = 1
      BY DEF IInv, OnlyEarly, Running, Good, Current, Dir
    <3>2. PICK n \in motors : n.port = p
      BY <1>3, <3>1 DEF Known
    <3>3. n \in Directory /\ n.nr <= 1
      BY <3>1, <3>2 DEF IInv, TypeOK, Seen
    <3>4. n = Dir(p, 1) /\ m = Dir(p, 1)
      BY <1>1, <3>1, <3>2, <3>3, DirectoryRecord, PlugAssumption DEF Directory
    <3> QED BY <3>4
  <2>3. NoRunaway' /\ OnlyEarly' /\ Sweep'
    BY <1>1, <2>1, <2>2, SameHardware
    DEF IInv, NoRunaway, Adopting, OnlyEarly, Sweep
  <2>4. TypeOK' /\ UniqueNames' /\ ListedObey' /\ Seen' /\ Ports'
    BY <1>1, <2>1, SameHardware
    DEF IInv, TypeOK, UniqueNames, ListedObey, Seen, sysfs
  <2> QED BY <2>3, <2>4 DEF IInv
<1> QED BY <1>2, <1>3

LEMMA EndRescanInv == ASSUME IInv, EndRescan PROVE IInv'
<1>1. phase = "probe" /\ left = {} /\ phase' = "idle"
      /\ UNCHANGED <<sysfs, motors, left>>
  BY DEF EndRescan
<1> QED BY <1>1, SameHardware DEF IInv, TypeOK, UniqueNames, ListedObey,
             NoRunaway, Adopting, Seen, OnlyEarly, Sweep, sysfs

-----------------------------------------------------------------------------
LEMMA ClampRange == \A v \in Int : Clamp(v) \in -100 .. 100
BY DEF Clamp

LEMMA SetDutyCycleInv ==
  ASSUME IInv, NEW p \in Port, NEW v \in DutyArg, SetDutyCycle(p, v)
  PROVE  IInv'
<1>1. CASE UNCHANGED vars
  <2>1. UNCHANGED sysfs
    BY <1>1 DEF vars, sysfs
  <2> QED BY <1>1, <2>1, SameHardware
      DEF IInv, TypeOK, UniqueNames, ListedObey, NoRunaway, Adopting, Seen,
          OnlyEarly, Sweep, vars, sysfs
<1>2. ASSUME NEW m \in motors, m.port = p, Good(m), phase = "idle",
             duty' = [duty EXCEPT ![p] = Clamp(v)],
             UNCHANGED <<plugged, plugs, direct, motors, phase, left>>
      PROVE  IInv'
  <2>1. Clamp(v) \in -100 .. 100
    BY ClampRange, DutyAssumption
  <2>2. TypeOK'
    BY <1>2, <2>1 DEF IInv, TypeOK
  <2>3. \A q \in Port : q # p => (Running(q)' <=> Running(q))
    BY <1>2 DEF IInv, TypeOK, Running
  <2>4. plugged[p] /\ Current(p) \in motors
    BY <1>2 DEF Good
  <2>5. \A q \in Port : Current(q)' = Current(q)
    BY <1>2 DEF Current
  <2>6. NoRunaway' /\ OnlyEarly' /\ Sweep'
    BY <1>2, <2>3, <2>4, <2>5
    DEF IInv, NoRunaway, Adopting, OnlyEarly, Sweep
  <2>7. Ports'
    BY <1>2, <2>4 DEF IInv, TypeOK, Ports
  <2>8. UniqueNames' /\ ListedObey' /\ Seen'
    BY <1>2 DEF IInv, UniqueNames, ListedObey, Seen, Good, Current
  <2> QED BY <2>2, <2>6, <2>7, <2>8 DEF IInv
<1>3. CASE /\ phase = "idle" /\ phase' = "prune" /\ left' = motors
           /\ UNCHANGED <<sysfs, motors>>
  BY <1>3, BeginRescanInv DEF BeginRescan
<1> QED BY <1>1, <1>2, <1>3 DEF SetDutyCycle

LEMMA BeginResetInv == ASSUME IInv, BeginReset PROVE IInv'
<1>1. phase = "idle" /\ phase' = "reset" /\ left' = motors
      /\ UNCHANGED <<sysfs, motors>>
  BY DEF BeginReset
<1> QED BY <1>1, SameHardware DEF IInv, TypeOK, UniqueNames, ListedObey,
             NoRunaway, Adopting, Seen, OnlyEarly, Sweep, sysfs

LEMMA ResetOneInv == ASSUME IInv, NEW m \in left, ResetOne(m) PROVE IInv'
<1>1. /\ phase = "reset" /\ phase' = "reset" /\ left' = left \ {m}
      /\ UNCHANGED <<plugged, plugs, motors>>
      /\ m \in Directory /\ m.port \in Port
  BY DEF IInv, TypeOK, Directory, ResetOne
<1>2. CASE Good(m)
  <2>1. /\ duty' \in [Port -> -100 .. 100] /\ direct' \in [Port -> BOOLEAN]
        /\ duty'[m.port] = 0 /\ direct'[m.port] = TRUE
        /\ \A q \in Port \ {m.port} : duty'[q] = duty[q] /\ direct'[q] = direct[q]
    BY <1>1, <1>2, StoppedEffect DEF IInv, ResetOne
  <2>2. \A q \in Port : /\ Running(q)' => Running(q) /\ q # m.port
                        /\ Current(q)' = Current(q)
    BY <1>1, <2>1 DEF Running, Current
  <2>3. \A q \in Port : Current(q) = m => q = m.port
    BY DEF Current, Dir
  <2>4. NoRunaway' /\ OnlyEarly' /\ Sweep'
    BY <1>1, <2>2, <2>3 DEF IInv, NoRunaway, Adopting, OnlyEarly, Sweep
  <2>5. TypeOK' /\ UniqueNames' /\ Seen'
    BY <1>1, <2>1 DEF IInv, TypeOK, UniqueNames, Seen
  <2>6. ListedObey' /\ Ports'
    BY <1>1, <2>1 DEF IInv, TypeOK, Directory, ListedObey, Ports, Good, Current
  <2> QED BY <2>4, <2>5, <2>6 DEF IInv
<1>3. CASE ~ Good(m)
  <2>1. UNCHANGED sysfs
    BY <1>1, <1>3 DEF ResetOne, sysfs
  <2>2. \A q \in Port : Running(q) => Current(q) # m
    BY <1>3 DEF Running, Good, Current, Dir
  <2>3. NoRunaway' /\ OnlyEarly' /\ Sweep'
    BY <1>1, <2>1, <2>2, SameHardware
    DEF IInv, NoRunaway, Adopting, OnlyEarly, Sweep
  <2>4. TypeOK' /\ UniqueNames' /\ ListedObey' /\ Seen' /\ Ports'
    BY <1>1, <2>1, SameHardware
    DEF IInv, TypeOK, UniqueNames, ListedObey, Seen, sysfs
  <2> QED BY <2>3, <2>4 DEF IInv
<1> QED BY <1>2, <1>3

LEMMA EndResetInv == ASSUME IInv, EndReset PROVE IInv'
<1>1. phase = "reset" /\ phase' = "idle" /\ left = {}
      /\ UNCHANGED <<sysfs, motors, left>>
  BY DEF EndReset
<1> QED BY <1>1, SameHardware DEF IInv, TypeOK, UniqueNames, ListedObey,
             NoRunaway, Adopting, Seen, OnlyEarly, Sweep, sysfs

-----------------------------------------------------------------------------
LEMMA NextInv == IInv /\ [Next]_vars => IInv'
<1> SUFFICES ASSUME IInv, [Next]_vars PROVE IInv'
  OBVIOUS
<1>1. CASE Hardware
  BY <1>1, PlugInv, UnplugInv DEF Hardware
<1>2. CASE BeginRescan \/ Scan
  BY <1>2, BeginRescanInv, PruneInv, OpenDirInv, ProbeInv, EndRescanInv DEF Scan
<1>3. CASE BeginReset \/ Reset
  BY <1>3, BeginResetInv, ResetOneInv, EndResetInv DEF Reset
<1>4. ASSUME NEW p \in Port, NEW v \in DutyArg, SetDutyCycle(p, v) PROVE IInv'
  BY <1>4, SetDutyCycleInv
<1>5. CASE UNCHANGED vars
  BY <1>5, SameHardware
  DEF IInv, TypeOK, UniqueNames, ListedObey, NoRunaway, Adopting, Seen,
      OnlyEarly, Sweep, vars, sysfs
<1> QED BY <1>1, <1>2, <1>3, <1>4, <1>5 DEF Next

THEOREM InvariantHolds == Spec => []IInv
BY InitInv, NextInv, PTL DEF Spec

(* Every variable of the motor bank keeps its type.                        *)
THEOREM TypeCorrect == Spec => []TypeOK
<1>1. IInv => TypeOK
  BY DEF IInv
<1> QED BY <1>1, InvariantHolds, PTL

(* No two motors of the list have the same name (motors.cpp:84).           *)
THEOREM NamesAreUnique == Spec => []UniqueNames
<1>1. IInv => UniqueNames
  BY DEF IInv
<1> QED BY <1>1, InvariantHolds, PTL

(* A motor that turns is in the list, or about to be adopted by the first  *)
(* scan (motors.cpp:84-87).                                                *)
THEOREM EveryMotorStoppable == Spec => []NoRunaway
<1>1. IInv => NoRunaway
  BY DEF IInv
<1> QED BY <1>1, InvariantHolds, PTL

(* A motor in the list obeys set_duty_cycle (tacho_motor.cpp:78-81).       *)
THEOREM ListedMotorsObey == Spec => []ListedObey
<1>1. IInv => ListedObey
  BY DEF IInv
<1> QED BY <1>1, InvariantHolds, PTL

(* The step in which on_reset() returns finds nothing left to visit.       *)
LEMMA LastReset ==
  IInv /\ [Next]_vars =>
    [phase = "reset" /\ phase' = "idle" => \A p \in Port : duty[p] = 0]_vars
<1> SUFFICES ASSUME IInv, Next, phase = "reset", phase' = "idle",
                    NEW p \in Port
             PROVE  duty[p] = 0
  OBVIOUS
<1>1. EndReset
  BY DEF Next, Hardware, Plug, Unplug, BeginRescan, Scan, Prune, OpenDir, Probe,
         EndRescan, BeginReset, Reset, ResetOne, SetDutyCycle, vars
<1>2. left = {}
  BY <1>1 DEF EndReset
<1> QED BY <1>2 DEF IInv, Sweep, Ports, Running

(* When on_reset() returns, every motor stands (main_server.cpp:69-79).    *)
THEOREM ResetLeavesAllStanding == Spec => ResetStopsAll
BY LastReset, InvariantHolds, PTL DEF Spec, ResetStopsAll
=============================================================================
