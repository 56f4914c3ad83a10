----------------------------- MODULE Dispatcher -----------------------------
(***************************************************************************)
(* What a program may take for granted of EventLoop (event_loop.hpp): one  *)
(* handler runs at a time, to its end, and each timer is called again and  *)
(* again for as long as no handler ends the loop.  BrokerServer is written *)
(* on this promise: its timers have no intervals.                          *)
(***************************************************************************)
CONSTANTS
  Timer, Fd,    \* the timers and the descriptors registered
  None

VARIABLES
  running,      \* the handler that runs, None between two of them
  ended         \* run() has returned or thrown

vars == <<running, ended>>

Init == running = None /\ ended = FALSE

Call(h) ==
  /\ running = None /\ ~ ended
  /\ running' = h
  /\ UNCHANGED ended

(* A handler returns true, or it returns false or throws.                  *)
Return ==
  /\ running # None
  /\ running' = None
  /\ ended' \in BOOLEAN

(* poll() itself may fail.                                                 *)
Fail ==
  /\ running = None /\ ~ ended
  /\ ended' = TRUE
  /\ UNCHANGED running

Next == (\E h \in Timer \cup Fd : Call(h)) \/ Return \/ Fail

Fairness == WF_vars(Return) /\ \A t \in Timer : SF_vars(Call(t))

Spec == Init /\ [][Next]_vars /\ Fairness
=============================================================================
