----------------------------- MODULE MCEventLoop -----------------------------
(***************************************************************************)
(* EventLoop with three timers, registered in the order of the server's:   *)
(* short, long, middle (main_server.cpp:196-198), and two descriptors, as  *)
(* in the client.  The timers need 3/4 of the time at most.                *)
(***************************************************************************)
EXTENDS EventLoop, Sequences

MCInterval == <<3, 8, 6>>
MCTimerCost == <<1, 2, 1>>
MCFdCost == <<1, 2>>
MCFd == {1, 2}
=============================================================================
