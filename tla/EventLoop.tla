------------------------------ MODULE EventLoop ------------------------------
(***************************************************************************)
(* EventLoop::Impl::run (event_loop.cpp): timers and descriptors in rounds *)
(* of poll(), the handlers of the descriptors, and the timers that are     *)
(* due.  Time is counted in ticks, and every time is kept relative to now: *)
(* due[t] is next_time of timer t minus now().  Time passes in poll() and  *)
(* while a handler runs; a handler takes as long as it likes, up to a      *)
(* bound, and data may arrive meanwhile.                                   *)
(***************************************************************************)
EXTENDS Integers, FiniteSets, FiniteSetsExt

CONSTANTS
  Timers,       \* number of timers; m_timers[1 .. Timers]
  Interval,     \* Interval[t]: as registered
  TimerCost,    \* TimerCost[t]: the longest run of its handler
  Fd,           \* descriptors, numbered in the order of m_pollfds
  FdCost,       \* FdCost[f]: the longest run of its handler, the shortest is 1
  None

Timer == 1 .. Timers

ASSUME LoopAssumption ==
  /\ Timers \in Nat /\ Fd \subseteq Nat /\ IsFiniteSet(Fd)
  /\ Interval \in [Timer -> Nat \ {0}]
  /\ TimerCost \in [Timer -> Nat]
  /\ FdCost \in [Fd -> Nat \ {0}]
  /\ None \notin {"timer", "fd"} \X Nat

VARIABLES
  due,          \* due[t]: ticks until t is due, less than 0 if it is overdue
  waiting,      \* the descriptors that poll() would report
  pc,           \* "top", "poll", "events", "timers", "ended"
  ready,        \* the descriptors with revents still to be handled
  turn,         \* the timer whose turn it is
  since,        \* now() minus the time read before the loop over the timers
  running,      \* the handler that runs: <<"timer", t>> or <<"fd", f>>
  idle          \* idle[t]: ticks since the handler of t was last called, not
                \* counted beyond its interval

clock == <<due, since, idle>>
vars == <<due, waiting, pc, ready, turn, since, running, idle>>

(* register_timer() sets the first time to now() + interval.               *)
Init ==
  /\ due = Interval
  /\ waiting = {} /\ ready = {}
  /\ pc = "top" /\ turn = 1 /\ since = 0
  /\ running = None
  /\ idle = Interval

Later(d, n) == [t \in Timer |-> d[t] - n]
IdleAfter(i, n) == [t \in Timer |-> Min({i[t] + n, Interval[t]})]

(* Datagrams and lines come when they like.                                *)
Arrive(f) ==
  /\ pc # "ended" /\ f \notin waiting
  /\ waiting' = waiting \cup {f}
  /\ UNCHANGED <<clock, pc, ready, turn, running>>

-----------------------------------------------------------------------------
(* if (timeout > 0): poll() is skipped if a timer is due or overdue.       *)
NothingDue == \A t \in Timer : due[t] > 0

StartTimers == pc' = "timers" /\ turn' = 1 /\ since' = 0

ComputeTimeout ==
  /\ pc = "top"
  /\ \/ NothingDue /\ pc' = "poll" /\ UNCHANGED <<turn, since>>
     \/ ~ NothingDue /\ StartTimers
  /\ UNCHANGED <<due, idle, waiting, ready, running>>

PollWaits ==
  /\ pc = "poll"
  /\ waiting = {} /\ NothingDue
  /\ due' = Later(due, 1) /\ idle' = IdleAfter(idle, 1)
  /\ UNCHANGED <<since, waiting, pc, ready, turn, running>>

PollReturnsOnData ==
  /\ pc = "poll"
  /\ waiting # {}
  /\ ready' = waiting
  /\ pc' = "events"
  /\ UNCHANGED <<clock, waiting, turn, running>>

PollReturns ==
  /\ pc = "poll"
  /\ waiting # {} \/ ~ NothingDue
  /\ ready' = waiting
  /\ pc' = "events"
  /\ UNCHANGED <<clock, waiting, turn, running>>

(* errno = EINTR goes back to the top, any other error is thrown.          *)
PollInterrupted ==
  /\ pc = "poll"
  /\ pc' = "top"
  /\ UNCHANGED <<clock, waiting, ready, turn, running>>

PollFails ==
  /\ pc = "poll"
  /\ pc' = "ended"
  /\ UNCHANGED <<clock, waiting, ready, turn, running>>

-----------------------------------------------------------------------------
(* The handlers of the descriptors reported, in the order of m_pollfds.    *)
CallFdAgain(f) ==
  /\ pc = "events" /\ running = None
  /\ ready # {} /\ f = Min(ready)
  /\ running' = <<"fd", f>>
  /\ UNCHANGED <<clock, waiting, pc, ready, turn>>

CallFd(f) ==
  /\ pc = "events" /\ running = None
  /\ ready # {} /\ f = Min(ready)
  /\ ready' = ready \ {f}
  /\ running' = <<"fd", f>>
  /\ UNCHANGED <<clock, waiting, pc, turn>>

EndEventsPollsAgain ==
  /\ pc = "events" /\ running = None
  /\ ready = {}
  /\ IF waiting = {} THEN StartTimers ELSE pc' = "poll" /\ UNCHANGED <<turn, since>>
  /\ UNCHANGED <<due, idle, waiting, ready, running>>

EndEvents ==
  /\ pc = "events" /\ running = None
  /\ ready = {}
  /\ StartTimers
  /\ UNCHANGED <<due, idle, waiting, ready, running>>

(* Both the test and the new time count from the time read before the loop.*)
IsDue(t) == due[t] + since <= 0

NextTimeNow(t) == - since
NextTimeFromDue(t) == due[t] + Interval[t]
NextTime(t) == Interval[t] - since

CallTimer ==
  /\ pc = "timers" /\ running = None
  /\ turn \in Timer /\ IsDue(turn)
  /\ due' = [due EXCEPT ![turn] = NextTime(turn)]
  /\ idle' = [idle EXCEPT ![turn] = 0]
  /\ running' = <<"timer", turn>>
  /\ UNCHANGED <<since, waiting, pc, ready, turn>>

SkipTimer ==
  /\ pc = "timers" /\ running = None
  /\ turn \in Timer /\ ~ IsDue(turn)
  /\ turn' = turn + 1
  /\ UNCHANGED <<clock, waiting, pc, ready, running>>

EndTimers ==
  /\ pc = "timers" /\ running = None
  /\ turn \notin Timer
  /\ pc' = "top"
  /\ UNCHANGED <<clock, waiting, ready, turn, running>>

-----------------------------------------------------------------------------
(* A handler returns after n ticks.  One of a descriptor takes a datagram  *)
(* or a line, and there may be more.                                       *)
Pass(n) ==
  /\ due' = Later(due, n)
  /\ since' = since + n
  /\ idle' = IdleAfter(idle, n)

(* true goes on with the loop, false or an exception ends run().           *)
Returned == UNCHANGED pc \/ pc' = "ended"

ReturnFd(f) ==
  /\ running = <<"fd", f>>
  /\ \E n \in 1 .. FdCost[f] : Pass(n)
  /\ waiting' \in {waiting, waiting \ {f}}
  /\ running' = None
  /\ Returned
  /\ UNCHANGED <<ready, turn>>

ReturnTimer ==
  /\ running = <<"timer", turn>>
  /\ \E n \in 0 .. TimerCost[turn] : Pass(n)
  /\ running' = None
  /\ turn' = turn + 1
  /\ Returned
  /\ UNCHANGED <<waiting, ready>>

Poll == PollWaits \/ PollReturns
Round ==
  \/ ComputeTimeout \/ Poll
  \/ (\E f \in Fd : CallFd(f)) \/ EndEvents
  \/ CallTimer \/ SkipTimer \/ EndTimers
  \/ (\E f \in Fd : ReturnFd(f)) \/ ReturnTimer

Next ==
  \/ Round \/ PollInterrupted \/ PollFails
  \/ \E f \in Fd : Arrive(f)

(* The loop goes on, and interrupted or not, poll() sees time pass.        *)
Fairness == WF_vars(Round) /\ SF_vars(Poll)

Spec == Init /\ [][Next]_vars /\ Fairness

-----------------------------------------------------------------------------
TimerCostOf(S) == MapThenSumSet(LAMBDA t : TimerCost[t], S)
FdCostOf(S) == MapThenSumSet(LAMBDA f : FdCost[f], S)

(* Besides the types: revents is cleared before the handler is called.     *)
TypeOK ==
  /\ due \in [Timer -> Int] /\ idle \in [Timer -> Nat]
  /\ waiting \subseteq Fd /\ ready \subseteq Fd
  /\ pc \in {"top", "poll", "events", "timers", "ended"}
  /\ turn \in 1 .. Timers + 1 /\ since \in Nat
  /\ running \in ({"timer"} \X Timer) \cup ({"fd"} \X Fd) \cup {None}
  /\ ready # {} => pc \in {"events", "ended"}
  /\ \A f \in Fd : running = <<"fd", f>> => f \notin ready

(* How late a handler is called.  A timer that falls due while poll()      *)
(* returns waits for the handlers of all descriptors; one that was not yet *)
(* due when the loop looked at the timers waits for the other timers and   *)
(* for no descriptor, and one that was called then may be due again if all *)
(* of them take longer than its interval.  Then come the timers in front   *)
(* of it.                                                                  *)
WorstDelay(t) ==
  Max({TimerCostOf(Timer \ {t}) - 1, TimerCostOf(Timer) - Interval[t],
       FdCostOf(Fd)})
    + TimerCostOf(1 .. t - 1)

CalledInTime ==
  pc = "timers" /\ running = None /\ turn \in Timer /\ IsDue(turn) =>
    - due[turn] <= WorstDelay(turn)

(* Intervals stretch (event_loop.cpp:116), and they shrink only by as much *)
(* as the call before was late in its round: no burst makes up for ticks   *)
(* that were missed.                                                       *)
NoBurst ==
  [][\A t \in Timer :
       running' = <<"timer", t>> /\ running # running' =>
         idle[t] >= Interval[t] - TimerCostOf(1 .. t - 1)]_vars

(* "If there is time to wait, wait for incoming events" (event_loop.cpp:   *)
(* 89): with timers that take less time than they have in the long run,    *)
(* there is time, and no descriptor starves.                               *)
DescriptorsServed ==
  \A f \in Fd : f \in waiting ~> running = <<"fd", f>> \/ pc = "ended"

(* The loop keeps the promise BrokerServer is written on.                  *)
Promise == INSTANCE Dispatcher WITH
  Timer <- {"timer"} \X Timer, Fd <- {"fd"} \X Fd, ended <- pc = "ended"
ImplementsDispatcher == Promise!Spec
=============================================================================
