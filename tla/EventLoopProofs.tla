--------------------------- MODULE EventLoopProofs ---------------------------
(***************************************************************************)
(* Proofs about EventLoop: it keeps the promise of Dispatcher, and the     *)
(* bounds on how late, and how early, a timer is called.  The bounds are   *)
(* sums, so sums come first.                                               *)
(***************************************************************************)
EXTENDS EventLoop, FiniteSetTheorems, TLAPS

(* What MapThenSumSet computes for a function f, and the recursion behind  *)
(* it: g[s] for every subset s of S.                                       *)
SumOver(f, S) == MapThenSumSet(LAMBDA x : f[x], S)

Pick(S) == CHOOSE x \in S : TRUE
SumBy(g, f, S) ==
  g = [s \in SUBSET S |->
         IF s = {} THEN 0 ELSE f[Pick(s)] + g[s \ {Pick(s)}]]
SumTable(f, S) == CHOOSE g : SumBy(g, f, S)

(* Induction over the subsets of a finite set: a collection of them that   *)
(* is not empty has a smallest member.                                     *)
LEMMA SmallestSubset ==
  ASSUME NEW S, IsFiniteSet(S), NEW C, C \subseteq SUBSET S, C # {}
  PROVE  \E T \in C : \A U \in C : U \subseteq T => U = T
<1>1. IsWellFoundedOn(StrictSubsetOrdering(S), SUBSET S)
  BY FS_StrictSubsetOrderingWellFounded, FS_FiniteSubsetsOfFinite
<1>2. PICK T \in C : \A U \in C : <<U, T>> \notin StrictSubsetOrdering(S)
  BY <1>1, WFMin
<1>3. \A U \in C : U \subseteq T => U = T
  BY <1>2 DEF StrictSubsetOrdering
<1> QED BY <1>3

LEMMA PickIsMember == ASSUME NEW S, S # {} PROVE Pick(S) \in S
BY DEF Pick

LEMMA SumOfSubset ==
  ASSUME NEW S, NEW T \in SUBSET S, NEW f, NEW g, SumBy(g, f, S)
  PROVE  SumBy(Restrict(g, SUBSET T), f, T)
<1> DEFINE h == [s \in SUBSET T |-> g[s]]
           k == [s \in SUBSET T |->
                   IF s = {} THEN 0 ELSE f[Pick(s)] + h[s \ {Pick(s)}]]
<1>1. ASSUME NEW s \in SUBSET T PROVE h[s] = k[s]
  <2>1. g[s] = IF s = {} THEN 0 ELSE f[Pick(s)] + g[s \ {Pick(s)}]
    BY s \in SUBSET S DEF SumBy
  <2>2. h[s] = g[s] /\ h[s \ {Pick(s)}] = g[s \ {Pick(s)}]
    OBVIOUS
  <2> QED BY <2>1, <2>2
<1>2. h = k
  BY <1>1
<1> QED BY <1>2 DEF SumBy, Restrict

(* The recursion has at most one solution ...                              *)
LEMMA SumsAgree ==
  ASSUME NEW S, IsFiniteSet(S), NEW f, NEW g, NEW h,
         SumBy(g, f, S), SumBy(h, f, S)
  PROVE  g = h
<1> DEFINE C == {T \in SUBSET S : g[T] # h[T]}
<1>1. CASE C # {}
  <2>1. PICK T \in C : \A U \in C : U \subseteq T => U = T
    <3>1. C \subseteq SUBSET S
      OBVIOUS
    <3> HIDE DEF C
    <3> QED BY <1>1, <3>1, SmallestSubset
  <2>2. /\ g[T] = IF T = {} THEN 0 ELSE f[Pick(T)] + g[T \ {Pick(T)}]
        /\ h[T] = IF T = {} THEN 0 ELSE f[Pick(T)] + h[T \ {Pick(T)}]
    BY T \in SUBSET S DEF SumBy
  <2>3. CASE T # {}
    <3> DEFINE u == T \ {Pick(T)}
    <3>1. u # T /\ u \subseteq T /\ T \subseteq S
      BY <2>3, PickIsMember
    <3>2. u \notin C
      BY <2>1, <3>1
    <3>3. g[u] = h[u]
      BY <3>1, <3>2
    <3> QED BY <2>2, <2>3, <3>3
  <2> QED BY <2>1, <2>2, <2>3
<1>2. CASE C = {}
  <2>1. \A T \in SUBSET S : g[T] = h[T]
    BY <1>2
  <2>2. g = [T \in SUBSET S |-> g[T]] /\ h = [T \in SUBSET S |-> h[T]]
    BY DEF SumBy
  <2> QED BY <2>1, <2>2
<1> QED BY <1>1, <1>2

(* ... and has one.                                                        *)
LEMMA SumExists ==
  ASSUME NEW S, IsFiniteSet(S), NEW f
  PROVE  \E g : SumBy(g, f, S)
<1> DEFINE C == {T \in SUBSET S : ~ \E g : SumBy(g, f, T)}
<1>1. CASE C # {}
  <2>1. PICK T \in C : \A U \in C : U \subseteq T => U = T
    <3>1. C \subseteq SUBSET S
      OBVIOUS
    <3> HIDE DEF C
    <3> QED BY <1>1, <3>1, SmallestSubset
  <2>2. T \in SUBSET S /\ IsFiniteSet(T)
    <3>1. T \in SUBSET S
      OBVIOUS
    <3> QED BY <3>1, FS_Subset
  <2>3. ASSUME NEW U \in SUBSET T, U # T PROVE SumBy(SumTable(f, U), f, U)
    BY <2>1, <2>2, <2>3 DEF SumTable
  <2>4. ASSUME NEW U \in SUBSET T, U # T, NEW V \in SUBSET U
        PROVE  SumTable(f, U)[V] = SumTable(f, V)[V]
    <3>1. SumBy(Restrict(SumTable(f, U), SUBSET V), f, V)
      BY <2>3, <2>4, SumOfSubset
    <3>2. SumBy(SumTable(f, V), f, V)
      BY <2>3, <2>4
    <3>3. IsFiniteSet(V)
      BY <2>2, FS_Subset
    <3>4. Restrict(SumTable(f, U), SUBSET V) = SumTable(f, V)
      BY <3>1, <3>2, <3>3, SumsAgree
    <3> QED BY <3>4 DEF Restrict
  <2> DEFINE g == [s \in SUBSET T |->
                     IF s = {} THEN 0
                     ELSE f[Pick(s)] + SumTable(f, s \ {Pick(s)})[s \ {Pick(s)}]]
             k == [s \in SUBSET T |->
                     IF s = {} THEN 0 ELSE f[Pick(s)] + g[s \ {Pick(s)}]]
  <2>5. ASSUME NEW s \in SUBSET T, s # {}
        PROVE  g[s \ {Pick(s)}] = SumTable(f, s \ {Pick(s)})[s \ {Pick(s)}]
    <3> DEFINE u == s \ {Pick(s)}
    <3>1. u \in SUBSET T /\ u # T
      BY <2>5, PickIsMember
    <3>2. g[u] = IF u = {} THEN 0
                 ELSE f[Pick(u)] + SumTable(f, u \ {Pick(u)})[u \ {Pick(u)}]
      BY <3>1
    <3>3. SumTable(f, u)[u] = IF u = {} THEN 0
                    ELSE f[Pick(u)] + SumTable(f, u)[u \ {Pick(u)}]
      BY <3>1, <2>3 DEF SumBy
    <3>4. SumTable(f, u)[u \ {Pick(u)}] = SumTable(f, u \ {Pick(u)})[u \ {Pick(u)}]
      BY <3>1, <2>4
    <3> QED BY <3>2, <3>3, <3>4
  <2>6. g = k
    BY <2>5
  <2>7. SumBy(g, f, T)
    BY <2>6 DEF SumBy
  <2> QED BY <2>1, <2>7
<1> QED BY <1>1

(* The sum is that of one member and the rest, the member being the one    *)
(* the fold takes ...                                                      *)
LEMMA SumIsRecursive ==
  ASSUME NEW S, IsFiniteSet(S), NEW f
  PROVE  SumOver(f, S) =
           IF S = {} THEN 0 ELSE f[Pick(S)] + SumOver(f, S \ {Pick(S)})
<1>1. ASSUME NEW U PROVE SumOver(f, U) = SumTable(f, U)[U]
  BY DEF SumOver, SumTable, SumBy, MapThenSumSet, MapThenFoldSet, Pick
<1>2. ASSUME NEW U \in SUBSET S PROVE IsFiniteSet(U) /\ SumBy(SumTable(f, U), f, U)
  BY FS_Subset, SumExists DEF SumTable
<1>3. SumTable(f, S)[S] = IF S = {} THEN 0 ELSE f[Pick(S)] + SumTable(f, S)[S \ {Pick(S)}]
  BY <1>2 DEF SumBy
<1> DEFINE R == S \ {Pick(S)}
<1>4. SumBy(Restrict(SumTable(f, S), SUBSET R), f, R)
  BY <1>2, SumOfSubset
<1>5. Restrict(SumTable(f, S), SUBSET R) = SumTable(f, R)
  BY <1>2, <1>4, SumsAgree
<1>6. SumTable(f, S)[R] = SumTable(f, R)[R]
  BY <1>5 DEF Restrict
<1> QED BY <1>1, <1>3, <1>6

LEMMA SumType ==
  ASSUME NEW S, IsFiniteSet(S), NEW f \in [S -> Nat], NEW T \in SUBSET S
  PROVE  SumOver(f, T) \in Nat
<1> DEFINE C == {U \in SUBSET S : SumOver(f, U) \notin Nat}
<1>1. CASE C # {}
  <2>1. PICK U \in C : \A V \in C : V \subseteq U => V = U
    <3>1. C \subseteq SUBSET S
      OBVIOUS
    <3> HIDE DEF C
    <3> QED BY <1>1, <3>1, SmallestSubset
  <2>2. SumOver(f, U) = IF U = {} THEN 0
                        ELSE f[Pick(U)] + SumOver(f, U \ {Pick(U)})
    BY FS_Subset, SumIsRecursive
  <2>3. U # {} => Pick(U) \in S /\ U \ {Pick(U)} \notin C
    BY <2>1, PickIsMember
  <2>4. U # {} => f[Pick(U)] \in Nat /\ SumOver(f, U \ {Pick(U)}) \in Nat
    BY <2>3
  <2> QED BY <2>1, <2>2, <2>4
<1> QED BY <1>1

(* ... or any other.                                                       *)
LEMMA SumWithout ==
  ASSUME NEW S, IsFiniteSet(S), NEW f \in [S -> Nat],
         NEW T \in SUBSET S, NEW x \in T
  PROVE  SumOver(f, T) = SumOver(f, T \ {x}) + f[x]
<1> DEFINE C == {U \in SUBSET S :
                   \E y \in U : SumOver(f, U) # SumOver(f, U \ {y}) + f[y]}
<1>1. CASE C # {}
  <2>1. PICK U \in C : \A V \in C : V \subseteq U => V = U
    <3>1. C \subseteq SUBSET S
      OBVIOUS
    <3> HIDE DEF C
    <3> QED BY <1>1, <3>1, SmallestSubset
  <2>2. PICK y \in U : SumOver(f, U) # SumOver(f, U \ {y}) + f[y]
    OBVIOUS
  <2> DEFINE p == Pick(U)
  <2>3. p \in U /\ SumOver(f, U) = f[p] + SumOver(f, U \ {p})
    BY FS_Subset, SumIsRecursive, PickIsMember
  <2> HIDE DEF p
  <2>4. /\ SumOver(f, U \ {p}) \in Nat /\ SumOver(f, U \ {y}) \in Nat
        /\ SumOver(f, (U \ {p}) \ {y}) \in Nat
        /\ f[p] \in Nat /\ f[y] \in Nat
    BY <2>3, SumType
  <2>5. CASE y = p
    BY <2>2, <2>3, <2>4, <2>5
  <2>6. CASE y # p
    <3>1. U \ {p} \notin C /\ U \ {y} \notin C
      BY <2>1, <2>3
    <3>2. SumOver(f, U \ {p}) = SumOver(f, (U \ {p}) \ {y}) + f[y]
      BY <3>1, <2>3, <2>6
    <3>3. SumOver(f, U \ {y}) = SumOver(f, (U \ {y}) \ {p}) + f[p]
      BY <3>1, <2>3, <2>6
    <3>4. (U \ {y}) \ {p} = (U \ {p}) \ {y}
      OBVIOUS
    <3> QED BY <2>2, <2>3, <2>4, <3>2, <3>3, <3>4
  <2> QED BY <2>5, <2>6
<1> QED BY <1>1

-----------------------------------------------------------------------------
(* The sums of the bounds.                                                 *)
LEMMA CostsAreSums ==
  ASSUME NEW S
  PROVE  /\ TimerCostOf(S) = SumOver(TimerCost, S)
         /\ FdCostOf(S) = SumOver(FdCost, S)
BY DEF TimerCostOf, FdCostOf, SumOver

LEMMA CostsSummable ==
  /\ IsFiniteSet(Timer) /\ TimerCost \in [Timer -> Nat]
  /\ IsFiniteSet(Fd) /\ FdCost \in [Fd -> Nat]
<1>1. IsFiniteSet(1 .. Timers)
  BY LoopAssumption, FS_Interval
<1>2. FdCost \in [Fd -> Nat]
  BY LoopAssumption
<1> QED BY <1>1, <1>2, LoopAssumption DEF Timer

LEMMA TimerCostType ==
  ASSUME NEW S \in SUBSET Timer
  PROVE  TimerCostOf(S) \in Nat
BY CostsSummable, CostsAreSums, SumType

LEMMA TimerCostWithout ==
  ASSUME NEW S \in SUBSET Timer, NEW t \in S
  PROVE  TimerCostOf(S) = TimerCostOf(S \ {t}) + TimerCost[t]
BY CostsSummable, CostsAreSums, SumWithout

(* What the timers in front of the one whose turn it is add up to.         *)
LEMMA TimerCostNext ==
  ASSUME NEW n \in Timer
  PROVE  /\ TimerCostOf(1 .. (n + 1) - 1) = TimerCostOf(1 .. n - 1) + TimerCost[n]
         /\ \A t \in Timer \ {n} :
              TimerCostOf((1 .. (n + 1) - 1) \ {t})
                = TimerCostOf((1 .. n - 1) \ {t}) + TimerCost[n]
         /\ TimerCostOf((1 .. (n + 1) - 1) \ {n}) = TimerCostOf(1 .. n - 1)
<1>1. (1 .. (n + 1) - 1) \ {n} = 1 .. n - 1
  BY DEF Timer
<1>2. n \in 1 .. (n + 1) - 1 /\ 1 .. (n + 1) - 1 \subseteq Timer
  BY LoopAssumption DEF Timer
<1>3. ASSUME NEW t \in Timer \ {n}
      PROVE  TimerCostOf((1 .. (n + 1) - 1) \ {t})
               = TimerCostOf((1 .. n - 1) \ {t}) + TimerCost[n]
  <2>1. ((1 .. (n + 1) - 1) \ {t}) \ {n} = (1 .. n - 1) \ {t}
    BY <1>1
  <2>2. n \in (1 .. (n + 1) - 1) \ {t} /\ (1 .. (n + 1) - 1) \ {t} \subseteq Timer
    BY <1>2
  <2> QED BY <2>1, <2>2, TimerCostWithout
<1> QED BY <1>1, <1>2, <1>3, TimerCostWithout

LEMMA FdCostType ==
  ASSUME NEW S \in SUBSET Fd
  PROVE  FdCostOf(S) \in Nat
BY CostsSummable, CostsAreSums, SumType

LEMMA FdCostWithout ==
  ASSUME NEW S \in SUBSET Fd, NEW f \in S
  PROVE  FdCostOf(S) = FdCostOf(S \ {f}) + FdCost[f]
BY CostsSummable, CostsAreSums, SumWithout

LEMMA MinOfTwo ==
  ASSUME NEW a \in Nat, NEW b \in Nat
  PROVE  Min({a, b}) \in {a, b} /\ Min({a, b}) <= a /\ Min({a, b}) <= b
<1>1. \E x \in {a, b} : \A y \in {a, b} : x <= y
  OBVIOUS
<1> QED BY <1>1 DEF Min

LEMMA MaxOfThree ==
  ASSUME NEW a \in Int, NEW b \in Int, NEW c \in Int
  PROVE  /\ Max({a, b, c}) \in Int
         /\ Max({a, b, c}) >= a /\ Max({a, b, c}) >= b /\ Max({a, b, c}) >= c
<1>1. \E x \in {a, b, c} : \A y \in {a, b, c} : x >= y
  OBVIOUS
<1> QED BY <1>1 DEF Max

(* How late a timer may be when the loop over the timers starts.           *)
WorstStart(t) ==
  Max({TimerCostOf(Timer \ {t}) - 1, TimerCostOf(Timer) - Interval[t],
       FdCostOf(Fd)})

LEMMA WorstStartBounds ==
  ASSUME NEW t \in Timer
  PROVE  /\ WorstStart(t) \in Nat
         /\ WorstStart(t) >= TimerCostOf(Timer \ {t}) - 1
         /\ WorstStart(t) >= TimerCostOf(Timer) - Interval[t]
         /\ WorstStart(t) >= FdCostOf(Fd)
<1>1. /\ TimerCostOf(Timer \ {t}) \in Nat /\ TimerCostOf(Timer) \in Nat
      /\ FdCostOf(Fd) \in Nat /\ Interval[t] \in Nat
  BY LoopAssumption, TimerCostType, FdCostType
<1>2. /\ TimerCostOf(Timer \ {t}) - 1 \in Int
      /\ TimerCostOf(Timer) - Interval[t] \in Int
      /\ FdCostOf(Fd) \in Int
  BY <1>1
<1>3. /\ WorstStart(t) \in Int
      /\ WorstStart(t) >= TimerCostOf(Timer \ {t}) - 1
      /\ WorstStart(t) >= TimerCostOf(Timer) - Interval[t]
      /\ WorstStart(t) >= FdCostOf(Fd)
  BY <1>2, MaxOfThree DEF WorstStart
<1> QED BY <1>1, <1>3

-----------------------------------------------------------------------------
(* Time passes: what Later and IdleAfter return.                           *)
LEMMA LaterIs ==
  ASSUME NEW d \in [Timer -> Int], NEW n \in Nat
  PROVE  /\ Later(d, n) \in [Timer -> Int]
         /\ \A t \in Timer : Later(d, n)[t] = d[t] - n
BY DEF Later

LEMMA IdleAfterIs ==
  ASSUME NEW i \in [Timer -> Nat], NEW n \in Nat
  PROVE  /\ IdleAfter(i, n) \in [Timer -> Nat]
         /\ \A t \in Timer : /\ IdleAfter(i, n)[t] \in {i[t] + n, Interval[t]}
                             /\ IdleAfter(i, n)[t] <= Interval[t]
<1>1. ASSUME NEW t \in Timer
      PROVE  /\ Min({i[t] + n, Interval[t]}) \in {i[t] + n, Interval[t]}
             /\ Min({i[t] + n, Interval[t]}) <= Interval[t]
             /\ {i[t] + n, Interval[t]} \subseteq Nat
  BY LoopAssumption, MinOfTwo
<1> QED BY <1>1 DEF IdleAfter

(* The handler that runs belongs to the loop that is being executed.       *)
RunningInLoop ==
  running # None =>
    \/ pc = "events" /\ \E f \in Fd : running = <<"fd", f>>
    \/ pc = "timers" /\ turn \in Timer /\ running = <<"timer", turn>>

LEMMA HandlersDiffer ==
  /\ \A t \in Nat : <<"timer", t>> # None
  /\ \A f \in Fd : <<"fd", f>> # None
  /\ \A t, f : <<"timer", t>> # <<"fd", f>>
BY LoopAssumption

LEMMA TypeInit == Init => TypeOK /\ RunningInLoop
BY LoopAssumption, HandlersDiffer DEF Init, TypeOK, RunningInLoop


LEMMA PassType ==
  ASSUME NEW n \in Nat, TypeOK, Pass(n)
  PROVE  /\ due' \in [Timer -> Int] /\ idle' \in [Timer -> Nat]
         /\ since' \in Nat
BY LaterIs, IdleAfterIs DEF TypeOK, Pass

LEMMA TypeNext ==
  ASSUME TypeOK, RunningInLoop, [Next]_vars
  PROVE  TypeOK' /\ RunningInLoop'
<1> USE DEF clock
<1>1. CASE ComputeTimeout
  BY <1>1, LoopAssumption, HandlersDiffer
  DEF TypeOK, RunningInLoop, ComputeTimeout, StartTimers
<1>2. CASE PollWaits
  BY <1>2, LaterIs, IdleAfterIs, HandlersDiffer
  DEF TypeOK, RunningInLoop, PollWaits
<1>3. CASE PollReturns
  BY <1>3, HandlersDiffer DEF TypeOK, RunningInLoop, PollReturns
<1>4. CASE PollInterrupted \/ PollFails
  BY <1>4, HandlersDiffer
  DEF TypeOK, RunningInLoop, PollInterrupted, PollFails
<1>5. ASSUME NEW f \in Fd, CallFd(f)
      PROVE  TypeOK' /\ RunningInLoop'
  BY <1>5, HandlersDiffer DEF TypeOK, RunningInLoop, CallFd
<1>6. CASE EndEvents
  BY <1>6, LoopAssumption, HandlersDiffer
  DEF TypeOK, RunningInLoop, EndEvents, StartTimers
<1>7. CASE CallTimer
  <2>1. NextTime(turn) \in Int
    <3>1. turn \in Timer /\ since \in Nat
      BY <1>7 DEF CallTimer, TypeOK
    <3>2. Interval[turn] \in Nat
      BY <3>1, LoopAssumption
    <3> QED BY <3>1, <3>2 DEF NextTime
  <2>2. due' \in [Timer -> Int] /\ idle' \in [Timer -> Nat]
    BY <1>7, <2>1 DEF CallTimer, TypeOK
  <2>3. /\ running' = <<"timer", turn>> /\ turn \in Timer
        /\ pc = "timers" /\ turn' = turn /\ since' = since
        /\ waiting' = waiting /\ pc' = pc /\ ready' = ready
    BY <1>7 DEF CallTimer
  <2> QED BY <2>2, <2>3, HandlersDiffer DEF TypeOK, RunningInLoop
<1>8. CASE SkipTimer
  <2>1. turn' \in 1 .. Timers + 1
    <3>1. turn \in 1 .. Timers /\ turn' = turn + 1
      BY <1>8 DEF SkipTimer, Timer
    <3> QED BY <3>1, LoopAssumption
  <2>2. /\ running = None /\ running' = None
        /\ pc' = pc /\ ready' = ready /\ waiting' = waiting
        /\ due' = due /\ idle' = idle /\ since' = since
    BY <1>8 DEF SkipTimer
  <2> QED BY <2>1, <2>2 DEF TypeOK, RunningInLoop
<1>9. CASE EndTimers
  BY <1>9, HandlersDiffer DEF TypeOK, RunningInLoop, EndTimers
<1>10. ASSUME NEW f \in Fd, ReturnFd(f)
       PROVE  TypeOK' /\ RunningInLoop'
  <2>1. PICK n \in 1 .. FdCost[f] : Pass(n)
    BY <1>10 DEF ReturnFd
  <2>2. /\ due' \in [Timer -> Int] /\ idle' \in [Timer -> Nat]
        /\ since' \in Nat
    BY <2>1, LoopAssumption, PassType
  <2>3. /\ running = <<"fd", f>> /\ running' = None /\ pc = "events"
        /\ waiting' \subseteq Fd /\ ready' = ready /\ turn' = turn
        /\ pc' \in {"events", "ended"}
    BY <1>10, HandlersDiffer DEF ReturnFd, Returned, RunningInLoop, TypeOK
  <2> QED BY <2>2, <2>3, HandlersDiffer DEF TypeOK, RunningInLoop
<1>11. CASE ReturnTimer
  <2>1. turn \in Timer /\ pc = "timers"
    <3>1. turn \in Nat /\ running = <<"timer", turn>>
      BY <1>11, LoopAssumption DEF ReturnTimer, TypeOK
    <3> QED BY <3>1, HandlersDiffer DEF RunningInLoop
  <2>2. PICK n \in 0 .. TimerCost[turn] : Pass(n)
    BY <1>11 DEF ReturnTimer
  <2>3. /\ due' \in [Timer -> Int] /\ idle' \in [Timer -> Nat]
        /\ since' \in Nat
    BY <2>1, <2>2, LoopAssumption, PassType
  <2>4. /\ running' = None /\ waiting' = waiting /\ ready' = ready
        /\ turn' = turn + 1 /\ pc' \in {"timers", "ended"}
    BY <1>11, <2>1 DEF ReturnTimer, Returned
  <2>5. turn' \in 1 .. Timers + 1 /\ ready = {}
    BY <2>1, <2>4, LoopAssumption DEF Timer, TypeOK
  <2> QED BY <2>3, <2>4, <2>5, HandlersDiffer DEF TypeOK, RunningInLoop
<1>12. ASSUME NEW f \in Fd, Arrive(f)
       PROVE  TypeOK' /\ RunningInLoop'
  BY <1>12 DEF TypeOK, RunningInLoop, Arrive
<1>13. CASE UNCHANGED vars
  BY <1>13 DEF vars, TypeOK, RunningInLoop
<1> QED
  BY <1>1, <1>2, <1>3, <1>4, <1>5, <1>6, <1>7, <1>8, <1>9, <1>10, <1>11,
     <1>12, <1>13
  DEF Next, Round, Poll

(* The variables have their types, the handler that runs belongs to the    *)
(* loop that is being executed (event_loop.cpp:94-121), and a descriptor   *)
(* whose handler runs is no longer among those to be handled.              *)
THEOREM TypeCorrect == Spec => [](TypeOK /\ RunningInLoop)
<1>1. Init => TypeOK /\ RunningInLoop
  BY TypeInit
<1>2. (TypeOK /\ RunningInLoop) /\ [Next]_vars => (TypeOK /\ RunningInLoop)'
  BY TypeNext
<1> QED BY <1>1, <1>2, PTL DEF Spec

-----------------------------------------------------------------------------
(* A step of the loop is one of Dispatcher or none.                        *)
LEMMA StepIsDispatched ==
  ASSUME TypeOK, RunningInLoop, [Next]_vars
  PROVE  [Promise!Next]_(Promise!vars)
<1> USE DEF Promise!vars
<1>1. CASE \/ ComputeTimeout \/ PollWaits \/ PollReturns \/ PollInterrupted
           \/ EndEvents \/ SkipTimer \/ EndTimers \/ UNCHANGED vars
  <2>1. running' = running /\ (pc = "ended" <=> pc' = "ended")
    BY <1>1
    DEF ComputeTimeout, StartTimers, PollWaits, PollReturns, PollInterrupted,
        EndEvents, SkipTimer, EndTimers, vars
  <2> QED BY <2>1
<1>2. ASSUME NEW f \in Fd, Arrive(f)
      PROVE  UNCHANGED Promise!vars
  BY <1>2 DEF Arrive
<1>3. CASE PollFails
  <2>1. running = None /\ pc = "poll" /\ pc' = "ended" /\ running' = running
    BY <1>3 DEF PollFails, RunningInLoop
  <2> QED BY <2>1 DEF Promise!Next, Promise!Fail
<1>4. ASSUME NEW f \in Fd, CallFd(f)
      PROVE  Promise!Next
  <2>1. <<"fd", f>> \in {"fd"} \X Fd
    OBVIOUS
  <2>2. Promise!Call(<<"fd", f>>)
    BY <1>4 DEF CallFd, Promise!Call
  <2> QED BY <2>1, <2>2 DEF Promise!Next
<1>5. CASE CallTimer
  <2>1. <<"timer", turn>> \in {"timer"} \X Timer
    BY <1>5 DEF CallTimer
  <2>2. Promise!Call(<<"timer", turn>>)
    BY <1>5 DEF CallTimer, Promise!Call
  <2> QED BY <2>1, <2>2 DEF Promise!Next
<1>6. ASSUME (\E f \in Fd : ReturnFd(f)) \/ ReturnTimer
      PROVE  Promise!Next
  <2>1. running # None /\ running' = None
    BY <1>6, HandlersDiffer, LoopAssumption
    DEF ReturnFd, ReturnTimer, TypeOK
  <2> QED BY <2>1 DEF Promise!Next, Promise!Return
<1> QED BY <1>1, <1>2, <1>3, <1>4, <1>5, <1>6 DEF Next, Round, Poll

(* EventLoop::Impl::run does what Dispatcher allows: one handler at a      *)
(* time, to its end, none after the loop has ended.  (The fairness of      *)
(* ImplementsDispatcher is left to TLC.)                                   *)
THEOREM KeepsPromise ==
  Spec => Promise!Init /\ [][Promise!Next]_(Promise!vars)
<1>1. Init => Promise!Init
  BY DEF Init, Promise!Init
<1>2. (TypeOK /\ RunningInLoop) /\ [Next]_vars => [Promise!Next]_(Promise!vars)
  BY StepIsDispatched
<1> QED BY <1>1, <1>2, TypeCorrect, PTL DEF Spec

-----------------------------------------------------------------------------
(* How late the timers are, at each point of the loop.  Data is handled by *)
(* each descriptor once, so what has passed since poll() returned is at    *)
(* most the cost of the handlers that have been called and have returned.  *)
Handled == {f \in Fd \ ready : running # <<"fd", f>>}

LateAtTop == pc = "top" => \A t \in Timer : - due[t] <= WorstStart(t)
NotLateInPoll == pc = "poll" => \A t \in Timer : due[t] >= 0
LateInEvents == pc = "events" => \A t \in Timer : - due[t] <= FdCostOf(Handled)

(* In the loop over the timers: one that has been called is due again an   *)
(* interval after the time read before the loop; one that was not due then *)
(* has not added to the time that has passed since; and the ones to come   *)
(* are as late as they were.                                               *)
LateInTimers ==
  pc = "timers" =>
    /\ since <= TimerCostOf(1 .. turn - 1)
    /\ \A t \in Timer :
         /\ t < turn =>
              \/ due[t] + since = Interval[t]
              \/ /\ due[t] + since >= 1
                 /\ since <= TimerCostOf((1 .. turn - 1) \ {t})
         /\ running = <<"timer", t>> => due[t] + since = Interval[t]
         /\ t >= turn /\ running # <<"timer", t>> =>
              - (due[t] + since) <= WorstStart(t)

(* The time since the last call and the time to the next add up to an      *)
(* interval, except for what the timers in front took before the call.     *)
Punctual ==
  \A t \in Timer :
    \/ idle[t] = Interval[t]
    \/ idle[t] + due[t] >= Interval[t] - TimerCostOf(1 .. t - 1)

Late == LateAtTop /\ NotLateInPoll /\ LateInEvents /\ LateInTimers
LoopInv == TypeOK /\ RunningInLoop /\ Late /\ Punctual

LEMMA LateInit == Init => Late /\ Punctual
<1> SUFFICES ASSUME Init PROVE Late /\ Punctual
  OBVIOUS
<1>1. ASSUME NEW t \in Timer PROVE - due[t] <= WorstStart(t)
  <2>1. WorstStart(t) \in Nat /\ due[t] \in Nat
    BY WorstStartBounds, LoopAssumption DEF Init
  <2> QED BY <2>1
<1>2. pc = "top" /\ idle = Interval
  BY DEF Init
<1> QED
  BY <1>1, <1>2
  DEF Late, LateAtTop, NotLateInPoll, LateInEvents, LateInTimers, Punctual

(* Time that passes leaves Punctual as it is.                              *)
LEMMA PunctualAfter ==
  ASSUME TypeOK, Punctual, NEW n \in Nat,
         due' = Later(due, n), idle' = IdleAfter(idle, n)
  PROVE  Punctual'
<1> SUFFICES ASSUME NEW t \in Timer
             PROVE  \/ idle'[t] = Interval[t]
                    \/ idle'[t] + due'[t] >= Interval[t] - TimerCostOf(1 .. t - 1)
  BY DEF Punctual
<1>1. /\ due[t] \in Int /\ idle[t] \in Nat /\ Interval[t] \in Nat
      /\ due'[t] = due[t] - n
      /\ idle'[t] \in {idle[t] + n, Interval[t]} /\ idle'[t] <= Interval[t]
  <2>1. /\ due \in [Timer -> Int] /\ idle \in [Timer -> Nat]
        /\ Interval[t] \in Nat
    BY LoopAssumption DEF TypeOK
  <2>2. due'[t] = due[t] - n
    BY <2>1, LaterIs
  <2>3. idle'[t] \in {idle[t] + n, Interval[t]} /\ idle'[t] <= Interval[t]
    BY <2>1, IdleAfterIs
  <2> QED BY <2>1, <2>2, <2>3
<1>2. 1 .. t - 1 \in SUBSET Timer
  BY LoopAssumption DEF Timer
<1>3. TimerCostOf(1 .. t - 1) \in Nat
  BY <1>2, TimerCostType
<1>4. \/ idle[t] = Interval[t]
      \/ idle[t] + due[t] >= Interval[t] - TimerCostOf(1 .. t - 1)
  BY DEF Punctual
<1> QED BY <1>1, <1>3, <1>4

(* The lowest descriptor reported is one of them.                          *)
LEMMA MinIsMember ==
  ASSUME NEW S \in SUBSET Nat, S # {}
  PROVE  Min(S) \in S
<1> DEFINE R == {p \in Nat \X Nat : p[1] < p[2]}
<1>1. IsWellFoundedOn(R, Nat)
  BY NatLessThanWellFounded DEF OpToRel
<1>2. PICK m \in S : \A n \in S : <<n, m>> \notin R
  <2> HIDE DEF R
  <2> QED BY <1>1, WFMin
<1>3. ASSUME NEW n \in S PROVE m <= n
  <2>1. m \in Nat /\ n \in Nat /\ <<n, m>> \notin R
    BY <1>2
  <2>2. ~ (n < m)
    BY <2>1
  <2> QED BY <2>1, <2>2
<1> QED BY <1>3 DEF Min

(* Nothing happens in front of poll().                                     *)
LEMMA LateOutside ==
  ASSUME LoopInv, TypeOK',
         \/ ComputeTimeout \/ PollReturns \/ PollInterrupted \/ PollFails
         \/ EndEvents \/ EndTimers \/ \E f \in Fd : Arrive(f)
  PROVE  Late'
<1> USE DEF LoopInv, clock
<1>1. due' = due /\ running' = running /\ idle' = idle
  BY DEF ComputeTimeout, PollReturns, PollInterrupted, PollFails, EndEvents,
         EndTimers, Arrive
<1>2. \A t \in Timer : due[t] \in Int /\ WorstStart(t) \in Nat
  BY WorstStartBounds DEF TypeOK
<1>3. CASE ComputeTimeout
  <2>1. pc = "top" /\ running = None
    BY <1>3 DEF ComputeTimeout, RunningInLoop
  <2>2. CASE NothingDue /\ pc' = "poll"
    BY <1>1, <1>2, <2>2
    DEF NothingDue, Late, LateAtTop, NotLateInPoll, LateInEvents, LateInTimers
  <2>3. CASE StartTimers
    <3>1. TimerCostOf(1 .. 1 - 1) \in Nat
      <4>1. 1 .. 1 - 1 \in SUBSET Timer
        BY LoopAssumption DEF Timer
      <4> QED BY <4>1, TimerCostType
    <3>2. \A t \in Timer : - due[t] <= WorstStart(t) /\ ~ t < 1
      BY <2>1 DEF Late, LateAtTop, Timer
    <3>3. pc' = "timers" /\ turn' = 1 /\ since' = 0
      BY <2>3 DEF StartTimers
    <3>4. \A t \in Timer : running' # <<"timer", t>>
      BY <1>1, <2>1, HandlersDiffer, LoopAssumption DEF Timer
    <3> QED BY <1>1, <1>2, <3>1, <3>2, <3>3, <3>4
        DEF Late, LateAtTop, NotLateInPoll, LateInEvents, LateInTimers
  <2> QED BY <1>3, <2>2, <2>3 DEF ComputeTimeout
<1>4. CASE PollReturns
  <2>1. Handled' \in SUBSET Fd
    BY DEF Handled
  <2>2. FdCostOf(Handled') \in Nat
    BY <2>1, FdCostType
  <2>3. pc' = "events" /\ \A t \in Timer : due[t] >= 0
    BY <1>4 DEF PollReturns, Late, NotLateInPoll
  <2>4. \A t \in Timer : - due[t] <= FdCostOf(Handled')
    BY <1>2, <2>2, <2>3
  <2> QED BY <1>1, <2>3, <2>4
      DEF Late, LateAtTop, NotLateInPoll, LateInEvents, LateInTimers
<1>5. CASE PollInterrupted \/ PollFails
  <2>1. pc = "poll" /\ pc' \in {"top", "ended"}
    BY <1>5 DEF PollInterrupted, PollFails
  <2>2. \A t \in Timer : - due[t] <= WorstStart(t)
    BY <1>2, <2>1 DEF Late, NotLateInPoll
  <2> QED BY <1>1, <2>1, <2>2
      DEF Late, LateAtTop, NotLateInPoll, LateInEvents, LateInTimers
<1>6. CASE EndEvents
  <2>1. /\ pc = "events" /\ running = None /\ ready = {}
        /\ pc' = "timers" /\ turn' = 1 /\ since' = 0
    BY <1>6 DEF EndEvents, StartTimers
  <2>2. Handled = Fd
    BY <2>1, HandlersDiffer DEF Handled
  <2>3. ASSUME NEW t \in Timer PROVE - due[t] <= WorstStart(t)
    <3>1. - due[t] <= FdCostOf(Fd)
      BY <2>1, <2>2 DEF Late, LateInEvents
    <3>2. FdCostOf(Fd) \in Nat /\ FdCostOf(Fd) <= WorstStart(t)
      BY FdCostType, WorstStartBounds
    <3> QED BY <1>2, <3>1, <3>2
  <2>4. TimerCostOf(1 .. 1 - 1) \in Nat
    <3>1. 1 .. 1 - 1 \in SUBSET Timer
      BY LoopAssumption DEF Timer
    <3> QED BY <3>1, TimerCostType
  <2>5. \A t \in Timer : running' # <<"timer", t>> /\ ~ t < 1
    BY <1>1, <2>1, HandlersDiffer, LoopAssumption DEF Timer
  <2> QED BY <1>1, <1>2, <2>1, <2>3, <2>4, <2>5
      DEF Late, LateAtTop, NotLateInPoll, LateInEvents, LateInTimers
<1>7. CASE EndTimers
  <2>1. /\ pc = "timers" /\ running = None /\ turn = Timers + 1
        /\ pc' = "top"
    BY <1>7, LoopAssumption DEF EndTimers, TypeOK, Timer
  <2>2. 1 .. turn - 1 = Timer
    BY <2>1, LoopAssumption DEF Timer
  <2>3. ASSUME NEW t \in Timer
        PROVE  - due[t] <= WorstStart(t)
    <3>1. /\ \/ due[t] + since = Interval[t]
             \/ due[t] + since >= 1 /\ since <= TimerCostOf(Timer \ {t})
          /\ since <= TimerCostOf(Timer)
      BY <2>1, <2>2, LoopAssumption DEF Late, LateInTimers, Timer
    <3>2. /\ TimerCostOf(Timer \ {t}) \in Nat /\ TimerCostOf(Timer) \in Nat
          /\ since \in Nat /\ Interval[t] \in Nat
      BY TimerCostType, LoopAssumption DEF TypeOK
    <3> QED BY <1>2, <3>1, <3>2, WorstStartBounds
  <2> QED BY <1>1, <2>1, <2>3
      DEF Late, LateAtTop, NotLateInPoll, LateInEvents, LateInTimers
<1>8. ASSUME NEW f \in Fd, Arrive(f)
      PROVE  Late'
  <2>1. UNCHANGED <<due, since, pc, ready, turn, running>>
    BY <1>8 DEF Arrive
  <2>2. Handled' = Handled
    BY <2>1 DEF Handled
  <2> QED BY <2>1, <2>2
      DEF Late, LateAtTop, NotLateInPoll, LateInEvents, LateInTimers
<1> QED BY <1>3, <1>4, <1>5, <1>6, <1>7, <1>8

(* The handlers of the descriptors.                                        *)
LEMMA LateCallFd ==
  ASSUME LoopInv, NEW f \in Fd, CallFd(f)
  PROVE  Late'
<1> USE DEF LoopInv, clock
<1>1. /\ pc = "events" /\ running = None /\ ready # {} /\ f = Min(ready)
      /\ ready' = ready \ {f} /\ running' = <<"fd", f>>
      /\ due' = due /\ pc' = pc
  BY DEF CallFd
<1>2. f \in ready
  <2>1. ready \in SUBSET Nat
    BY LoopAssumption DEF TypeOK
  <2> QED BY <1>1, <2>1, MinIsMember
<1>3. Handled' = Handled
  <2>1. Handled = Fd \ ready
    BY <1>1, HandlersDiffer DEF Handled
  <2>2. \A g \in Fd : running' # <<"fd", g>> <=> g # f
    BY <1>1
  <2>3. Handled' = Fd \ ready
    BY <1>1, <1>2, <2>2 DEF Handled
  <2> QED BY <2>1, <2>3
<1> QED BY <1>1, <1>3
    DEF Late, LateAtTop, NotLateInPoll, LateInEvents, LateInTimers

LEMMA LateReturnFd ==
  ASSUME LoopInv, NEW f \in Fd, ReturnFd(f)
  PROVE  Late'
<1> USE DEF LoopInv
<1>1. /\ running = <<"fd", f>> /\ running' = None /\ ready' = ready
      /\ pc' = pc \/ pc' = "ended"
  BY DEF ReturnFd, Returned
<1>2. pc = "events" /\ f \notin ready
  BY <1>1, HandlersDiffer DEF RunningInLoop, TypeOK
<1>3. PICK n \in 1 .. FdCost[f] : due' = Later(due, n)
  BY DEF ReturnFd, Pass
<1>4. n \in Nat /\ FdCost[f] \in Nat /\ n <= FdCost[f]
  BY <1>3, LoopAssumption
<1>5. Handled = (Fd \ ready) \ {f} /\ Handled' = Fd \ ready
  <2>1. \A g \in Fd : running # <<"fd", g>> <=> g # f
    BY <1>1
  <2>2. \A g \in Fd : running' # <<"fd", g>>
    BY <1>1, HandlersDiffer
  <2> QED BY <1>1, <2>1, <2>2 DEF Handled
<1>6. f \in Fd \ ready /\ Fd \ ready \in SUBSET Fd
  BY <1>2
<1>7. /\ FdCostOf(Handled') = FdCostOf(Handled) + FdCost[f]
      /\ FdCostOf(Handled) \in Nat
  BY <1>5, <1>6, FdCostWithout, FdCostType
<1>8. ASSUME NEW t \in Timer PROVE - due'[t] <= FdCostOf(Handled')
  <2>1. due[t] \in Int /\ due'[t] = due[t] - n
    BY <1>3, <1>4, LaterIs DEF TypeOK
  <2>2. - due[t] <= FdCostOf(Handled)
    BY <1>2 DEF Late, LateInEvents
  <2> QED BY <1>4, <1>7, <2>1, <2>2
<1> QED BY <1>1, <1>2, <1>8
    DEF Late, LateAtTop, NotLateInPoll, LateInEvents, LateInTimers

(* The handlers of the timers.                                             *)
LEMMA LateCallTimer ==
  ASSUME LoopInv, CallTimer
  PROVE  Late' /\ Punctual'
<1> USE DEF LoopInv
<1>1. /\ pc = "timers" /\ running = None /\ turn \in Timer
      /\ due' = [due EXCEPT ![turn] = NextTime(turn)]
      /\ idle' = [idle EXCEPT ![turn] = 0]
      /\ running' = <<"timer", turn>>
      /\ since' = since /\ pc' = pc /\ turn' = turn
  BY DEF CallTimer
<1>2. /\ due \in [Timer -> Int] /\ idle \in [Timer -> Nat] /\ since \in Nat
      /\ turn \in Nat /\ Interval[turn] \in Nat
  <2>1. /\ due \in [Timer -> Int] /\ idle \in [Timer -> Nat]
        /\ since \in Nat /\ turn \in Nat
    BY LoopAssumption DEF TypeOK
  <2>2. Interval[turn] \in Nat
    BY <1>1, LoopAssumption
  <2> QED BY <2>1, <2>2
<1>3. /\ due'[turn] = Interval[turn] - since /\ idle'[turn] = 0
      /\ \A t \in Timer \ {turn} : due'[t] = due[t] /\ idle'[t] = idle[t]
  BY <1>1, <1>2 DEF NextTime
<1>4. /\ since <= TimerCostOf(1 .. turn - 1)
      /\ \A t \in Timer :
           /\ t < turn =>
                \/ due[t] + since = Interval[t]
                \/ /\ due[t] + since >= 1
                   /\ since <= TimerCostOf((1 .. turn - 1) \ {t})
           /\ t >= turn => - (due[t] + since) <= WorstStart(t)
  <2>1. \A t \in Timer : running # <<"timer", t>>
    BY <1>1, HandlersDiffer DEF Timer
  <2> QED BY <1>1, <2>1 DEF Late, LateInTimers
<1>5. /\ ~ turn < turn
      /\ \A t \in Timer : running' = <<"timer", t>> <=> t = turn
  BY <1>1, <1>2
<1>6. due'[turn] + since = Interval[turn]
  BY <1>2, <1>3
<1>7. LateInTimers'
  BY <1>1, <1>3, <1>4, <1>5, <1>6 DEF LateInTimers
<1>8. Punctual'
  <2> SUFFICES ASSUME NEW t \in Timer
               PROVE  \/ idle'[t] = Interval[t]
                      \/ idle'[t] + due'[t]
                           >= Interval[t] - TimerCostOf(1 .. t - 1)
    BY DEF Punctual
  <2>1. CASE t # turn
    BY <1>3, <2>1 DEF Punctual
  <2>2. CASE t = turn
    <3>1. 1 .. turn - 1 \in SUBSET Timer
      BY <1>1, LoopAssumption DEF Timer
    <3>2. TimerCostOf(1 .. turn - 1) \in Nat
      BY <3>1, TimerCostType
    <3>3. idle'[turn] + due'[turn] >= Interval[turn] - TimerCostOf(1 .. turn - 1)
      BY <1>2, <1>3, <1>4, <3>2
    <3> QED BY <2>2, <3>3
  <2> QED BY <2>1, <2>2
<1> QED BY <1>1, <1>7, <1>8 DEF Late, LateAtTop, NotLateInPoll, LateInEvents

LEMMA LateSkipTimer ==
  ASSUME LoopInv, SkipTimer
  PROVE  Late'
<1> USE DEF LoopInv, clock
<1>1. /\ pc = "timers" /\ running = None /\ turn \in Timer
      /\ ~ (due[turn] + since <= 0)
      /\ due' = due /\ since' = since /\ pc' = pc /\ running' = running
      /\ turn' = turn + 1
  BY DEF SkipTimer, IsDue
<1>2. /\ due \in [Timer -> Int] /\ since \in Nat /\ turn \in Nat
      /\ TimerCost[turn] \in Nat /\ \A t \in Timer : t \in Nat
  BY <1>1, LoopAssumption DEF TypeOK, Timer
<1>3. 1 .. turn - 1 \in SUBSET Timer
  BY <1>1, LoopAssumption DEF Timer
<1>4. /\ TimerCostOf(1 .. turn - 1) \in Nat
      /\ \A t \in Timer : TimerCostOf((1 .. turn - 1) \ {t}) \in Nat
  BY <1>3, TimerCostType
<1>5. since <= TimerCostOf(1 .. turn - 1)
  BY <1>1 DEF Late, LateInTimers
<1>6. since <= TimerCostOf(1 .. turn' - 1)
  BY <1>1, <1>2, <1>4, <1>5, TimerCostNext
<1>7. ASSUME NEW t \in Timer
      PROVE  /\ t < turn' =>
                  \/ due'[t] + since' = Interval[t]
                  \/ /\ due'[t] + since' >= 1
                     /\ since' <= TimerCostOf((1 .. turn' - 1) \ {t})
             /\ running' # <<"timer", t>>
             /\ t >= turn' => - (due'[t] + since') <= WorstStart(t)
  <2>1. running' # <<"timer", t>>
    BY <1>1, <1>2, HandlersDiffer
  <2>2. /\ t < turn =>
             \/ due[t] + since = Interval[t]
             \/ /\ due[t] + since >= 1
                /\ since <= TimerCostOf((1 .. turn - 1) \ {t})
        /\ t >= turn => - (due[t] + since) <= WorstStart(t)
    BY <1>1, <2>1 DEF Late, LateInTimers
  <2>3. CASE t = turn
    <3>1. TimerCostOf((1 .. turn' - 1) \ {t}) = TimerCostOf(1 .. turn - 1)
      BY <1>1, <2>3, TimerCostNext
    <3> QED BY <1>1, <1>2, <1>5, <2>1, <2>3, <3>1
  <2>4. CASE t # turn
    <3>1. TimerCostOf((1 .. turn' - 1) \ {t})
            = TimerCostOf((1 .. turn - 1) \ {t}) + TimerCost[turn]
      BY <1>1, <2>4, TimerCostNext
    <3>2. (t < turn' => t < turn) /\ (t >= turn' => t >= turn)
      BY <1>1, <1>2, <2>4
    <3> QED BY <1>1, <1>2, <1>4, <2>1, <2>2, <3>1, <3>2
  <2> QED BY <2>3, <2>4
<1> QED BY <1>1, <1>6, <1>7
    DEF Late, LateAtTop, NotLateInPoll, LateInEvents, LateInTimers

LEMMA LateReturnTimer ==
  ASSUME LoopInv, ReturnTimer
  PROVE  Late'
<1> USE DEF LoopInv
<1>1. /\ running = <<"timer", turn>> /\ running' = None /\ turn' = turn + 1
      /\ pc' = pc \/ pc' = "ended"
  BY DEF ReturnTimer, Returned
<1>2. pc = "timers" /\ turn \in Timer
  <2>1. turn \in Nat
    BY LoopAssumption DEF TypeOK
  <2> QED BY <1>1, <2>1, HandlersDiffer DEF RunningInLoop
<1>3. PICK n \in 0 .. TimerCost[turn] :
        due' = Later(due, n) /\ since' = since + n
  BY DEF ReturnTimer, Pass
<1>4. /\ due \in [Timer -> Int] /\ since \in Nat /\ turn \in Nat
      /\ TimerCost[turn] \in Nat /\ \A t \in Timer : t \in Nat
      /\ n \in Nat /\ n <= TimerCost[turn]
  BY <1>2, <1>3, LoopAssumption DEF TypeOK, Timer
<1>5. 1 .. turn - 1 \in SUBSET Timer
  BY <1>2, LoopAssumption DEF Timer
<1>6. /\ TimerCostOf(1 .. turn - 1) \in Nat
      /\ \A t \in Timer : TimerCostOf((1 .. turn - 1) \ {t}) \in Nat
  BY <1>5, TimerCostType
<1>7. since <= TimerCostOf(1 .. turn - 1)
  BY <1>2 DEF Late, LateInTimers
<1>8. since' <= TimerCostOf(1 .. turn' - 1)
  BY <1>1, <1>2, <1>3, <1>4, <1>6, <1>7, TimerCostNext
<1>9. ASSUME NEW t \in Timer
      PROVE  /\ t < turn' =>
                  \/ due'[t] + since' = Interval[t]
                  \/ /\ due'[t] + since' >= 1
                     /\ since' <= TimerCostOf((1 .. turn' - 1) \ {t})
             /\ running' # <<"timer", t>>
             /\ t >= turn' => - (due'[t] + since') <= WorstStart(t)
  <2>1. running' # <<"timer", t>>
    BY <1>1, <1>4, HandlersDiffer
  <2>2. due'[t] + since' = due[t] + since /\ due[t] \in Int
    <3>1. due'[t] = due[t] - n
      BY <1>3, <1>4, LaterIs
    <3> QED BY <1>3, <1>4, <3>1
  <2>3. CASE t = turn
    <3>1. due[t] + since = Interval[t]
      BY <1>1, <1>2, <2>3 DEF Late, LateInTimers
    <3> QED BY <1>1, <1>4, <2>1, <2>2, <2>3, <3>1
  <2>4. CASE t # turn
    <3>1. /\ t < turn =>
               \/ due[t] + since = Interval[t]
               \/ /\ due[t] + since >= 1
                  /\ since <= TimerCostOf((1 .. turn - 1) \ {t})
          /\ t >= turn => - (due[t] + since) <= WorstStart(t)
      BY <1>1, <1>2, <2>4 DEF Late, LateInTimers
    <3>2. TimerCostOf((1 .. turn' - 1) \ {t})
            = TimerCostOf((1 .. turn - 1) \ {t}) + TimerCost[turn]
      BY <1>1, <1>2, <2>4, TimerCostNext
    <3>3. (t < turn' => t < turn) /\ (t >= turn' => t >= turn)
      BY <1>1, <1>4, <2>4
    <3> QED BY <1>3, <1>4, <1>6, <2>1, <2>2, <3>1, <3>2, <3>3
  <2> QED BY <2>3, <2>4
<1> QED BY <1>1, <1>2, <1>8, <1>9
    DEF Late, LateAtTop, NotLateInPoll, LateInEvents, LateInTimers

LEMMA LoopNext ==
  ASSUME LoopInv, [Next]_vars
  PROVE  LoopInv'
<1>1. TypeOK' /\ RunningInLoop'
  BY TypeNext DEF LoopInv
<1>2. CASE \/ ComputeTimeout \/ PollReturns \/ PollInterrupted \/ PollFails
           \/ EndEvents \/ EndTimers \/ \E f \in Fd : Arrive(f)
  <2>1. due' = due /\ idle' = idle
    BY <1>2 DEF ComputeTimeout, PollReturns, PollInterrupted, PollFails,
                EndEvents, EndTimers, Arrive, clock
  <2>2. Punctual'
    BY <2>1 DEF LoopInv, Punctual
  <2> QED BY <1>1, <1>2, <2>2, LateOutside DEF LoopInv
<1>3. CASE PollWaits
  <2>1. /\ pc = "poll" /\ pc' = pc
        /\ due' = Later(due, 1) /\ idle' = IdleAfter(idle, 1)
        /\ \A t \in Timer : due[t] > 0
    BY <1>3 DEF PollWaits, NothingDue
  <2>2. Punctual'
    BY <2>1, PunctualAfter DEF LoopInv
  <2>3. \A t \in Timer : due'[t] >= 0
    BY <2>1, LaterIs DEF LoopInv, TypeOK
  <2>4. Late'
    BY <2>1, <2>3
    DEF Late, LateAtTop, NotLateInPoll, LateInEvents, LateInTimers
  <2> QED BY <1>1, <2>2, <2>4 DEF LoopInv
<1>4. ASSUME NEW f \in Fd, CallFd(f)
      PROVE  LoopInv'
  <2>1. Punctual'
    BY <1>4 DEF CallFd, clock, LoopInv, Punctual
  <2> QED BY <1>1, <1>4, <2>1, LateCallFd DEF LoopInv
<1>5. CASE CallTimer
  BY <1>1, <1>5, LateCallTimer DEF LoopInv
<1>6. CASE SkipTimer
  <2>1. Punctual'
    BY <1>6 DEF SkipTimer, clock, LoopInv, Punctual
  <2> QED BY <1>1, <1>6, <2>1, LateSkipTimer DEF LoopInv
<1>7. ASSUME NEW f \in Fd, ReturnFd(f)
      PROVE  LoopInv'
  <2>1. PICK n \in 1 .. FdCost[f] :
          due' = Later(due, n) /\ idle' = IdleAfter(idle, n)
    BY <1>7 DEF ReturnFd, Pass
  <2>2. n \in Nat
    BY <2>1, LoopAssumption
  <2>3. Punctual'
    BY <2>1, <2>2, PunctualAfter DEF LoopInv
  <2> QED BY <1>1, <1>7, <2>3, LateReturnFd DEF LoopInv
<1>8. CASE ReturnTimer
  <2>1. PICK n \in 0 .. TimerCost[turn] :
          due' = Later(due, n) /\ idle' = IdleAfter(idle, n)
    BY <1>8 DEF ReturnTimer, Pass
  <2>2. n \in Nat
    BY <2>1
  <2>3. Punctual'
    BY <2>1, <2>2, PunctualAfter DEF LoopInv
  <2> QED BY <1>1, <1>8, <2>3, LateReturnTimer DEF LoopInv
<1>9. CASE UNCHANGED vars
  <2>1. Handled' = Handled
    BY <1>9 DEF vars, Handled
  <2>2. Late' /\ Punctual'
    BY <1>9, <2>1
    DEF vars, LoopInv, Late, LateAtTop, NotLateInPoll, LateInEvents,
        LateInTimers, Punctual
  <2> QED BY <1>1, <2>2 DEF LoopInv
<1> QED
  BY <1>2, <1>3, <1>4, <1>5, <1>6, <1>7, <1>8, <1>9 DEF Next, Round, Poll

(* The inductive invariant: at each place of run() a bound on how late each *)
(* timer is, and on how long ago it was called (event_loop.cpp:83-123).    *)
THEOREM LoopInvariant == Spec => []LoopInv
<1>1. Init => LoopInv
  BY TypeInit, LateInit DEF LoopInv
<1>2. LoopInv /\ [Next]_vars => LoopInv'
  BY LoopNext
<1> QED BY <1>1, <1>2, PTL DEF Spec

(* No handler of a timer is called later than the handlers in front of it  *)
(* account for, however many there are and however long they take: the     *)
(* loop over the timers (event_loop.cpp:112-121) and the descriptors that  *)
(* are handled once per poll() (event_loop.cpp:94-102) add no delay of     *)
(* their own.                                                              *)
THEOREM NeverLate == Spec => []CalledInTime
<1>1. LoopInv => CalledInTime
  <2> SUFFICES ASSUME LoopInv, pc = "timers", running = None, turn \in Timer,
                      IsDue(turn)
               PROVE  - due[turn] <= WorstDelay(turn)
    BY DEF CalledInTime
  <2>1. /\ due[turn] \in Int /\ since \in Nat /\ turn \in Nat
        /\ WorstStart(turn) \in Nat
    <3>1. WorstStart(turn) \in Nat
      BY WorstStartBounds
    <3> QED BY <3>1, LoopAssumption DEF LoopInv, TypeOK
  <2>2. running # <<"timer", turn>>
    BY <2>1, HandlersDiffer
  <2>3. - (due[turn] + since) <= WorstStart(turn)
    BY <2>1, <2>2 DEF LoopInv, Late, LateInTimers
  <2>4. since <= TimerCostOf(1 .. turn - 1)
    BY DEF LoopInv, Late, LateInTimers
  <2>5. 1 .. turn - 1 \in SUBSET Timer
    BY LoopAssumption DEF Timer
  <2>6. TimerCostOf(1 .. turn - 1) \in Nat
    BY <2>5, TimerCostType
  <2>7. WorstDelay(turn) = WorstStart(turn) + TimerCostOf(1 .. turn - 1)
    BY DEF WorstDelay, WorstStart
  <2> QED BY <2>1, <2>3, <2>4, <2>6, <2>7
<1> QED BY <1>1, LoopInvariant, PTL

(* And none is called earlier than its interval after the call before,     *)
(* less what the timers in front of it took then (event_loop.cpp:113-116). *)
THEOREM NeverInBursts == Spec => NoBurst
<1> DEFINE Step ==
      \A t \in Timer :
        running' = <<"timer", t>> /\ running # running' =>
          idle[t] >= Interval[t] - TimerCostOf(1 .. t - 1)
<1>1. ASSUME LoopInv, [Next]_vars
      PROVE  Step
  <2> SUFFICES ASSUME NEW t \in Timer, running' = <<"timer", t>>,
                      running # running'
               PROVE  idle[t] >= Interval[t] - TimerCostOf(1 .. t - 1)
    OBVIOUS
  <2>1. t \in Nat /\ running' # None
    BY HandlersDiffer DEF Timer
  <2>2. CallTimer
    BY <1>1, <2>1, HandlersDiffer
    DEF Next, Round, Poll, ComputeTimeout, PollWaits, PollReturns,
        PollInterrupted, PollFails, CallFd, EndEvents, SkipTimer, EndTimers,
        ReturnFd, ReturnTimer, Arrive, vars
  <2>3. turn = t /\ due[t] + since <= 0
    BY <2>2 DEF CallTimer, IsDue
  <2>4. /\ due[t] \in Int /\ idle[t] \in Nat /\ since \in Nat
        /\ Interval[t] \in Nat
    BY <1>1, LoopAssumption DEF LoopInv, TypeOK
  <2>5. 1 .. t - 1 \in SUBSET Timer
    BY LoopAssumption DEF Timer
  <2>6. TimerCostOf(1 .. t - 1) \in Nat
    BY <2>5, TimerCostType
  <2>7. \/ idle[t] = Interval[t]
        \/ idle[t] + due[t] >= Interval[t] - TimerCostOf(1 .. t - 1)
    BY <1>1 DEF LoopInv, Punctual
  <2> QED BY <2>3, <2>4, <2>6, <2>7
<1>2. LoopInv /\ [Next]_vars => [Step]_vars
  BY <1>1
<1> QED BY <1>2, LoopInvariant, PTL DEF Spec, NoBurst
=============================================================================
