# EV3 Event Broker in TLA+

Models, model-checking runs and proofs for `ev3_event_broker`: the C++ programs
`ev3_broker_server` and `ev3_broker_client` and the Python module `ev3_nengo.py`.
Paths below are relative to the repository; `.cpp` and `.hpp` files without a
directory are in `ev3_event_broker/`.

## The system

| Component | State | Operations | What makes it correct |
|---|---|---|---|
| `Marshaller` (`marshaller.cpp:75-151`) | fixed buffer, write pointer, 8 bit count, 32 bit sequence number, `m_good` | `write_*`, `flush`; calls back with a full buffer | never writes outside the buffer; a datagram announces what it holds; each message leaves once, in order |
| `Demarshaller` (`marshaller.cpp:157-237`) | `m_sync`, kept between datagrams | `parse`; calls back per sub-message | dispatches what was sent, only from other senders, and loses nothing it should not |
| `Motors`, `TachoMotor` (`motors.cpp`, `tacho_motor.cpp`) | list of motors, each with open sysfs files | `rescan`, `find`, `reset`, `set_duty_cycle`, `good` | the list follows hot-plugging, names are unique, every motor can be stopped |
| `ev3_broker_server` (`main_server.cpp`) | `conflict`, `sensor_broadcast_enabled`, heartbeat count | sensor timer, rescan timer, heartbeat timer, socket | quiet until it owns its name, aborts on a conflict, survives failed ticks, always returns to the loop |
| `ev3_broker_client` (`main_client.cpp`) | target address, buffer of stdio | socket to stdout, stdin to socket | every line handled, each command sent once to its own target |
| Nengo wrapper (`python/ev3_nengo.py`) | dictionaries per source | reader thread; node function, reset | the node answers every call, positions count from the first report |
| `EventLoop` (`event_loop.cpp`) | timers, poll set | `register_*`, `run` | no timer and no descriptor starves, lateness is bounded, missed ticks cause no burst |
| `Argparse` (`argparse.cpp`) | registered arguments | `add_*`, `parse` | each callback is called once, with the value given or the default |
| `socket::UDP` (`socket.cpp`) | descriptor | `send`, `recv` | a datagram is sent whole or an exception thrown |
| `SourceId` (`source_id.cpp`) | name, random hash | constructor | two programs never share name and hash |
| `VirtualMotor`, Makefile | - | simulation, build | see "Not modelled" |

The server's event loop is single threaded. Its handlers share the marshaller,
the motors and two flags; the socket handler calls the demarshaller, which
calls the listener, which calls the motors and may rescan them in the middle of
a datagram. The callback of the marshaller sends and may throw through
`flush()` and `write_*` into the handler. Broadcasts come back to their sender.
Motors are plugged and unplugged at any time. The client is the same
demarshaller and marshaller around two descriptors. The wrapper runs the client
as a process and has two Python threads without a lock.

What is hard: hot-plugging in the middle of every loop; exceptions in the
middle of a flush; parser state that outlives a rejected datagram; counters of
8 and 32 bits; data waiting where `poll()` does not look; timers that are late
and a `poll()` that is skipped; brokers that claim one name over a network that
loses; two threads that update two dictionaries. `PROJECT.json` lists each hazard at its line, with the
properties that cover it.

## Modules

| Module | Models | Built on |
|---|---|---|
| `MessageStream` | what a marshaller promises: accepted messages leave once, in order, until a failure, if fewer than `Limit` wait; of more, a first part or nothing | - |
| `Marshaller` | class `Marshaller` | refines `MessageStream` |
| `DatagramParser` | `parse()` on one datagram, as operators | - |
| `Demarshaller` | a parser and the datagrams it is given | `DatagramParser` |
| `MotorBank` | `Motors`, `TachoMotor`, their part of sysfs, the listener's reset and duty cycle | - |
| `BrokerServer` | the whole server | instances of `MotorBank`, `Marshaller`, `DatagramParser` |
| `Dispatcher` | what a program may take for granted of `EventLoop` | - |
| `EventLoop` | `EventLoop::Impl`, with time | refines `Dispatcher` |
| `Argparse` | `Argparse::Impl`, as operators | - |
| `NameClaim` | several brokers: their arguments, heartbeats, listeners, restarts, and the network | instances of `Argparse` and `DatagramParser` |
| `BrokerClient` | the whole client: stdin to socket, socket to stdout | instances of `Marshaller` and `DatagramParser` |
| `NengoWrapper` | the wrapper's two threads | - |
| `MC*` | constants and bounds for TLC | the module of that name |
| `*Proofs` | theorems | the module of that name |

**Marshaller.** `buf` is the sub-messages behind the header, `ptr`, `count`,
`sequence`, `good` the members; `wire` records the buffers the callback took.
A sub-message is its size. `Write` is any `write_*` (they differ in the size
only), `Flush` is `flush()`; the callback returns true, returns false, or
throws (`FlushThrows`, `WriteThrows`: nothing after line 103 happens).
`Size`, `BufSize`, `HeaderSize`, `CountMod`, `SequenceMod` are constants. The
count wraps at `CountMod` and nothing keeps it from doing so: what a receiver
reads of a datagram are its first `n` messages (`Readable`), and that is what
`MessageStream` is told of; its `Limit` is `CountMod`, and `Overrun` is what the
wrap does to a buffer that holds that many.

**DatagramParser, Demarshaller.** A datagram is its sender, sequence number,
`#Messages` and sub-messages. `Aligned` is `parse()` with the scan for the sync
word; `Misaligned` is what it does when `m_sync` still holds the sync word: the
header is read four bytes early, so the top byte of the sequence number is the
count and the next byte the first type. `Parse` gives the listener calls and
whether `m_sync` stays set.

**MotorBank.** A directory in sysfs is a port and a number; a motor plugged
into the same port again is a new directory, and files opened in the old one
stay dead. `rescan()` is `BeginRescan`, one `Prune` per element, `OpenDir`, one
`Probe` per entry, `EndRescan`; hardware changes between any two. `on_reset`
is `BeginReset`, `ResetOne` per element, `EndReset`. The listing may or may not
show a motor plugged in while it is read.

**BrokerServer.** One action per step of a handler, `pc` the handler that
runs. Other handlers wait, hardware does not. `HandleCall` makes one of the
listener calls of a datagram; a failed duty cycle leaves a rescan to be run by
`MotorLoops` before the next call. `SensorFails` is the catch block. An
exception of the heartbeat timer or of `recv()`, an empty datagram and a
conflict end in `pc = "done"`. `HandlersReturn` accepts that end as an outcome,
and so do `NoRunaway` of the motors a broker leaves running behind it and
`ClosingDrains` of the client (`pc = "failed"`): such ends are in the models, and
no property forbids them, as no document says what should happen instead.

**Dispatcher, EventLoop.** `Dispatcher` is the promise: one handler at a time,
run to its end, each timer again and again until a handler ends the loop.
`EventLoop` keeps every time relative to `now()`: `due[t]` is `next_time` minus
now, `since` how long ago the loop over the timers read the clock, so the clock
needs no bound. Time passes in `poll()` (`PollWaits`) and when a handler
returns (`Pass`); a handler takes any time up to its cost, and data may arrive
at every step. `idle` is a history variable, the time since a timer was called.

**Argparse.** A token that is spelled like an option, an option that was given
already, a missing value, a callback that refuses: `Step` is one turn of the
loop over the tokens, `Finish` of the loop over the arguments behind it, which
calls back with a default, and `Parse` is the two loops. A callback is the set
of values it accepts.

**NameClaim.** A broker is `Start`ed with one of its command lines, beats,
aborts, reports, receives, is stopped and started again. What `BrokerServer`
does with one broker in detail is here one action per handler: `Beat` and
`Abort` are the two branches of the heartbeat timer, `Report` the sensor timer,
`Receive` the socket handler with the real filter and `m_sync`. A broadcast goes
to every broker on the port, the sender included, and each copy is delivered or
lost by itself. The heartbeat timers have one period and drift, so between two
heartbeats of one broker another has none, one or two (`lead`). A broker sends
when what it sent before has arrived or is lost (`AllArrived`): a report and a
heartbeat may leave in one turn of the loop (`event_loop.cpp:114-121`), but each
receiver hears them in that order, and what it does with the first depends on
nothing the sender does meanwhile. `missed`, `used` and `argv`
are history variables: who missed whose heartbeat, and which names were claimed.

**BrokerClient.** `lines` are written to the pipe; `fetched` of them have been
moved to the buffer of stdio by `read()`, `handled` returned by `getline()`.
`poll()` sees the pipe only. A broken line leaves the target old, new or mixed,
depending on the field that was missing. Lines are written and read whole.
`HandleSock` takes a datagram and its address, `MakeCall` makes one listener
call after the other; a report and the message about a broken line wait for
room in the pipe of `stdout`, and the client waits with them.

**NengoWrapper.** A statement is a step. A source is an object number, as two
threads can each make a dictionary for one name and the second replaces the
first. `Reader` is `parse_subprocess_output`; `User` is `make_node_fun`, then
`node_fun` and `reset`. The model is of the wrapper with an `exe` that runs:
this repository's client ends at once when the wrapper starts it (see below).

## Runs

Runs that pass:

| Run | Shows | Bounds |
|---|---|---|
| `marshaller` | buffer, pointer and sequence stay consistent through writes, refusals and exceptions; a datagram never announces more than it holds, nor nothing, and is exact if it holds fewer messages than the count can name; refines `MessageStream` | messages of 1 and 2 bytes in 4 bytes of room, a count that wraps at 3 (in the code: 1 to 21 bytes in 1247, and 256), 2 datagrams, 4 flushes: each write meets a buffer empty, partly full, full and one byte short, and the count wraps in a full buffer |
| `parser` | own datagrams are never dispatched, others unchanged and whole; a loss follows a rejection | 3 datagrams from 3 senders in every order, 5 layouts with two malformed ones, the largest and smallest 24 bit sequence number. `m_sync` is one bit of history, so three datagrams show every effect on a successor |
| `motors` | names unique, no runaway motor, listed motors obey, a reset stops all, hot-plugging is followed | 2 ports, each plugged into twice, so that a dead entry meets a motor on its port |
| `server` | datagrams announce what they hold after failed ticks; no position before the fifth heartbeat, and none ever after a conflict heard before; handlers return, a conflict aborts; the server keeps `MotorBank`'s specification and its fairness | 2 ports, each plugged into once, one own broadcast on the way, lost or heard; a client, a namesake and a malformed datagram; room for three reports or six heartbeats, and a count that wraps at four, so that heartbeats could wrap it and reports could not, as in the code |
| `client` | each command once, in order, to its own target; each report with the address of its sender; closing stdin drains it | 3 lines of 4 kinds to 2 targets, 2 lines fit the buffer, 2 datagrams of 2 bricks or the client itself, 1 line fits stdout |
| `nengo` | offsets last until a reset; without a reset the node never fails | 2 sources, 3 dictionaries, 1 device, 2 values, 2 resets |
| `event_loop` | how late a timer can be called, no burst after missed ticks, no descriptor starves, the loop keeps `Dispatcher` | 3 timers of 3, 8 and 6 ticks, in the order of the server's, with handlers of up to 1, 2 and 1 ticks, 2 descriptors of up to 1 and 2: the timers leave a quarter of the time, and a descriptor can make the shortest timer overdue |
| `names` | settings are those of the command line; two brokers of a name report only if one missed a heartbeat of the other; nobody aborts because of himself; a broker reports or ends | 2 brokers, 3 starts in all, 12 command lines (3 of them valid), a name that is too long, a port that wraps |

Runs that find a disagreement (each has an entry in `findings`):

| Run | Disagreement |
|---|---|
| `names_both` | on a network that loses nothing two brokers of one name both report: each hears its own heartbeat first, which leaves `m_sync` set, and so drops the other's; `README.md:19`, `main_server.cpp:171`. The same early return loses every command that arrives right behind a broker's own report (`marshaller.cpp:185`). |
| `parser_misreads` | from sequence number 0x01FF0000 on (about four days at 100 Hz) an own datagram behind another is read as a reset; `README.md:185` |
| `client_lags` | two lines written in quick succession: the second is not handled until more is written; `README.md:23` |
| `nengo_race` | a report during `reset()` makes every later node call fail; `README.md:78` |

The modules define their other bounds as constants: `MaxPlugs`, `MaxWire`,
`MaxSequence`, `MaxArrivals`, `MaxLines`, `MaxDatagrams`, `MaxObjects`,
`MaxResets`, `MaxStarts`. The server's heartbeat count stops at 5, the code
compares it with 4; `idle` in `EventLoop` stops at the interval. `MaxWire = 0`
in `server` lets a timer wait until the last broadcast is off the network. In
`BrokerServer`, `BrokerClient` and `NameClaim` sequence numbers are all 0: `DatagramParser` depends on them from 2^24 only,
which `parser_misreads` is about.

Three starts are what `names` needs for a broker that meets a namesake, ends and
comes back to it; a third broker would add no pair that two do not form.

Deadlock is not checked where the program can end (`server`, `client*`,
`event_loop`), where every broker can be stopped for good (`names*`) or where a
failed thread stops (`nengo*`). Elsewhere it is.

## Fairness

- `MotorBank`: the loops of a call run to their end (weak fairness: nothing in
  them waits) and a rescan is begun again and again (strong: the timer's turn
  comes between other calls). `server` shows that the server gives it both.
- `BrokerServer`: a running handler takes its steps; the two timers the
  liveness properties need get their turn again and again, which is what
  `Dispatcher` promises and `event_loop` shows of `EventLoop`; a datagram on the way does not stay there for
  ever. Nothing is assumed of the sensor timer, the network or the hardware.
- `EventLoop`: the loop takes its steps, and a `poll()` that is interrupted again
  and again still waits or returns at last. Nothing is assumed of arrivals.
- `BrokerClient`: the handler of stdin runs when `poll` reports stdin
  (`event_loop.cpp:94-102`), a handler that is not blocked goes on, and somebody
  reads stdout. Nothing is assumed of the writer.
- `NameClaim`: the heartbeat timer comes round, and the network delivers or loses
  what a broker sent. Nothing is assumed of what is lost, of reports or of who
  is stopped.

## Proofs

Everything here is checked by TLAPS for every value of the constants that
satisfies the modules' assumptions.

**MarshallerProofs.** `TypeCorrect` and `BufferNeverOverflows` need no more
than that every message fits an empty buffer (`SizeAssumption`, true of the
sizes in `marshaller.hpp:71-76`), and no theorem asks that the count byte cannot
wrap. `CountIsHonest`: the count is at most the number of messages in the buffer,
and equal to it as long as that is below `CountMod` (`Counted`). For
`MarshallerImplementsStream` the same invariant decides which step of
`MessageStream` a flush is: `HandOver` when fewer than `CountMod` messages wait,
since all of them are read then, `Overrun` when the count has wrapped.
`PointerIsExact`: the pointer is the last entry of a table of
the messages' ends (`Pointed`), which a write extends by one entry and a flush
begins anew; there is only one such table (`EndsUnique`), so it is the one
`EndOf` computes. `SequencesAlwaysIncrease` holds until the counter comes to its
last value (`NotWrapping`), as the property says: every number on the wire is
below the counter (`Numbered`).

**DemarshallerProofs.** Hypothesis `ShortSequences`: sequence numbers below
2^24. The invariant is that `m_sync` is set only if the last datagram was
rejected. A header read early then announces no messages, so the misread
datagram calls nobody and clears `m_sync`; hence `OnlyForeignHeard`,
`DispatchedWhole` and `LostOnlyAfterRejected`. `parser_misreads` shows the hypothesis is needed.

`TypeCorrect` adds that what is read are sub-messages of known types, a prefix
whose length is the number of those that can be read (`ReadsKnown`).

**MotorBankProofs.** The invariant adds to the properties: what is listed or
still to be visited has been plugged in (`Seen`); an empty port holds no duty
cycle (`Ports`); a motor that turns and is not listed turned before the broker
started, so its port has been used once (`OnlyEarly`); and during a reset every
turning motor is still to come (`Sweep`). `OnlyEarly` is what makes `NoRunaway`
inductive: a motor plugged in later stands, and only a listed one is made to
turn. `Sweep` gives `ResetStopsAll`.

**NengoWrapperProofs.** `ReaderAloneIsSafe`: until the first reset each
position has an offset, and so has the one the reader thread is about to store
(`Offset`); `nengo_race` is what a reset adds. `OffsetsAreKept`: an offset
belongs to a position, to the one about to be stored, or to a dictionary whose
offsets a reset is about to drop (`Backed`), so the reader thread, which stores
an offset only where it saw no position, replaces none except in the middle of
a reset.

**BrokerServerProofs.** The proofs about the parts are reused: each step of the
broker is a step of its marshaller with a callback that never refuses, or a
datagram that leaves the network (`OutSteps`), and a step of its motors or none
(`BankStep`). The latter needs the parser: a duty cycle about to be set is for a
name nobody has or one a client may send (`Obeyed`), never one read from other
bytes. So `UsesMotorBank` is the safety half of `ImplementsBank`, and
`BrokerStopsMotors`, `BrokerCommandsMotors` and `BrokerResetsAll` follow from
the invariants of the parts. `DatagramsAreHonest` needs more than the
marshaller's, as the buffer has room for 256 heartbeats: the broker never lets
two of them wait. What waits in the buffer are positions, and behind them one
heartbeat at most, from the moment it is written until it is flushed or the
program has ended (`InTurn`, `Filled`); so the hypothesis `CountSuffices` is about
the size of a position, `1280 < 33 + 21 * 255 + 1` in the program. `QuietBeforeClaim`
is about all of `ClaimsBeforeReporting`: the sensor timer runs only when the
broadcast is enabled, which is never undone and comes with the fifth heartbeat
(`Quiet`), and a broker that has heard a namesake before that stays `Contested`.
The broker has its own assumptions: those of the parts
(`PartsAssumption`) and that clients send duty cycles for `Port` and `DutyArg`.
Module `BrokerServer` and its proofs instantiate `MotorBank` and `Marshaller`
separately; `SameBank` and `SameOut` say that the two instances agree.

**BrokerClientProofs.** `CommandsReachOwnTarget`: between two handlers the
marshaller holds nothing (`Idle`), in front of a flush it holds the command of
the line handled last, whose target is set, or nothing (`Pending`). A `send()`
that throws leaves the command in the buffer and ends the client, which is why
`Idle` leaves out `"failed"`. `ReportsOfTheirSource`, with `ShortSequences`: as
long as a call is still to be made `source_address` is that of the datagram it
comes from (`CallsOf`), since the next `recv()` waits for `parse()` to return.
`CommandsOnceInOrder` follows the good lines through the handler: what has been
sent are the good ones among the lines handled before (`SentInOrder`), and in
front of a flush the command of the line handled last waits to be sent
(`Waiting`, `Orderly`). The client's assumptions are those of its marshaller
(`PartsAssumption`).

**EventLoopProofs.** `TypeCorrect` and `KeepsPromise`, the safety half of
`ImplementsDispatcher`, take the loop action by action; what is needed besides
types is that the running handler belongs to the loop `pc` is in
(`RunningInLoop`), and that `None` is not the name of a handler
(`LoopAssumption`). `NeverLate` needs a bound at every place of `run()`: at the
top of the loop no timer is later than all timers together can make it
(`LateAtTop`), in `poll()` none is late (`NotLateInPoll`), among the descriptors lateness is what their handlers took
(`LateInEvents`), and among the timers what those passed so far took
(`LateInTimers`). The bound `WorstDelay` covers loops that have no time to spare
too: when all timers take longer than the interval of one, that one is due again
by the difference when the round is over, the second term of the maximum.
`NeverInBursts` rests on `Punctual`: since its call a timer has been idle for as
long as its interval, less what is left to `next_time` and what the timers in
front of it took before that call. The bounds are sums over
sets; that `MapThenSumSet` is what a sum should be (`SumIsRecursive`,
`SumWithout`) is proved from its definition. The provers cannot use the
induction theorems of the library, which have an operator for a parameter, so
inductions here are by a smallest counterexample (`SmallestSubset`, and
`SmallestNumber` in `NameClaimProofs`), from theorems about well-founded
relations that have none.

**NameClaimProofs.** For any number of brokers, names and command lines.
`TypeCorrect` needs only that a listener's parser leaves `m_sync` a truth value.
`ConflictsAreReal`: a datagram on its way is from a broker that has claimed the
name it carries at the port it goes to (`SentByClaimant`), which survives
restarts because a broker starts only when nothing of its predecessor is on the
way; the filter lets nothing pass with the own name and hash
(`HeardFromSource`), so what the listener takes for a conflict has another hash
and is another broker's. `BothOnlyAfterMissHolds`: of two rivals that have
missed nothing of each other, the one that started later is `Undecided`: it is
not enabled, and it knows of the conflict, or the other has sent no heartbeat
since both run and it has sent at most two itself (`beats[x] <= lead[x][y]`), or
the other's first heartbeat is on its way and it has sent at most two before and
two since. A second heartbeat of the other waits for the first to arrive, so the
fifth of its own, which would enable it, does not come before the conflict is
known or the heartbeat is missed. This is where the four quiet periods and the
drift of at most one period (`lead`) meet.

`SettingsAsTold` is about every command line that is a sequence of strings
(`CommandLineAssumption`; `NoValueAssumption` says that a default is not the
null pointer). As long as `parse()` has not exited the tokens read are pairs of
an option and its value, each handed to its callback, and perhaps one option
that waits for its value (`Pairs`, preserved by each `Step`); the loop over the
arguments adds one call for each that was not given (`Given`). The recursion
over the tokens is shown to exist (`ReadsExists`) and to have the invariant
(`PairsAfter`) by a smallest counterexample.

Model-checked only: the liveness properties (`HotPlug`, `HandlersReturn`,
`ConflictAborts`, `ClosingDrains`, `DescriptorsServed`, `Decides`) and the
fairness part of `ImplementsBank` and `ImplementsDispatcher`, because TLAPS does
not reason about ENABLED. Every other property of a run that passes is stated by
a theorem. The exceptions to "for every value of the constants" are the
hypotheses named above: `CountSuffices`, `ShortSequences` and `NotWrapping`.

## Not modelled

- The clock of `EventLoop` in parts of a tick, and a system that sleeps. How
  long the server's handlers take on a brick is not known: `event_loop` shows
  what follows when they leave time to spare, and when they do not `poll()` is
  never called (`event_loop.cpp:90`). A `poll()` that sleeps longer than it was
asked to is not modelled either: `CalledInTime` bounds what the loop adds.
- In `NameClaim`: brokers that are suspended, clocks that drift by more than a
  period, two brokers that draw one hash, motors and commands. Port 0 is a port
  like any other, while the kernel binds a socket of port 0 to a free port and
  refuses to send to it. That both brokers
  of a name may abort each other during start-up is in the model and no property
  forbids it.
- Values of positions, names as strings (16 bytes are kept of a longer source
  name, so such a broker hears itself; a device has 16 bytes, not the 8 of
  `README.md:202`), file descriptors (leaked by a constructor that throws,
  `tacho_motor.cpp:34`).
- Datagrams shorter than a header (`HEADER_SIZE` is a byte too small) and sync
  words inside a datagram.
- Lines of the client cut in two by `read()`; its arguments, which are those of
  the server; numbers of an address narrowed to 8 and 16 bits
  (`main_client.cpp:168-172`).
- The wrapper's sending, rate limit (which trusts `time.time()` never to step
  back, `ev3_nengo.py:140`), addresses and hashes; a wrapper that was closed and
  is handed out again by `inst()` (`ev3_nengo.py:101`).
- `VirtualMotor` (floating point) and the build: simulation, with no state the
  rest depends on.

More statements of the documents that the code does not keep and no run is about:

- `ev3_nengo.py:121` starts the client with `-p` and `-n`, which `Argparse`
  refuses (`argparse.cpp:109, 151`): the client ends at once, the wrapper reads
  no report and its node answers zeros without an error, while `README.md:78`
  promises four motor positions. The line is in `MCNameClaim`, among those that
  end the program.
- `argparse.hpp:22-23` says that `--arg=FOO` and `-h` are understood; `--arg FOO`
  and `--help` are.
- `README.md:197` says that `#Messages` is the number of messages; the byte wraps
  before the buffer is full (`marshaller.cpp:119`). 256 heartbeats or resets are
  dropped without a word, more are announced as 256 fewer. In the model: it is
  what `CountHonest` and `MessageStream` allow and `CountAnnounced` does not.
  Neither program writes that many without a flush, which `server` shows of the
  broker (`DatagramsHonest`).
- `README.md:6` promises no heap allocation after start-up, while each rescan
  allocates a motor per directory entry (`motors.cpp:80`).
- `README.md:78` normalises positions to 1.0 = 360 degrees, the wrapper divides
  by 180 (`ev3_nengo.py:237`).
- `ev3_nengo.py:167-168` says that a duty cycle is only sent in case of a change;
  it is sent every time.

## Plan

In order of importance:

1. `Channel`: `Marshaller`, a network that loses, repeats and reorders, and
   `Demarshaller`, against an abstract specification of what a listener hears.
2. `NengoWrapper`: hashes and addresses, the rate limit, sources made twice, a
   reset that meets a new source.
3. Proofs: the invariants of what these steps add.
