---------------------------- MODULE BrokerClient ----------------------------
(***************************************************************************)
(* ev3_broker_client (main_client.cpp): commands arrive as lines on a pipe *)
(* and leave as datagrams, datagrams arrive and leave as lines on another  *)
(* pipe.  Between the first pipe and getline() lies the buffer of stdio,   *)
(* which poll() knows nothing about; the second blocks when it is full.    *)
(*                                                                         *)
(* Lines are written whole, and read() takes whole lines: as many as are   *)
(* in the pipe and fit the buffer, so it never finds the pipe empty        *)
(* (EAGAIN).                                                               *)
(***************************************************************************)
EXTENDS Naturals, Sequences, FiniteSetsExt

CONSTANTS
  Address,      \* the targets commands name
  Nowhere,      \* the first target, 0.0.0.0
  Mixed,        \* a target of which a bad line has set some numbers only
  Fits,         \* lines that fit the buffer of stdio
  MaxLines,     \* bound: lines written
  Own, Garbage,                                       \* as in DatagramParser
  Foreign,      \* datagrams that arrive, with the address they are `from`
  MaxDatagrams, \* bound: datagrams that arrive
  PipeSize,     \* lines that fit the pipe of stdout
  Size, BufSize, HeaderSize, CountMod, SequenceMod        \* as in Marshaller

ASSUME ClientAssumption ==
  /\ Fits \in Nat \ {0} /\ PipeSize \in Nat \ {0}
  /\ MaxLines \in Nat /\ MaxDatagrams \in Nat
  /\ Nowhere \notin Address /\ Mixed \notin Address
  /\ \A d \in Foreign : d.seq \in Nat /\ d.msgs \in Seq({d.msgs[i] : i \in DOMAIN d.msgs})

VARIABLES
  lines,        \* the lines written to stdin so far
  open,         \* the writer has stdin open
  fetched,      \* of those, how many read() has moved to the buffer of stdio
  handled,      \* of those, how many getline() has returned
  target,       \* target_address
  buf, ptr, count, sequence, good, wire,              \* Marshaller marshaller
  sent,         \* sent[i]: the address wire[i] was sent to
  arrived,      \* datagrams so far
  source,       \* source_address
  synced,       \* m_sync = SYNC
  calls,        \* the listener calls parse() has still to make
  stdout,       \* the lines in the pipe of stdout
  pc            \* "poll"; "print" in handle_sock; "error", "flush" in
                \* handle_stdin; "eof" and "failed": ended

Commands == {"set_duty_cycle", "reset"}

(* "other" is JSON of another type, "broken" a line json::parse or one of  *)
(* the accesses to its fields throws at.                                   *)
Line == [kind : Commands \cup {"other", "broken"}, to : Address]
Command(k) == [type |-> lines[k].kind, line |-> k]
Msg == [type : Commands, line : 1 .. MaxLines]

Out == INSTANCE Marshaller WITH Size <- [m \in Msg |-> Size[m.type]]
In == INSTANCE DatagramParser

ASSUME PartsAssumption == Out!SizeAssumption /\ Out!ModAssumption

out == <<buf, ptr, count, sequence, good, wire>>
stdin == <<lines, open, fetched, handled>>
commands == <<stdin, target, out, sent>>
reports == <<arrived, source, synced, calls, stdout>>
vars == <<commands, reports, pc>>

Init ==
  /\ lines = <<>> /\ open = TRUE
  /\ fetched = 0 /\ handled = 0
  /\ target = Nowhere
  /\ Out!Init
  /\ sent = <<>>
  /\ arrived = 0 /\ source = Nowhere
  /\ synced = FALSE /\ calls = <<>> /\ stdout = <<>>
  /\ pc = "poll"

-----------------------------------------------------------------------------
WriteLine(l) ==
  /\ open /\ Len(lines) < MaxLines
  /\ lines' = Append(lines, l)
  /\ UNCHANGED <<open, fetched, handled, target, out, sent, reports, pc>>

CloseStdin ==
  /\ open
  /\ open' = FALSE
  /\ UNCHANGED <<lines, fetched, handled, target, out, sent, reports, pc>>

-----------------------------------------------------------------------------
(* poll() looks at the pipe: it holds something, or has been closed.       *)
Polled == fetched < Len(lines) \/ ~ open

(* getline() reads the pipe only if the buffer is empty, and then all that *)
(* fits.                                                                   *)
FetchedAfter ==
  IF handled < fetched THEN fetched ELSE Min({Len(lines), fetched + Fits})

(* The target is set number by number before the type is looked at.        *)
TargetAfterKept(l) == target
TargetAfter(l) == l.to

HandleStdin ==
  /\ pc = "poll" /\ Polled
  /\ handled < Len(lines)
  /\ fetched' = FetchedAfter
  /\ handled' = handled + 1
  /\ LET l == lines[handled + 1]
     IN  \/ /\ l.kind \in Commands
            /\ target' = TargetAfter(l)
            /\ Out!Write(Command(handled + 1), TRUE)
            /\ pc' = "flush"
         \/ /\ l.kind = "other"
            /\ target' = TargetAfter(l)
            /\ pc' = "flush"
            /\ UNCHANGED out
         \/ /\ l.kind = "broken"
            /\ target' \in {target, Mixed, TargetAfter(l)}
            /\ pc' = "error"
            /\ UNCHANGED out
  /\ UNCHANGED <<lines, open, sent, reports>>

EndOfHangup ==
  /\ pc = "poll" /\ ~ open
  /\ fetched = Len(lines)
  /\ pc' = "eof"
  /\ UNCHANGED <<commands, reports>>

EndOfFile ==
  /\ pc = "poll" /\ Polled
  /\ handled = Len(lines)
  /\ pc' = "eof"
  /\ UNCHANGED <<commands, reports>>

(* The flush behind the try block, after good lines and bad ones.  What    *)
(* send() throws is caught by nobody.                                      *)
SentOnEmpty == Append(sent, target)
SentAfter == IF Out!CallsBack THEN Append(sent, target) ELSE sent

FlushLineGoesOn ==
  /\ pc = "flush"
  /\ \/ Out!Flush(TRUE) /\ sent' = SentAfter
     \/ Out!FlushThrows /\ UNCHANGED sent
  /\ pc' = "poll"
  /\ UNCHANGED <<stdin, target, reports>>

FlushLine ==
  /\ pc = "flush"
  /\ \/ Out!Flush(TRUE) /\ sent' = SentAfter /\ pc' = "poll"
     \/ Out!FlushThrows /\ UNCHANGED sent /\ pc' = "failed"
  /\ UNCHANGED <<stdin, target, reports>>

-----------------------------------------------------------------------------
(* A line on stdout, flushed by std::endl: the client waits for room.      *)
Put(line) ==
  /\ Len(stdout) < PipeSize
  /\ stdout' = Append(stdout, line)

ReadStdout ==
  /\ stdout # <<>>
  /\ stdout' = Tail(stdout)
  /\ UNCHANGED <<commands, arrived, source, synced, calls, pc>>

PrintError ==
  /\ pc = "error"
  /\ Put([type |-> "error"])
  /\ pc' = "flush"
  /\ UNCHANGED <<commands, arrived, source, synced, calls>>

(* handle_sock: recv() fails or returns no bytes, or a name that is not    *)
(* UTF-8 cannot be printed.                                                *)
SocketFails ==
  /\ pc = "poll"
  /\ pc' = "failed"
  /\ UNCHANGED <<commands, reports>>

(* recv() sets source_address before parse() makes its calls.              *)
SourceOfFirst(d) == IF source = Nowhere THEN d.from ELSE source
SourceAfter(d) == d.from

HandleSock(d) ==
  /\ pc = "poll" /\ arrived < MaxDatagrams
  /\ arrived' = arrived + 1
  /\ source' = SourceAfter(d)
  /\ LET result == In!Parse(synced, d)
     IN  synced' = result.synced /\ calls' = result.calls
  /\ pc' = "print"
  /\ UNCHANGED <<commands, stdout>>

(* on_position_sensor and on_heartbeat print, the others do nothing.       *)
Printed(call) ==
  [type |-> call.msg.type, src |-> call.src, ip |-> source]

MakeCall ==
  /\ pc = "print" /\ calls # <<>>
  /\ IF Head(calls).msg.type \in {"position", "heartbeat"}
       THEN Put(Printed(Head(calls)))
       ELSE UNCHANGED stdout
  /\ calls' = Tail(calls)
  /\ UNCHANGED <<commands, arrived, source, synced, pc>>

ParseReturns ==
  /\ pc = "print" /\ calls = <<>>
  /\ pc' = "poll"
  /\ UNCHANGED <<commands, reports>>

Handler == PrintError \/ FlushLine \/ MakeCall \/ ParseReturns

Next ==
  \/ \E l \in Line : WriteLine(l)
  \/ CloseStdin \/ ReadStdout
  \/ HandleStdin \/ EndOfFile
  \/ (\E d \in Foreign : HandleSock(d)) \/ SocketFails
  \/ Handler

(* The event loop calls the handler of every descriptor poll() reports,    *)
(* handlers run to their end, and somebody reads stdout.                   *)
Fairness ==
  /\ SF_vars(HandleStdin \/ EndOfFile)
  /\ WF_vars(Handler)
  /\ WF_vars(ReadStdout)

Spec == Init /\ [][Next]_vars
FairSpec == Spec /\ Fairness

-----------------------------------------------------------------------------
TypeOK ==
  /\ lines \in Seq(Line) /\ open \in BOOLEAN
  /\ handled <= fetched /\ fetched <= Len(lines) /\ fetched <= handled + Fits
  /\ target \in Address \cup {Nowhere, Mixed}
  /\ Len(sent) = Len(wire)
  /\ pc \in {"poll", "print", "error", "flush", "eof", "failed"}
  /\ arrived \in 0 .. MaxDatagrams /\ Len(stdout) <= PipeSize
  /\ calls # <<>> => pc = "print"

(* A command goes to the target of its own line, alone in its datagram:    *)
(* the lines share target_address and the marshaller's buffer, and a line  *)
(* that fails half-way has changed the former (main_client.cpp:168-190).   *)
OwnTarget ==
  \A i \in DOMAIN wire :
    \E k \in DOMAIN lines : wire[i].msgs = <<Command(k)>> /\ sent[i] = lines[k].to

(* Between two lines each command read so far has been sent once and in    *)
(* the order of the lines.                                                 *)
LineOf(d) == d.msgs[1].line
SentInOrder(n) ==
  /\ \A i, j \in DOMAIN wire : i < j => LineOf(wire[i]) < LineOf(wire[j])
  /\ {LineOf(wire[i]) : i \in DOMAIN wire}
       = {k \in 1 .. n : lines[k].kind \in Commands}

CommandsSentOnce == pc = "poll" => SentInOrder(handled)

(* A report is printed with the address of the brick that sent it, and     *)
(* nothing of the client itself is (main_client.cpp:55-59, 68-77): name    *)
(* and address come to the listener by different ways.                     *)
PrintedFromSource ==
  \A i \in DOMAIN stdout :
    stdout[i].type # "error" =>
      \E d \in Foreign : /\ d.src = stdout[i].src /\ d.from = stdout[i].ip
                        /\ d.src # Own

(* A writer that closes the pipe has every line handled before the client  *)
(* ends, those still in the buffer of stdio included, if stdout is read.   *)
ClosingDrains ==
  ~ open ~> pc = "failed" \/ (pc = "eof" /\ handled = Len(lines))

(* "waits on stdin for JSON-encapsulated strings containing commands"      *)
(* (README.md:23): a line that is written is handled while the client runs.*)
LinesHandled ==
  \A k \in 1 .. MaxLines : Len(lines) >= k ~> handled >= k \/ pc = "failed"
=============================================================================
