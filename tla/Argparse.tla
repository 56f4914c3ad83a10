------------------------------ MODULE Argparse ------------------------------
(***************************************************************************)
(* Argparse::Impl (ev3_event_broker/argparse.cpp): which callbacks parse() *)
(* calls for a command line, and whether it exits.  Tokens are strings;    *)
(* the callback of an argument is the set of values it returns true for.   *)
(***************************************************************************)
EXTENDS Naturals, Sequences, FiniteSetsExt

CONSTANTS
  Args,         \* m_args: records [flag, is_switch, default, accepts]
  NoValue       \* nullptr: the value of a switch, no default

(* The argument the constructor adds; its callback exits.                  *)
Help == [flag |-> "--help", is_switch |-> TRUE, default |-> NoValue, accepts |-> {}]
m_args == <<Help>> \o Args

(* parse() in the middle of its loop: the argument whose value is to come, *)
(* 0 if none, the callbacks called so far, and whether it has exited.      *)
Begin == [wants |-> 0, calls |-> <<>>, exited |-> FALSE]
Exit(s) == [s EXCEPT !.exited = TRUE]

Specified(s) == {s.calls[k].arg : k \in DOMAIN s.calls}

Call(s, j, value) ==
  [wants  |-> 0,
   calls  |-> Append(s.calls, [arg |-> j, value |-> value]),
   exited |-> value \notin m_args[j].accepts]

(* A value may be any token, one that looks like an argument included.     *)
Step(s, token) ==
  LET spelled == {j \in DOMAIN m_args : m_args[j].flag = token}
      j       == Min(spelled)
  IN  CASE s.exited -> s
        [] ~ s.exited /\ s.wants # 0 -> Call(s, s.wants, token)
        [] ~ s.exited /\ s.wants = 0 ->
             IF spelled = {} THEN Exit(s)
             ELSE IF j \in Specified(s) THEN Exit(s)
             ELSE IF m_args[j].is_switch THEN Call(s, j, NoValue)
             ELSE [s EXCEPT !.wants = j]

(* The last loop, for one argument: what the callback returns for a        *)
(* default is not looked at.                                               *)
Default(s, j) ==
  [s EXCEPT !.calls = Append(@, [arg |-> j, value |-> m_args[j].default])]

Required(j) == ~ m_args[j].is_switch /\ m_args[j].default = NoValue

FinishAll(s, j) ==
  IF m_args[j].default # NoValue THEN Default(s, j) ELSE s

Finish(s, j) ==
  LET skipped == s.exited \/ j \in Specified(s)
  IN  CASE ~ skipped /\ Required(j) -> Exit(s)
        [] ~ skipped /\ m_args[j].default # NoValue -> Default(s, j)
        [] OTHER -> s

AllRead(argv) ==
  LET after[i \in 0 .. Len(argv)] ==
        IF i = 0 THEN Begin ELSE Step(after[i - 1], argv[i])
  IN  after[Len(argv)]

AllFinished(s) ==
  LET after[j \in 0 .. Len(m_args)] ==
        IF j = 0 THEN s ELSE Finish(after[j - 1], j)
  IN  after[Len(m_args)]

Parse(argv) ==
  LET s == AllRead(argv)
  IN  IF s.exited \/ s.wants # 0 THEN Exit(s) ELSE AllFinished(s)

(* The variable a callback sets: the value of the last call wins.          *)
Value(result, j) ==
  LET k == Max({i \in DOMAIN result.calls : result.calls[i].arg = j})
  IN  result.calls[k].value
=============================================================================
