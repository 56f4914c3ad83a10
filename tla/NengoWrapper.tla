---------------------------- MODULE NengoWrapper ----------------------------
(***************************************************************************)
(* Ev3BrokerClientWrapper and make_node_fun (python/ev3_nengo.py): a       *)
(* reader thread fills the dictionaries of each source with what the       *)
(* client prints, the thread that runs the node reads and resets them.     *)
(* There is no lock; a statement is a step, as the interpreter may switch  *)
(* threads between any two, and does while it prints or writes a pipe.     *)
(*                                                                         *)
(* A source is a dictionary object: two threads that both miss a name make *)
(* two, and the one stored last stays.                                     *)
(***************************************************************************)
EXTENDS Naturals, FiniteSets

CONSTANTS
  Name, Device, Value,
  Target,       \* the source the node is made for
  None,
  MaxObjects,   \* bound: sources made
  MaxResets     \* bound: calls of reset()

ASSUME WrapperAssumption ==
  /\ Target \in Name /\ None \notin Device \cup Value
  /\ MaxObjects \in Nat /\ MaxResets \in Nat

VARIABLES
  sources,      \* self.sources[n], 0 if n is not in it
  made,         \* objects made so far
  position,     \* position[o]: the keys of "position" of object o
  offs,         \* offs[o][d]: "position_offs" of d, None if it has none
  rpc, line, robj,          \* reader thread: next statement, message, source
  upc, uobj,                \* node thread: next statement, source of node_fun
  todo, size, item,         \* its loops over self.sources: items left, length,
                            \* and the source that is being cleared
  resets                    \* calls of reset() so far

reader == <<rpc, line, robj>>
user == <<upc, uobj, todo, size, item, resets>>
objects == <<position, offs>>
vars == <<sources, made, objects, reader, user>>

Object == 1 .. MaxObjects
NoOffsets == [d \in Device |-> None]
Message == [name : Name, dev : Device \cup {None}, value : Value]

Registered == {n \in Name : sources[n] # 0}

(* self.sources = {}; then the reader thread starts.                       *)
Init ==
  /\ sources = [n \in Name |-> 0] /\ made = 0
  /\ position = [o \in Object |-> {}]
  /\ offs = [o \in Object |-> NoOffsets]
  /\ rpc = "line" /\ robj = 0
  /\ line \in Message
  /\ upc = "make" /\ uobj = 0
  /\ todo = {} /\ size = 0 /\ item = 0 /\ resets = 0

(* self.sources[n] = get_empty_source()                                    *)
AddSourceForgotten(n) ==
  /\ made < MaxObjects
  /\ made' = made + 1
  /\ UNCHANGED <<sources, objects>>

AddSource(n) ==
  /\ made < MaxObjects
  /\ made' = made + 1
  /\ sources' = [sources EXCEPT ![n] = made + 1]
  /\ UNCHANGED objects

-----------------------------------------------------------------------------
(* parse_subprocess_output and get_source_for_message.                     *)
ReadLine(m) ==
  /\ rpc = "line"
  /\ line' = m
  /\ rpc' = IF sources[m.name] = 0 THEN "add" ELSE "source"
  /\ UNCHANGED <<sources, made, objects, robj, user>>

ReaderAdds ==
  /\ rpc = "add"
  /\ AddSource(line.name)
  /\ rpc' = "source"
  /\ UNCHANGED <<line, robj, user>>

(* Only positions go on; the rest of a message is kept for sending only.   *)
ReaderSource ==
  /\ rpc = "source"
  /\ robj' = sources[line.name]
  /\ rpc' = IF line.dev = None THEN "line" ELSE "device"
  /\ UNCHANGED <<sources, made, objects, line, user>>

AfterDeviceAlways == "offset"
AfterDevice == IF line.dev \in position[robj] THEN "position" ELSE "offset"

TestDevice ==
  /\ rpc = "device"
  /\ rpc' = AfterDevice
  /\ UNCHANGED <<sources, made, objects, line, robj, user>>

StoreNothing ==
  /\ rpc = "offset"
  /\ rpc' = "position"
  /\ UNCHANGED <<sources, made, objects, line, robj, user>>

StoreOffset ==
  /\ rpc = "offset"
  /\ offs' = [offs EXCEPT ![robj][line.dev] = line.value]
  /\ rpc' = "position"
  /\ UNCHANGED <<sources, made, position, line, robj, user>>

StorePosition ==
  /\ rpc = "position"
  /\ position' = [position EXCEPT ![robj] = @ \cup {line.dev}]
  /\ rpc' = "line"
  /\ UNCHANGED <<sources, made, offs, line, robj, user>>

Reader ==
  \/ \E m \in Message : ReadLine(m)
  \/ ReaderAdds \/ ReaderSource
  \/ TestDevice \/ StoreOffset \/ StorePosition

-----------------------------------------------------------------------------
(* make_node_fun                                                           *)
MakeNode ==
  /\ upc = "make"
  /\ upc' = IF sources[Target] = 0 THEN "add" ELSE "take"
  /\ UNCHANGED <<sources, made, objects, reader, uobj, todo, size, item, resets>>

UserAdds ==
  /\ upc = "add"
  /\ AddSource(Target)
  /\ upc' = "take"
  /\ UNCHANGED <<reader, uobj, todo, size, item, resets>>

TakeSource ==
  /\ upc = "take"
  /\ uobj' = sources[Target]
  /\ upc' = "idle"
  /\ UNCHANGED <<sources, made, objects, reader, todo, size, item, resets>>

(* node_fun returns a position for each device it knows; a device without  *)
(* an offset raises KeyError.  set_duty_cycle() changes nothing here.      *)
NodeFails ==
  /\ upc = "idle"
  /\ \E d \in position[uobj] : offs[uobj][d] = None
  /\ upc' = "KeyError"
  /\ UNCHANGED <<sources, made, objects, reader, uobj, todo, size, item, resets>>

(* reset(Target): a loop that sends, ten times in a row (here once), then  *)
(* one that clears.  Each starts at the dictionary as it is, and the       *)
(* iterator raises RuntimeError once its length has changed.               *)
StartLoop(pc) ==
  /\ upc' = pc
  /\ todo' = Registered
  /\ size' = Cardinality(Registered)

BeginReset ==
  /\ upc = "idle" /\ resets < MaxResets
  /\ resets' = resets + 1
  /\ StartLoop("send")
  /\ UNCHANGED <<sources, made, objects, reader, uobj, item>>

LoopFails ==
  /\ upc \in {"send", "clear"}
  /\ Cardinality(Registered) # size
  /\ upc' = "RuntimeError"
  /\ UNCHANGED <<sources, made, objects, reader, uobj, todo, size, item, resets>>

NextItem(n) ==
  /\ upc \in {"send", "clear"} /\ n \in todo
  /\ Cardinality(Registered) = size
  /\ todo' = todo \ {n}
  /\ IF upc = "clear" /\ n = Target
       THEN upc' = "position" /\ item' = sources[n]
       ELSE UNCHANGED <<upc, item>>
  /\ UNCHANGED <<sources, made, objects, reader, uobj, size, resets>>

ClearPosition ==
  /\ upc = "position"
  /\ position' = [position EXCEPT ![item] = {}]
  /\ upc' = "offset"
  /\ UNCHANGED <<sources, made, offs, reader, uobj, todo, size, item, resets>>

ClearOffsets ==
  /\ upc = "offset"
  /\ offs' = [offs EXCEPT ![item] = NoOffsets]
  /\ upc' = "clear"
  /\ UNCHANGED <<sources, made, position, reader, uobj, todo, size, item, resets>>

EndLoop ==
  /\ upc \in {"send", "clear"} /\ todo = {}
  /\ Cardinality(Registered) = size
  /\ \/ upc = "send" /\ StartLoop("clear")
     \/ upc = "clear" /\ upc' = "idle" /\ UNCHANGED <<todo, size>>
  /\ UNCHANGED <<sources, made, objects, reader, uobj, item, resets>>

User ==
  \/ MakeNode \/ UserAdds \/ TakeSource
  \/ NodeFails
  \/ BeginReset \/ LoopFails \/ EndLoop
  \/ \E n \in todo : NextItem(n)
  \/ ClearPosition \/ ClearOffsets

Next == Reader \/ User

Spec == Init /\ [][Next]_vars

-----------------------------------------------------------------------------
(* Besides the types: what is registered has been made, and the threads    *)
(* work on registered sources only.                                        *)
TypeOK ==
  /\ sources \in [Name -> 0 .. made] /\ made \in 0 .. MaxObjects
  /\ position \in [Object -> SUBSET Device]
  /\ offs \in [Object -> [Device -> Value \cup {None}]]
  /\ line \in Message
  /\ robj \in 0 .. made /\ uobj \in 0 .. made /\ item \in 0 .. made
  /\ rpc \in {"line", "add", "source", "device", "offset", "position"}
  /\ rpc \in {"device", "offset", "position"} => robj # 0 /\ line.dev # None
  /\ rpc = "source" => sources[line.name] # 0
  /\ upc \in {"make", "add", "take", "idle", "send", "clear", "position",
              "offset", "KeyError", "RuntimeError"}
  /\ upc \in {"position", "offset"} => item # 0
  /\ resets \in 0 .. MaxResets
  /\ upc \notin {"make", "add"} => sources[Target] # 0
  /\ upc \notin {"make", "add", "take"} => uobj # 0
  /\ todo \subseteq Registered

(* The node has "four outputs" (README.md:78) on every call: it never      *)
(* raises an error in place of the positions.                              *)
NodeAnswers == upc # "KeyError"

(* The offset is stored before the position (ev3_nengo.py:86-90), so that  *)
(* only a reset can come between the two and break the node.               *)
FailsOnlyAfterReset == ~ NodeAnswers => resets > 0

(* Positions count from the first one reported: once taken, an offset is   *)
(* kept until a reset has emptied the positions and goes for the offsets.  *)
OffsetIsFirst ==
  [][\A o \in Object, d \in Device :
       offs[o][d] # None /\ offs'[o][d] # offs[o][d] => upc = "offset"]_vars
=============================================================================
