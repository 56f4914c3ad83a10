------------------------- MODULE NengoWrapperProofs -------------------------
(***************************************************************************)
(* Proofs about NengoWrapper for any number of sources, devices, messages, *)
(* dictionaries and resets.                                                *)
(***************************************************************************)
EXTENDS NengoWrapper, TLAPS

LEMMA MessageType ==
  \A m \in Message : m.name \in Name /\ m.dev \in Device \cup {None} /\ m.value \in Value
BY DEF Message

LEMMA InitType == Init => TypeOK
<1> SUFFICES ASSUME Init PROVE TypeOK
  OBVIOUS
<1>1. MaxObjects \in Nat /\ MaxResets \in Nat
  BY WrapperAssumption
<1>2. offs \in [Object -> [Device -> Value \cup {None}]]
  BY DEF Init, NoOffsets
<1> QED BY <1>1, <1>2 DEF Init, TypeOK

(* A source that is made gets a number of its own and stays.               *)
LEMMA AddSourceEffect ==
  ASSUME TypeOK, NEW n \in Name, AddSource(n)
  PROVE  /\ made' \in 0 .. MaxObjects /\ made \in Nat /\ made' = made + 1
         /\ sources' \in [Name -> 0 .. made'] /\ sources'[n] # 0
         /\ \A k \in Name : sources[k] # 0 => sources'[k] # 0
         /\ position' = position /\ offs' = offs
         /\ 0 .. made \subseteq 0 .. made'
         /\ Registered \subseteq Registered'
<1>1. MaxObjects \in Nat /\ made \in 0 .. MaxObjects /\ sources \in [Name -> 0 .. made]
  BY WrapperAssumption DEF TypeOK
<1>2. /\ made < MaxObjects /\ made' = made + 1
      /\ sources' = [sources EXCEPT ![n] = made + 1]
      /\ position' = position /\ offs' = offs
  BY DEF AddSource, objects
<1>3. made' \in 0 .. MaxObjects /\ 0 .. made \subseteq 0 .. made' /\ made + 1 \in 0 .. made'
      /\ made \in Nat /\ made + 1 # 0
  BY <1>1, <1>2
<1>4. sources' \in [Name -> 0 .. made']
  BY <1>1, <1>2, <1>3
<1>5. /\ sources'[n] # 0
      /\ \A k \in Name : sources[k] # 0 => sources'[k] # 0
  BY <1>1, <1>2, <1>3
<1>6. Registered \subseteq Registered'
  BY <1>5 DEF Registered
<1> QED BY <1>2, <1>3, <1>4, <1>5, <1>6

LEMMA ReaderType == TypeOK /\ Reader => TypeOK'
<1> SUFFICES ASSUME TypeOK, Reader PROVE TypeOK'
  OBVIOUS
<1>0. line.name \in Name /\ line.dev \in Device \cup {None} /\ line.value \in Value
  BY MessageType DEF TypeOK
<1>1. ASSUME NEW m \in Message, ReadLine(m) PROVE TypeOK'
  BY <1>1, MessageType DEF TypeOK, ReadLine, objects, user, Registered
<1>2. CASE ReaderAdds
  <2>1. AddSource(line.name) /\ rpc' = "source" /\ UNCHANGED <<line, robj, user>>
    BY <1>2 DEF ReaderAdds
  <2> QED BY <1>0, <2>1, AddSourceEffect, WrapperAssumption DEF TypeOK, user
<1>3. CASE ReaderSource
  BY <1>0, <1>3 DEF TypeOK, ReaderSource, objects, user, Registered
<1>4. CASE TestDevice
  BY <1>4 DEF TypeOK, TestDevice, AfterDevice, objects, user, Registered
<1>5. CASE StoreOffset
  <2>1. robj \in Object /\ line.dev \in Device
    BY <1>0, <1>5, WrapperAssumption DEF TypeOK, StoreOffset, Object
  <2>2. offs' \in [Object -> [Device -> Value \cup {None}]]
    BY <1>0, <1>5, <2>1 DEF TypeOK, StoreOffset
  <2> QED BY <1>5, <2>2 DEF TypeOK, StoreOffset, user, Registered
<1>6. CASE StorePosition
  <2>1. line.dev \in Device
    BY <1>0, <1>6 DEF TypeOK, StorePosition
  <2>2. position' \in [Object -> SUBSET Device]
    BY <1>6, <2>1 DEF TypeOK, StorePosition
  <2> QED BY <1>6, <2>2 DEF TypeOK, StorePosition, user, Registered
<1> QED BY <1>1, <1>2, <1>3, <1>4, <1>5, <1>6 DEF Reader

LEMMA UserType == TypeOK /\ User => TypeOK'
<1> SUFFICES ASSUME TypeOK, User PROVE TypeOK'
  OBVIOUS
<1>0. Target \in Name /\ MaxResets \in Nat
  BY WrapperAssumption
<1>1. CASE MakeNode
  BY <1>1 DEF TypeOK, MakeNode, objects, reader, Registered
<1>2. CASE UserAdds
  <2>1. AddSource(Target) /\ upc' = "take"
        /\ UNCHANGED <<reader, uobj, todo, size, item, resets>>
    BY <1>2 DEF UserAdds
  <2>2. line.name \in Name
    BY MessageType DEF TypeOK
  <2> QED BY <1>0, <2>1, <2>2, AddSourceEffect DEF TypeOK, reader
<1>3. CASE TakeSource
  BY <1>0, <1>3 DEF TypeOK, TakeSource, objects, reader, Registered
<1>4. CASE NodeFails
  BY <1>4 DEF TypeOK, NodeFails, objects, reader, Registered
<1>5. CASE BeginReset
  BY <1>0, <1>5 DEF TypeOK, BeginReset, StartLoop, objects, reader, Registered
<1>6. CASE LoopFails
  BY <1>6 DEF TypeOK, LoopFails, objects, reader, Registered
<1>7. CASE EndLoop
  BY <1>7 DEF TypeOK, EndLoop, StartLoop, objects, reader, Registered
<1>8. ASSUME NEW n \in todo, NextItem(n) PROVE TypeOK'
  BY <1>8 DEF TypeOK, NextItem, objects, reader, Registered
<1>9. CASE ClearPosition
  <2>1. position' \in [Object -> SUBSET Device]
    BY <1>9 DEF TypeOK, ClearPosition
  <2> QED BY <1>9, <2>1 DEF TypeOK, ClearPosition, reader, Registered
<1>10. CASE ClearOffsets
  <2>1. offs' \in [Object -> [Device -> Value \cup {None}]]
    BY <1>10 DEF TypeOK, ClearOffsets, NoOffsets
  <2> QED BY <1>10, <2>1 DEF TypeOK, ClearOffsets, reader, Registered
<1> QED BY <1>1, <1>2, <1>3, <1>4, <1>5, <1>6, <1>7, <1>8, <1>9, <1>10 DEF User

LEMMA TypeNext == TypeOK /\ [Next]_vars => TypeOK'
<1>1. TypeOK /\ UNCHANGED vars => TypeOK'
  BY DEF TypeOK, vars, objects, reader, user, Registered
<1> QED BY <1>1, ReaderType, UserType DEF Next

(* The wrapper's dictionaries keep their shape, and no thread works on a   *)
(* source that was never registered.                                       *)
THEOREM TypeCorrect == Spec => []TypeOK
  BY InitType, TypeNext, PTL DEF Spec

-----------------------------------------------------------------------------
(* Until the first reset each position has an offset, and so has the one   *)
(* the reader thread is about to store.                                    *)
Offset ==
  resets = 0 =>
    /\ upc \in {"make", "add", "take", "idle"}
    /\ \A o \in Object : \A d \in position[o] : offs[o][d] # None
    /\ rpc = "position" => offs[robj][line.dev] # None

LEMMA OffsetInit == Init => Offset
<1> SUFFICES ASSUME Init PROVE Offset
  OBVIOUS
<1>1. \A o \in Object : position[o] = {}
  BY DEF Init
<1> QED BY <1>1 DEF Init, Offset

LEMMA OnlyTheNodeResets == Reader => resets' = resets
<1> SUFFICES ASSUME Reader PROVE resets' = resets
  OBVIOUS
<1>1. ASSUME NEW m \in Message, ReadLine(m) PROVE resets' = resets
  BY <1>1 DEF ReadLine, user
<1>2. CASE ReaderAdds
  BY <1>2 DEF ReaderAdds, user
<1>3. CASE ReaderSource \/ TestDevice \/ StoreOffset \/ StorePosition
  BY <1>3 DEF ReaderSource, TestDevice, StoreOffset, StorePosition, user
<1> QED BY <1>1, <1>2, <1>3 DEF Reader

LEMMA OffsetReader == TypeOK /\ Offset /\ Reader => Offset'
<1> SUFFICES ASSUME TypeOK, Offset, Reader, resets = 0
             PROVE  Offset'
  BY OnlyTheNodeResets DEF Offset
<1>0. line.name \in Name /\ line.dev \in Device \cup {None} /\ line.value \in Value
  BY MessageType DEF TypeOK
<1>1. ASSUME NEW m \in Message, ReadLine(m) PROVE Offset'
  BY <1>1 DEF Offset, ReadLine, objects, user
<1>2. CASE ReaderAdds
  BY <1>2 DEF Offset, ReaderAdds, AddSource, objects, user
<1>3. CASE ReaderSource
  BY <1>3 DEF Offset, ReaderSource, objects, user
<1>4. CASE TestDevice
  <2>1. robj \in Object
    BY <1>4, WrapperAssumption DEF TypeOK, TestDevice, Object
  <2> QED BY <1>4, <2>1 DEF Offset, TestDevice, AfterDevice, objects, user
<1>5. CASE StoreOffset
  <2>1. robj \in Object /\ line.dev \in Device /\ line.value # None
    BY <1>0, <1>5, WrapperAssumption DEF TypeOK, StoreOffset, Object
  <2>2. \A o \in Object, d \in Device :
          offs'[o][d] = IF o = robj /\ d = line.dev THEN line.value ELSE offs[o][d]
    BY <1>5, <2>1 DEF TypeOK, StoreOffset
  <2>3. \A o \in Object : position[o] \subseteq Device
    BY DEF TypeOK
  <2> QED BY <1>5, <2>1, <2>2, <2>3 DEF Offset, StoreOffset, user
<1>6. CASE StorePosition
  <2>1. robj \in Object
    BY <1>6, WrapperAssumption DEF TypeOK, StorePosition, Object
  <2>2. \A o \in Object :
          position'[o] = IF o = robj THEN position[o] \cup {line.dev} ELSE position[o]
    BY <1>6 DEF TypeOK, StorePosition
  <2> QED BY <1>6, <2>1, <2>2 DEF Offset, StorePosition, user
<1> QED BY <1>1, <1>2, <1>3, <1>4, <1>5, <1>6 DEF Reader

LEMMA OffsetUser == TypeOK /\ Offset /\ User => Offset'
<1> SUFFICES ASSUME TypeOK, Offset, User, resets' = 0
             PROVE  Offset'
  BY DEF Offset
<1>0. resets \in Nat
  BY WrapperAssumption DEF TypeOK
<1>1. CASE MakeNode
  BY <1>1 DEF Offset, MakeNode, objects, reader
<1>2. CASE UserAdds
  BY <1>2 DEF Offset, UserAdds, AddSource, objects, reader
<1>3. CASE TakeSource
  BY <1>3 DEF Offset, TakeSource, objects, reader
<1>4. CASE NodeFails
  <2>1. uobj \in Object
    BY <1>4, WrapperAssumption DEF TypeOK, NodeFails, Object
  <2> QED BY <1>4, <2>1 DEF Offset, NodeFails
<1>5. CASE BeginReset
  BY <1>0, <1>5 DEF BeginReset
<1>6. CASE LoopFails \/ EndLoop \/ (\E n \in todo : NextItem(n))
           \/ ClearPosition \/ ClearOffsets
  BY <1>6 DEF Offset, LoopFails, EndLoop, NextItem, ClearPosition, ClearOffsets
<1> QED BY <1>1, <1>2, <1>3, <1>4, <1>5, <1>6 DEF User

LEMMA OffsetNext == TypeOK /\ Offset /\ [Next]_vars => Offset'
<1>1. Offset /\ UNCHANGED vars => Offset'
  BY DEF Offset, vars, objects, reader, user
<1> QED BY <1>1, OffsetReader, OffsetUser DEF Next

(* The reader thread alone never breaks the node (ev3_nengo.py:86-90): an  *)
(* error of the node has a reset before it.                                *)
THEOREM ReaderAloneIsSafe == Spec => []FailsOnlyAfterReset
<1>1. Spec => []Offset
  BY TypeCorrect, OffsetInit, OffsetNext, PTL DEF Spec
<1>2. TypeOK /\ Offset => FailsOnlyAfterReset
  BY WrapperAssumption DEF TypeOK, Offset, FailsOnlyAfterReset, NodeAnswers
<1> QED BY <1>1, <1>2, TypeCorrect, PTL

-----------------------------------------------------------------------------
(* An offset belongs to a position, to the one the reader thread is about  *)
(* to store, or to a dictionary whose offsets a reset is about to drop;    *)
(* and the reader thread stores an offset only for what has no position.   *)
Backed ==
  /\ \A o \in Object, d \in Device :
       offs[o][d] # None =>
         \/ d \in position[o]
         \/ rpc = "position" /\ o = robj /\ d = line.dev
         \/ upc = "offset" /\ o = item
  /\ rpc = "offset" => line.dev \notin position[robj]

LEMMA BackedInit == Init => Backed
<1> SUFFICES ASSUME Init PROVE Backed
  OBVIOUS
<1>1. \A o \in Object, d \in Device : offs[o][d] = None
  BY DEF Init, NoOffsets
<1> QED BY <1>1 DEF Init, Backed

LEMMA BackedReader == TypeOK /\ Backed /\ Reader => Backed'
<1> SUFFICES ASSUME TypeOK, Backed, Reader PROVE Backed'
  OBVIOUS
<1>1. ASSUME NEW m \in Message, ReadLine(m) PROVE Backed'
  BY <1>1 DEF Backed, ReadLine, objects, user
<1>2. CASE ReaderAdds
  BY <1>2 DEF Backed, ReaderAdds, AddSource, objects, user
<1>3. CASE ReaderSource
  BY <1>3 DEF Backed, ReaderSource, objects, user
<1>4. CASE TestDevice
  BY <1>4 DEF Backed, TestDevice, AfterDevice, objects, user
<1>5. CASE StoreOffset
  <2>1. \A o \in Object, d \in Device :
          offs'[o][d] # None => offs[o][d] # None \/ (o = robj /\ d = line.dev)
    BY <1>5 DEF TypeOK, StoreOffset
  <2> QED BY <1>5, <2>1 DEF Backed, StoreOffset, user
<1>6. CASE StorePosition
  <2>1. robj \in Object
    BY <1>6, WrapperAssumption DEF TypeOK, StorePosition, Object
  <2>2. \A o \in Object :
          position'[o] = IF o = robj THEN position[o] \cup {line.dev} ELSE position[o]
    BY <1>6 DEF TypeOK, StorePosition
  <2> QED BY <1>6, <2>1, <2>2 DEF Backed, StorePosition, user
<1> QED BY <1>1, <1>2, <1>3, <1>4, <1>5, <1>6 DEF Reader

LEMMA BackedUser == TypeOK /\ Backed /\ User => Backed'
<1> SUFFICES ASSUME TypeOK, Backed, User PROVE Backed'
  OBVIOUS
<1>1. CASE MakeNode \/ TakeSource \/ NodeFails \/ LoopFails
  BY <1>1 DEF Backed, MakeNode, TakeSource, NodeFails, LoopFails, objects, reader
<1>2. CASE UserAdds
  BY <1>2 DEF Backed, UserAdds, AddSource, objects, reader
<1>3. CASE BeginReset \/ EndLoop
  BY <1>3 DEF Backed, BeginReset, EndLoop, StartLoop, objects, reader
<1>4. ASSUME NEW n \in todo, NextItem(n) PROVE Backed'
  BY <1>4 DEF Backed, NextItem, objects, reader
<1>5. CASE ClearPosition
  <2>1. \A o \in Object : position'[o] = IF o = item THEN {} ELSE position[o]
    BY <1>5 DEF TypeOK, ClearPosition
  <2>2. rpc = "offset" => robj \in Object
    BY WrapperAssumption DEF TypeOK, Object
  <2> QED BY <1>5, <2>1, <2>2 DEF Backed, ClearPosition, reader
<1>6. CASE ClearOffsets
  <2>1. \A o \in Object, d \in Device :
          offs'[o][d] = IF o = item THEN None ELSE offs[o][d]
    BY <1>6 DEF TypeOK, ClearOffsets, NoOffsets
  <2> QED BY <1>6, <2>1 DEF Backed, ClearOffsets, reader
<1> QED BY <1>1, <1>2, <1>3, <1>4, <1>5, <1>6 DEF User

LEMMA BackedNext == TypeOK /\ Backed /\ [Next]_vars => Backed'
<1>1. Backed /\ UNCHANGED vars => Backed'
  BY DEF Backed, vars, objects, reader, user
<1> QED BY <1>1, BackedReader, BackedUser DEF Next

LEMMA OnlyTwoStepsTouchOffsets ==
  Next => StoreOffset \/ ClearOffsets \/ offs' = offs
<1> SUFFICES ASSUME Next PROVE StoreOffset \/ ClearOffsets \/ offs' = offs
  OBVIOUS
<1>1. CASE Reader
  BY <1>1 DEF Reader, ReadLine, ReaderAdds, AddSource, ReaderSource, TestDevice,
              StorePosition, objects
<1>2. CASE User
  BY <1>2 DEF User, MakeNode, UserAdds, AddSource, TakeSource, NodeFails, BeginReset,
              LoopFails, EndLoop, NextItem, ClearPosition, objects
<1> QED BY <1>1, <1>2 DEF Next

(* Positions count from the first report (ev3_nengo.py:86-90): an offset   *)
(* changes only between the two statements of a reset.                     *)
THEOREM OffsetsAreKept == Spec => OffsetIsFirst
<1> DEFINE Kept == \A o \in Object, d \in Device :
                     offs[o][d] # None /\ offs'[o][d] # offs[o][d] => upc = "offset"
<1>1. TypeOK /\ Backed /\ [Next]_vars => [Kept]_vars
  <2> SUFFICES ASSUME TypeOK, Backed, Next PROVE Kept
    OBVIOUS
  <2>1. CASE StoreOffset
    <3>1. robj \in Object
      BY <2>1, WrapperAssumption DEF TypeOK, StoreOffset, Object
    <3>2. \A o \in Object, d \in Device :
            offs'[o][d] # offs[o][d] => o = robj /\ d = line.dev
      BY <2>1 DEF TypeOK, StoreOffset
    <3> QED BY <2>1, <3>1, <3>2 DEF Backed, StoreOffset
  <2>2. CASE ClearOffsets
    BY <2>2 DEF ClearOffsets
  <2> QED BY <2>1, <2>2, OnlyTwoStepsTouchOffsets
<1>2. Spec => []Backed
  BY TypeCorrect, BackedInit, BackedNext, PTL DEF Spec
<1> QED BY <1>1, <1>2, TypeCorrect, PTL DEF Spec, OffsetIsFirst
=============================================================================
