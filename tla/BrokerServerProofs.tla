------------------------- MODULE BrokerServerProofs -------------------------
(***************************************************************************)
(* Proofs about BrokerServer from the proofs about its parts, MotorBank    *)
(* and Marshaller: the handlers use both as their specifications allow, so *)
(* what is proved of the parts alone holds in the broker.                  *)
(***************************************************************************)
EXTENDS BrokerServer, FiniteSetTheorems, SequenceTheorems, TLAPS

BankFacts == INSTANCE MotorBankProofs
OutFacts == INSTANCE MarshallerProofs WITH Size <- [m \in Msg |-> Size[m.type]]

-----------------------------------------------------------------------------
(* The parts and the modules with the proofs about them are the same.      *)
LEMMA SameAssumptions ==
  /\ BankFacts!DutyAssumption /\ BankFacts!PlugAssumption
  /\ OutFacts!SizeAssumption /\ OutFacts!ModAssumption
BY PartsAssumption
   DEF Bank!DutyAssumption, BankFacts!DutyAssumption,
       Bank!PlugAssumption, BankFacts!PlugAssumption,
       Out!SizeAssumption, OutFacts!SizeAssumption,
       Out!ModAssumption, OutFacts!ModAssumption

LEMMA SameBank ==
  /\ Bank!Init <=> BankFacts!Init
  /\ [Bank!Next]_(Bank!vars) <=> [BankFacts!Next]_(BankFacts!vars)
<1> USE DEF Bank!vars, BankFacts!vars, Bank!sysfs, BankFacts!sysfs,
            Bank!Directory, BankFacts!Directory, Bank!Dir, BankFacts!Dir,
            Bank!Current, BankFacts!Current, Bank!Good, BankFacts!Good
<1>1. Bank!Init <=> BankFacts!Init
  BY DEF Bank!Init, BankFacts!Init
<1>2. Bank!Hardware <=> BankFacts!Hardware
  BY DEF Bank!Hardware, BankFacts!Hardware, Bank!Plug, BankFacts!Plug,
         Bank!Unplug, BankFacts!Unplug
<1>3. Bank!Scan <=> BankFacts!Scan
  BY DEF Bank!Scan, BankFacts!Scan, Bank!Prune, BankFacts!Prune,
         Bank!Probe, BankFacts!Probe, Bank!Known, BankFacts!Known,
         Bank!Stopped, BankFacts!Stopped, Bank!OpenDir, BankFacts!OpenDir,
         Bank!Listing, BankFacts!Listing, Bank!EndRescan, BankFacts!EndRescan
<1>4. Bank!BeginRescan <=> BankFacts!BeginRescan
  BY DEF Bank!BeginRescan, BankFacts!BeginRescan
<1>5. (Bank!BeginReset <=> BankFacts!BeginReset) /\ (Bank!Reset <=> BankFacts!Reset)
  BY DEF Bank!BeginReset, BankFacts!BeginReset, Bank!Reset, BankFacts!Reset,
         Bank!ResetOne, BankFacts!ResetOne, Bank!EndReset, BankFacts!EndReset,
         Bank!Stopped, BankFacts!Stopped
<1>6. \A p \in Port, v \in DutyArg :
        Bank!SetDutyCycle(p, v) <=> BankFacts!SetDutyCycle(p, v)
  BY DEF Bank!SetDutyCycle, BankFacts!SetDutyCycle, Bank!Known, BankFacts!Known,
         Bank!Clamp, BankFacts!Clamp
<1>7. Bank!Next <=> BankFacts!Next
  BY <1>2, <1>3, <1>4, <1>5, <1>6 DEF Bank!Next, BankFacts!Next
<1> QED BY <1>1, <1>7

LEMMA SameBankProperties ==
  /\ Bank!TypeOK <=> BankFacts!TypeOK
  /\ Bank!NoRunaway <=> BankFacts!NoRunaway
BY DEF Bank!TypeOK, BankFacts!TypeOK, Bank!Directory, BankFacts!Directory,
       Bank!NoRunaway, BankFacts!NoRunaway, Bank!Running, BankFacts!Running,
       Bank!Adopting, BankFacts!Adopting, Bank!Current, BankFacts!Current,
       Bank!Dir, BankFacts!Dir

LEMMA SameOut ==
  /\ Out!Init <=> OutFacts!Init
  /\ [Out!Next]_(Out!vars) <=> [OutFacts!Next]_(OutFacts!vars)
<1> USE DEF Out!vars, OutFacts!vars, Out!CallsBack, OutFacts!CallsBack,
            Out!FlushInto, OutFacts!FlushInto, Out!GoodAfter, OutFacts!GoodAfter,
            Out!CountAfter, OutFacts!CountAfter, Out!NextSequence, OutFacts!NextSequence,
            Out!PtrAfter, OutFacts!PtrAfter, Out!HasSpace, OutFacts!HasSpace
<1>1. Out!Init <=> OutFacts!Init
  BY DEF Out!Init, OutFacts!Init
<1>2. \A ok \in BOOLEAN : Out!Flush(ok) <=> OutFacts!Flush(ok)
  BY DEF Out!Flush, OutFacts!Flush
<1>3. Out!FlushThrows <=> OutFacts!FlushThrows
  BY DEF Out!FlushThrows, OutFacts!FlushThrows
<1>4. \A m \in Msg, ok \in BOOLEAN : Out!Write(m, ok) <=> OutFacts!Write(m, ok)
  BY DEF Out!Write, OutFacts!Write, Out!WriteFits, OutFacts!WriteFits,
         Out!WriteFlushes, OutFacts!WriteFlushes
<1>5. \A m \in Msg : Out!WriteThrows(m) <=> OutFacts!WriteThrows(m)
  BY <1>3 DEF Out!WriteThrows, OutFacts!WriteThrows
<1>6. Out!Next <=> OutFacts!Next
  BY <1>2, <1>3, <1>4, <1>5 DEF Out!Next, OutFacts!Next
<1> QED BY <1>1, <1>6

LEMMA SameOutProperties ==
  /\ Out!TypeOK <=> OutFacts!TypeOK
  /\ Out!BufferBounds <=> OutFacts!BufferBounds
  /\ Out!CountAnnounced <=> OutFacts!CountAnnounced
BY DEF Out!TypeOK, OutFacts!TypeOK, Out!Datagram, OutFacts!Datagram,
       Out!BufferBounds, OutFacts!BufferBounds,
       Out!CountAnnounced, OutFacts!CountAnnounced

-----------------------------------------------------------------------------
(* What the handlers have of the network: the marshaller's buffer and the  *)
(* datagrams on the way are well-typed, and a duty cycle that waits to be  *)
(* set is for a motor there may be, or for a name nobody has.              *)
Obeyable(msg) ==
  msg.type = "set_duty_cycle" =>
    msg.device = Garbage \/ (msg.device \in Port /\ msg.duty_cycle \in DutyArg)

Obeyed(cs) ==
  /\ \E S : cs \in Seq(S)
  /\ \A i \in DOMAIN cs : Obeyable(cs[i].msg)

NetIInv == OutFacts!Bounds /\ synced \in BOOLEAN /\ Obeyed(calls)

LEMMA EmptyObeyed == Obeyed(<<>>)
<1>1. <<>> \in Seq({})
  OBVIOUS
<1> QED BY <1>1 DEF Obeyed

LEMMA TailObeyed ==
  ASSUME Obeyed(calls), calls # <<>>
  PROVE  Obeyable(Head(calls).msg) /\ Obeyed(Tail(calls))
<1>1. PICK S : calls \in Seq(S)
  BY DEF Obeyed
<1>2. /\ Head(calls) = calls[1] /\ 1 \in DOMAIN calls /\ Tail(calls) \in Seq(S)
      /\ \A i \in DOMAIN Tail(calls) : i + 1 \in DOMAIN calls /\ Tail(calls)[i] = calls[i + 1]
  BY <1>1, HeadTailProperties, LenProperties
<1> QED BY <1>2 DEF Obeyed

(* parse() calls back for sub-messages of its datagram, or for garbage.    *)
LEMMA ReadSome ==
  ASSUME NEW d, NEW S, d.msgs \in Seq(S)
  PROVE  In!Readable(d) \in Seq(S)
<1> DEFINE readable == {k \in 1 .. Len(d.msgs) : In!CanRead(d, k)}
<1>1. Len(d.msgs) \in Nat
  OBVIOUS
<1>2. IsFiniteSet(1 .. Len(d.msgs)) /\ Cardinality(1 .. Len(d.msgs)) = Len(d.msgs)
  BY <1>1, FS_Interval
<1>3. Cardinality(readable) \in Nat /\ Cardinality(readable) <= Len(d.msgs)
  BY <1>2, FS_Subset, FS_CardinalityType
<1>4. In!Readable(d) = SubSeq(d.msgs, 1, Cardinality(readable))
  BY DEF In!Readable, In!Cardinality, Cardinality
<1> HIDE DEF readable
<1> QED BY <1>1, <1>3, <1>4

LEMMA CallFields ==
  ASSUME NEW src, NEW msg PROVE In!Call(src, msg).msg = msg
BY DEF In!Call

LEMMA ParseObeyed ==
  ASSUME NEW b \in BOOLEAN, NEW d, NEW S, d.msgs \in Seq(S), \A e \in S : Obeyable(e)
  PROVE  Obeyed(In!Parse(b, d).calls) /\ In!Parse(b, d).synced \in BOOLEAN
<1> DEFINE R == In!Readable(d)
           made == [i \in 1 .. Len(R) |-> In!Call(d.src, R[i])]
<1>1. CASE ~ b /\ ~ In!Filter(d.src)
  BY <1>1, EmptyObeyed DEF In!Parse, In!Aligned
<1>2. CASE ~ b /\ In!Filter(d.src)
  <2>1. In!Parse(b, d) = [calls |-> made, synced |-> Len(R) < d.n]
    BY <1>2 DEF In!Parse, In!Aligned
  <2>2. R \in Seq(S)
    BY ReadSome
  <2> HIDE DEF R
  <2>3. Len(R) \in Nat /\ \A i \in 1 .. Len(R) : R[i] \in S
    BY <2>2
  <2>4. made \in Seq({made[i] : i \in 1 .. Len(R)})
    BY <2>3
  <2>5. \A i \in DOMAIN made : Obeyable(made[i].msg)
    BY <2>3, CallFields
  <2> HIDE DEF made
  <2> QED BY <2>1, <2>4, <2>5 DEF Obeyed
<1>3. CASE b
  <2> DEFINE m == [type |-> In!MisreadType(d), device |-> Garbage]
             call == In!Call(Garbage, m)
  <2>1. In!Parse(b, d) = In!Misaligned(d)
    BY <1>3 DEF In!Parse
  <2>2. In!Misaligned(d).calls \in {<<>>, <<call>>} /\ In!Misaligned(d).synced \in BOOLEAN
    BY DEF In!Misaligned
  <2>3. Obeyable(call.msg)
    BY CallFields DEF Obeyable
  <2> HIDE DEF call
  <2>4. Obeyed(<<call>>)
    <3>1. <<call>> \in Seq({call})
      OBVIOUS
    <3>2. \A i \in DOMAIN <<call>> : <<call>>[i] = call
      OBVIOUS
    <3> QED BY <2>3, <3>1, <3>2, Zenon DEF Obeyed
  <2> QED BY <2>1, <2>2, <2>4, EmptyObeyed
<1> QED BY <1>1, <1>2, <1>3

-----------------------------------------------------------------------------
(* What a step of the broker is to its marshaller: a write or a flush that *)
(* succeeds, nothing, or a datagram that leaves the network.               *)
outbox == <<buf, ptr, count, sequence, good>>

Leaves == wire # <<>> /\ wire' = Tail(wire) /\ UNCHANGED outbox

OutStep ==
  \/ UNCHANGED out
  \/ \E m \in Msg : Out!Write(m, TRUE) /\ (m.type = "position" => pc = "sensor")
  \/ Out!Flush(TRUE)
  \/ Leaves

LEMMA MsgTypes ==
  /\ Heartbeat \in Msg /\ Heartbeat.type = "heartbeat"
  /\ \A m \in Msg : m.type \in {"position", "heartbeat"}
  /\ \A p \in Port : PositionOf(p) \in Msg
BY DEF Msg, Heartbeat, PositionOf

LEMMA OutSteps ==
  ASSUME [Next]_vars, todo \subseteq Bank!Directory
  PROVE  OutStep
<1>1. CASE Hardware \/ SensorTimer \/ RescanTimer \/ HeartbeatTimer \/ ReceiveFails
  BY <1>1 DEF OutStep, Hardware, SensorTimer, RescanTimer, HeartbeatTimer, ReceiveFails
<1>2. CASE MotorLoops \/ HandleCall \/ ParseReturns
  BY <1>2 DEF OutStep, MotorLoops, HandleCall, ParseReturns
<1>3. CASE LoseOwn \/ ReceiveOwn
  BY <1>3 DEF OutStep, Leaves, outbox, LoseOwn, ReceiveOwn, Parse
<1>4. CASE ReceiveForeign
  BY <1>4 DEF OutStep, out, ReceiveForeign, Parse
<1>5. ASSUME NEW m \in todo, ReportPosition(m) PROVE OutStep
  <2>1. m.port \in Port
    BY DEF Bank!Directory
  <2>2. PositionOf(m.port) \in Msg
    BY <2>1, MsgTypes
  <2>3. \/ Out!Write(PositionOf(m.port), TRUE) /\ pc = "sensor"
        \/ UNCHANGED out
    BY <1>5 DEF ReportPosition, Out!WriteThrows, Out!FlushThrows, Out!vars, out
  <2> QED BY <2>2, <2>3 DEF OutStep
<1>6. CASE SendReport
  BY <1>6 DEF OutStep, SendReport, Out!FlushThrows, Out!vars, out
<1>7. CASE WriteHeartbeat
  <2>1. Out!Write(Heartbeat, TRUE) \/ UNCHANGED out
    BY <1>7 DEF WriteHeartbeat, Out!WriteThrows, Out!FlushThrows, Out!vars, out
  <2> QED BY <2>1, MsgTypes DEF OutStep
<1>8. CASE FlushHeartbeat
  BY <1>8 DEF OutStep, FlushHeartbeat, Out!FlushThrows, Out!vars, out
<1>9. CASE UNCHANGED vars
  BY <1>9 DEF OutStep, vars
<1> QED BY <1>1, <1>2, <1>3, <1>4, <1>5, <1>6, <1>7, <1>8, <1>9 DEF Next, Handler

LEMMA OutNext ==
  ASSUME OutStep
  PROVE  [OutFacts!Next]_(OutFacts!vars) \/ Leaves
<1>1. CASE UNCHANGED out
  BY <1>1 DEF out, OutFacts!vars
<1>2. ASSUME NEW m \in Msg, Out!Write(m, TRUE) PROVE [Out!Next]_(Out!vars)
  BY <1>2 DEF Out!Next
<1>3. CASE Out!Flush(TRUE)
  <2>1. [Out!Next]_(Out!vars)
    BY <1>3 DEF Out!Next
  <2> QED BY <2>1, SameOut
<1> QED BY <1>1, <1>2, <1>3, SameOut DEF OutStep

(* A datagram that leaves the network leaves the others as they are.       *)
LEMMA LeavesTail ==
  ASSUME OutFacts!TypeOK, Leaves
  PROVE  /\ wire' \in Seq(OutFacts!Datagram)
         /\ \A i \in DOMAIN wire' : i + 1 \in DOMAIN wire /\ wire'[i] = wire[i + 1]
<1>1. wire \in Seq(OutFacts!Datagram)
  BY DEF OutFacts!TypeOK
<1> HIDE DEF OutFacts!Datagram
<1> QED BY <1>1, HeadTailProperties, LenProperties DEF Leaves

LEMMA BoundsNext ==
  ASSUME OutFacts!Bounds, OutStep
  PROVE  OutFacts!Bounds'
<1>1. CASE [OutFacts!Next]_(OutFacts!vars)
  BY <1>1, SameAssumptions, OutFacts!BoundsNext
<1>2. CASE Leaves
  <2>1. OutFacts!TypeOK
    BY DEF OutFacts!Bounds
  <2>2. wire' \in Seq(OutFacts!Datagram)
    BY <1>2, <2>1, LeavesTail
  <2>3. UNCHANGED <<buf, ptr, count, sequence, good>>
    BY <1>2 DEF Leaves, outbox
  <2> HIDE DEF OutFacts!Datagram
  <2> QED BY <2>1, <2>2, <2>3 DEF OutFacts!Bounds, OutFacts!TypeOK, OutFacts!BufferBounds
<1> QED BY <1>1, <1>2, OutNext

LEMMA CallsNext ==
  ASSUME NetIInv, [Next]_vars
  PROVE  Obeyed(calls)' /\ synced' \in BOOLEAN
<1> USE DEF NetIInv
<1>1. ASSUME NEW d, NEW S, d.msgs \in Seq(S), \A e \in S : Obeyable(e), Parse(d)
      PROVE  Obeyed(calls)' /\ synced' \in BOOLEAN
  <2>1. calls' = In!Parse(synced, d).calls /\ synced' = In!Parse(synced, d).synced
    BY <1>1 DEF Parse
  <2>2. Obeyed(In!Parse(synced, d).calls) /\ In!Parse(synced, d).synced \in BOOLEAN
    BY <1>1, ParseObeyed
  <2> QED BY <2>1, <2>2 DEF Obeyed
<1>2. CASE ReceiveForeign
  <2>1. PICK d \in Foreign : Parse(d)
    BY <1>2 DEF ReceiveForeign
  <2> DEFINE S == {d.msgs[i] : i \in DOMAIN d.msgs}
  <2>2. d.msgs \in Seq(S)
    BY ForeignAssumption
  <2>3. \A e \in S : Obeyable(e)
    BY ForeignAssumption DEF Obeyable
  <2> HIDE DEF S
  <2> QED BY <1>1, <2>1, <2>2, <2>3
<1>3. CASE ReceiveOwn
  <2> DEFINE d == FromSelf(Head(wire))
  <2>1. wire \in Seq(OutFacts!Datagram) /\ wire # <<>>
    BY <1>3 DEF OutFacts!Bounds, OutFacts!TypeOK, ReceiveOwn
  <2>2. Head(wire) \in OutFacts!Datagram
    <3> HIDE DEF OutFacts!Datagram
    <3> QED BY <2>1, HeadTailProperties, LenProperties
  <2>3. d.msgs \in Seq(Msg)
    BY <2>2 DEF OutFacts!Datagram, FromSelf
  <2>4. \A e \in Msg : Obeyable(e)
    BY MsgTypes DEF Obeyable
  <2>5. Parse(d)
    BY <1>3 DEF ReceiveOwn
  <2> HIDE DEF d
  <2> QED BY <1>1, <2>3, <2>4, <2>5
<1>4. CASE HandleCall
  <2>1. calls # <<>> /\ calls' = Tail(calls) /\ synced' = synced
    BY <1>4 DEF HandleCall
  <2>2. Obeyed(Tail(calls))
    BY <2>1, TailObeyed
  <2> QED BY <2>1, <2>2 DEF Obeyed
<1>5. CASE UNCHANGED <<calls, synced>>
  BY <1>5 DEF Obeyed
<1>6. \/ ReceiveForeign \/ ReceiveOwn \/ HandleCall
      \/ UNCHANGED <<calls, synced>>
  BY DEF Next, Handler, vars, local, Hardware, LoseOwn, SensorTimer, RescanTimer,
         HeartbeatTimer, ReceiveFails, MotorLoops, ReportPosition, SendReport,
         WriteHeartbeat, FlushHeartbeat, ParseReturns
<1> QED BY <1>2, <1>3, <1>4, <1>5, <1>6

-----------------------------------------------------------------------------
(* Every step of the broker is a step of its motors or leaves them alone.  *)
LEMMA BankStep ==
  ASSUME NetIInv, [Next]_vars
  PROVE  [Bank!Next]_(Bank!vars)
<1>1. CASE Hardware
  BY <1>1 DEF Hardware, Bank!Next
<1>2. CASE MotorLoops
  BY <1>2 DEF MotorLoops, RescanReturns, Bank!Next, Bank!Scan
<1>3. CASE RescanTimer
  BY <1>3 DEF RescanTimer, Bank!Next
<1>4. ASSUME NEW m \in todo, ReportPosition(m) PROVE [Bank!Next]_(Bank!vars)
  BY <1>4 DEF ReportPosition, SensorFails, Bank!Next, Bank!vars, bank
<1>5. CASE SendReport
  BY <1>5 DEF SendReport, SensorFails, Bank!Next, Bank!vars, bank
<1>6. CASE HandleCall
  <2> DEFINE msg == Head(calls).msg
  <2>1. calls # <<>> /\ Obeyable(msg)
    BY <1>6, TailObeyed DEF HandleCall, NetIInv
  <2>2. CASE msg.type = "set_duty_cycle"
    <3>1. \/ UNCHANGED bank
          \/ msg.device # Garbage /\ Bank!SetDutyCycle(msg.device, msg.duty_cycle)
      BY <1>6, <2>2 DEF HandleCall
    <3>2. msg.device # Garbage => msg.device \in Port /\ msg.duty_cycle \in DutyArg
      BY <2>1, <2>2 DEF Obeyable
    <3> QED BY <3>1, <3>2 DEF Bank!Next, Bank!vars, bank
  <2>3. CASE msg.type # "set_duty_cycle"
    <3>1. UNCHANGED bank \/ Bank!BeginReset
      BY <1>6, <2>3 DEF HandleCall
    <3> QED BY <3>1 DEF Bank!Next, Bank!vars, bank
  <2> QED BY <2>2, <2>3
<1>7. CASE UNCHANGED bank
  BY <1>7 DEF bank, Bank!vars
<1>8. \/ Hardware \/ MotorLoops \/ RescanTimer \/ SendReport \/ HandleCall
      \/ (\E m \in todo : ReportPosition(m))
      \/ UNCHANGED bank
  BY DEF Next, Handler, vars, SensorTimer, HeartbeatTimer, LoseOwn, ReceiveForeign,
         ReceiveOwn, ReceiveFails, Parse, WriteHeartbeat, FlushHeartbeat, ParseReturns
<1> QED BY <1>1, <1>2, <1>3, <1>4, <1>5, <1>6, <1>7, <1>8

-----------------------------------------------------------------------------
(* The handlers that do not rescan run with the motors at rest, and a      *)
(* position is reported only by a broker that has claimed its name.        *)
AtRest == pc \in {"poll", "sensor", "beat", "beaten"} => phase = "idle"

QuietUntilEnabled == ~ enabled => ~ Reporting

Quiet ==
  /\ pc = "sensor" => enabled
  /\ enabled => beats = 5
  /\ QuietUntilEnabled

(* The inductive invariant.                                                *)
ServerIInv == BankFacts!IInv /\ NetIInv /\ TypeOK /\ AtRest /\ Quiet

LEMMA BankTypes ==
  ASSUME BankFacts!IInv PROVE Bank!TypeOK /\ motors \subseteq Bank!Directory
BY SameBankProperties DEF BankFacts!IInv, Bank!TypeOK

LEMMA ServerInit == Init => ServerIInv
<1> SUFFICES ASSUME Init PROVE ServerIInv
  OBVIOUS
<1>1. BankFacts!IInv
  BY SameBank, SameAssumptions, BankFacts!InitInv DEF Init
<1>2. OutFacts!Bounds
  BY SameOut, SameAssumptions, OutFacts!BoundsInit DEF Init
<1>3. calls = <<>> /\ synced = FALSE /\ pc = "start" /\ todo = {} /\ enabled = FALSE
      /\ conflict = FALSE /\ beats = 0 /\ buf = <<>> /\ wire = <<>>
  BY DEF Init, Out!Init
<1>4. NetIInv
  BY <1>2, <1>3, EmptyObeyed DEF NetIInv
<1>5. TypeOK
  <2>1. Bank!TypeOK
    BY <1>1, BankTypes
  <2>2. buf \in Seq(Msg) /\ ptr \in Nat
    BY <1>2 DEF OutFacts!Bounds, OutFacts!TypeOK
  <2>3. /\ synced \in BOOLEAN /\ enabled \in BOOLEAN /\ conflict \in BOOLEAN
        /\ todo \subseteq Bank!Directory
        /\ pc = "start" /\ todo = {} /\ calls = <<>>
    BY <1>3, Zenon
  <2>4. beats \in 0 .. 5
    <3>1. beats = 0
      BY <1>3
    <3> QED BY <3>1
  <2> QED BY <2>1, <2>2, <2>3, <2>4, Zenon DEF TypeOK
<1>6. AtRest
  BY <1>3 DEF AtRest
<1>7. Quiet
  <2>1. DOMAIN <<>> = {}
    OBVIOUS
  <2> QED BY <1>3, <2>1 DEF Quiet, QuietUntilEnabled, Reporting, Positions
<1> QED BY <1>1, <1>4, <1>5, <1>6, <1>7 DEF ServerIInv

(* The local state of the handlers.                                        *)
LEMMA LocalNext ==
  ASSUME TypeOK, AtRest, [Next]_vars, Bank!TypeOK
  PROVE  /\ pc' \in {"start", "poll", "sensor", "rescan", "beat", "beaten", "parse", "done"}
         /\ todo' \subseteq Bank!Directory
         /\ enabled' \in BOOLEAN /\ conflict' \in BOOLEAN
         /\ beats' \in 0 .. 5
         /\ todo' # {} => pc' = "sensor"
         /\ calls' # <<>> => pc' = "parse"
         /\ AtRest'
<1> USE DEF TypeOK, AtRest
<1>1. motors \subseteq Bank!Directory
  BY DEF Bank!TypeOK
<1> HIDE DEF Bank!TypeOK, Bank!Directory
<1>2. CASE Hardware
  BY <1>2 DEF Hardware, local, Bank!Hardware, Bank!Plug, Bank!Unplug
<1>3. CASE MotorLoops
  <2>1. phase # "idle"
    BY <1>3 DEF MotorLoops, RescanReturns, Bank!OpenDir, Bank!Prune, Bank!Probe,
                Bank!EndRescan, Bank!Reset, Bank!ResetOne, Bank!EndReset
  <2>2. pc \in {"start", "rescan", "parse"} /\ pc' \in {pc, "poll"}
    BY <1>3, <2>1 DEF MotorLoops, RescanReturns
  <2>3. pc' # pc => phase' = "idle" /\ pc # "parse"
    BY <1>3 DEF MotorLoops, RescanReturns, Bank!EndRescan
  <2>4. UNCHANGED <<todo, calls, enabled, conflict, beats>>
    BY <1>3 DEF MotorLoops
  <2> QED BY <2>2, <2>3, <2>4
<1>4. CASE SensorTimer
  BY <1>1, <1>4 DEF SensorTimer, bank
<1>5. CASE RescanTimer
  BY <1>5 DEF RescanTimer
<1>6. CASE HeartbeatTimer
  <2>1. /\ pc = "poll" /\ UNCHANGED <<bank, todo, calls, conflict>>
        /\ beats' = IF beats = 5 THEN 5 ELSE beats + 1
        /\ \/ pc' = "done" /\ UNCHANGED enabled
           \/ pc' = "beat" /\ enabled' = (enabled \/ (beats' > 4 /\ ~ conflict))
    BY <1>6 DEF HeartbeatTimer
  <2>2. beats' \in 0 .. 5
    BY <2>1
  <2>3. enabled' \in BOOLEAN
    BY <2>1
  <2> QED BY <2>1, <2>2, <2>3 DEF bank
<1>7. CASE LoseOwn
  BY <1>7 DEF LoseOwn, bank, local
<1>8. ASSUME NEW d, Parse(d) PROVE pc' = "parse" /\ UNCHANGED <<bank, todo, enabled, conflict, beats>>
                                   /\ pc = "poll"
  BY <1>8 DEF Parse
<1>9. CASE ReceiveForeign \/ ReceiveOwn
  BY <1>8, <1>9 DEF ReceiveForeign, ReceiveOwn
<1>10. CASE ReceiveFails
  BY <1>10 DEF ReceiveFails
<1>11. ASSUME NEW m \in todo, ReportPosition(m)
       PROVE  /\ \/ pc' = "sensor" /\ UNCHANGED bank /\ todo' = todo \ {m}
                 \/ pc' = "rescan" /\ todo' = {}
              /\ pc = "sensor" /\ UNCHANGED <<calls, enabled, conflict, beats>>
  BY <1>11 DEF ReportPosition, SensorFails
<1>12. CASE \E m \in todo : ReportPosition(m)
  BY <1>11, <1>12 DEF bank
<1>13. CASE SendReport
  BY <1>13 DEF SendReport, SensorFails, bank
<1>14. CASE WriteHeartbeat
  BY <1>14 DEF WriteHeartbeat, bank
<1>15. CASE FlushHeartbeat
  BY <1>15 DEF FlushHeartbeat, bank
<1>16. CASE HandleCall
  <2>1. /\ pc = "parse" /\ UNCHANGED <<pc, todo, enabled, beats>>
        /\ conflict' = conflict \/ conflict' = (conflict \/ SetsConflict(Head(calls).src))
    BY <1>16 DEF HandleCall
  <2>2. conflict' \in BOOLEAN
    BY <2>1
  <2> QED BY <2>1, <2>2
<1>17. CASE ParseReturns
  BY <1>17 DEF ParseReturns, bank
<1>18. CASE UNCHANGED vars
  BY <1>18 DEF vars, bank, local
<1> QED BY <1>2, <1>3, <1>4, <1>5, <1>6, <1>7, <1>9, <1>10, <1>12, <1>13, <1>14, <1>15,
           <1>16, <1>17, <1>18 DEF Next, Handler

(* The broadcast, once begun, goes on, and only a broker that has begun it *)
(* reports positions.                                                      *)
LEMMA StaysEnabled ==
  ASSUME TypeOK, pc = "sensor" => enabled, [Next]_vars
  PROVE  (enabled => enabled') /\ (pc' = "sensor" => enabled')
<1> USE DEF TypeOK
<1>1. CASE HeartbeatTimer
  BY <1>1 DEF HeartbeatTimer
<1>2. CASE SensorTimer
  BY <1>2 DEF SensorTimer
<1>3. CASE UNCHANGED enabled /\ (pc' = pc \/ pc' # "sensor")
  BY <1>3
<1>4. MotorLoops => UNCHANGED enabled /\ (pc' = pc \/ pc' # "sensor")
  BY DEF MotorLoops, RescanReturns
<1>5. \/ HeartbeatTimer \/ SensorTimer \/ MotorLoops
      \/ UNCHANGED enabled /\ (pc' = pc \/ pc' # "sensor")
  BY DEF Next, Handler, vars, local, Hardware, LoseOwn, RescanTimer, ReceiveForeign,
         ReceiveOwn, ReceiveFails, Parse, ReportPosition, SendReport, SensorFails,
         WriteHeartbeat, FlushHeartbeat, HandleCall, ParseReturns
<1> QED BY <1>1, <1>2, <1>3, <1>4, <1>5

LEMMA BeatsBeforeEnabled ==
  ASSUME beats \in 0 .. 5, enabled \in BOOLEAN, enabled => beats = 5, [Next]_vars
  PROVE  enabled' => beats' = 5
<1>1. CASE HeartbeatTimer
  <2>1. beats' = (IF beats = 5 THEN 5 ELSE beats + 1) /\ beats' \in 0 .. 5
    BY <1>1 DEF HeartbeatTimer
  <2>2. enabled' = enabled \/ enabled' = (enabled \/ (beats' > 4 /\ ~ conflict))
    BY <1>1 DEF HeartbeatTimer
  <2>3. enabled' => enabled \/ beats' > 4
    BY <2>2
  <2> QED BY <2>1, <2>3
<1>2. CASE UNCHANGED <<enabled, beats>>
  BY <1>2
<1>3. HeartbeatTimer \/ UNCHANGED <<enabled, beats>>
  BY DEF Next, Handler, vars, local, Hardware, LoseOwn, SensorTimer, RescanTimer,
         ReceiveForeign, ReceiveOwn, ReceiveFails, Parse, MotorLoops, ReportPosition,
         SendReport, WriteHeartbeat, FlushHeartbeat, HandleCall, ParseReturns
<1> QED BY <1>1, <1>2, <1>3

(* A broker that has heard a namesake too early stays contested.           *)
LEMMA StaysContested ==
  ASSUME TypeOK, Contested, [Next]_vars
  PROVE  Contested'
<1> USE DEF Contested
<1>1. CASE HeartbeatTimer
  BY <1>1 DEF HeartbeatTimer
<1>2. CASE HandleCall
  <2>1. \/ UNCHANGED conflict
        \/ conflict' = (conflict \/ SetsConflict(Head(calls).src))
    BY <1>2 DEF HandleCall
  <2>2. UNCHANGED enabled
    BY <1>2 DEF HandleCall
  <2> QED BY <2>1, <2>2
<1>3. CASE UNCHANGED <<conflict, enabled>>
  BY <1>3
<1>4. HeartbeatTimer \/ HandleCall \/ UNCHANGED <<conflict, enabled>>
  BY DEF Next, Handler, vars, local, Hardware, LoseOwn, SensorTimer, RescanTimer,
         ReceiveForeign, ReceiveOwn, ReceiveFails, Parse, MotorLoops, ReportPosition,
         SendReport, WriteHeartbeat, FlushHeartbeat, ParseReturns
<1> QED BY <1>1, <1>2, <1>3, <1>4

LEMMA SilentAppend ==
  ASSUME NEW s \in Seq(Msg), Positions(s) = {}, NEW m \in Msg, m.type # "position"
  PROVE  Positions(Append(s, m)) = {} /\ Positions(<<m>>) = {}
<1>1. /\ Append(s, m) \in Seq(Msg) /\ DOMAIN Append(s, m) = 1 .. Len(s) + 1
      /\ Len(s) \in Nat /\ DOMAIN s = 1 .. Len(s)
      /\ Append(s, m)[Len(s) + 1] = m /\ \A i \in 1 .. Len(s) : Append(s, m)[i] = s[i]
  BY AppendProperties, LenProperties
<1>2. DOMAIN <<m>> = {1} /\ <<m>>[1] = m
  OBVIOUS
<1> HIDE DEF Msg
<1>3. Positions(Append(s, m)) = {}
  BY <1>1 DEF Positions
<1>4. Positions(<<m>>) = {}
  BY <1>2 DEF Positions
<1> QED BY <1>3, <1>4

LEMMA SilentSend ==
  ASSUME OutFacts!TypeOK, Positions(buf) = {},
         \A i \in DOMAIN wire : Positions(wire[i].msgs) = {},
         \/ wire' = wire
         \/ wire' = Append(wire, [seq |-> sequence, n |-> count, msgs |-> buf])
         \/ Leaves
  PROVE  \A i \in DOMAIN wire' : Positions(wire'[i].msgs) = {}
<1> DEFINE d == [seq |-> sequence, n |-> count, msgs |-> buf]
<1>1. d \in OutFacts!Datagram /\ d.msgs = buf
  BY DEF OutFacts!TypeOK, OutFacts!Datagram
<1>2. wire \in Seq(OutFacts!Datagram)
  BY DEF OutFacts!TypeOK
<1> HIDE DEF d, OutFacts!Datagram, Positions
<1>3. CASE wire' = Append(wire, d)
  <2>1. /\ DOMAIN wire' = 1 .. Len(wire) + 1 /\ DOMAIN wire = 1 .. Len(wire)
        /\ Len(wire) \in Nat /\ wire'[Len(wire) + 1] = d
        /\ \A i \in 1 .. Len(wire) : wire'[i] = wire[i]
    BY <1>1, <1>2, <1>3, AppendProperties, LenProperties
  <2>2. Positions(d.msgs) = {}
    BY <1>1
  <2>3. \A i \in DOMAIN wire' : wire'[i] = d \/ (i \in DOMAIN wire /\ wire'[i] = wire[i])
    BY <2>1
  <2> QED BY <2>2, <2>3, Zenon
<1>4. CASE Leaves
  BY <1>4, LeavesTail
<1>5. CASE wire' = wire
  BY <1>5
<1>6. wire' = wire \/ wire' = Append(wire, d) \/ Leaves
  BY Zenon DEF d
<1> QED BY <1>3, <1>4, <1>5, <1>6, Zenon

LEMMA QuietNext ==
  ASSUME ServerIInv, [Next]_vars
  PROVE  Quiet'
<1>1. OutStep
  BY OutSteps DEF ServerIInv, TypeOK
<1>2. (enabled => enabled') /\ (pc' = "sensor" => enabled')
  BY StaysEnabled DEF ServerIInv, Quiet
<1>3. QuietUntilEnabled'
  <2> SUFFICES ASSUME ~ enabled'
               PROVE  /\ Positions(buf') = {}
                      /\ \A i \in DOMAIN wire' : Positions(wire'[i].msgs) = {}
    BY DEF QuietUntilEnabled, Reporting, Positions
  <2>1. /\ Positions(buf) = {} /\ \A i \in DOMAIN wire : Positions(wire[i].msgs) = {}
        /\ pc # "sensor" /\ OutFacts!TypeOK /\ buf \in Seq(Msg)
    BY <1>2 DEF ServerIInv, NetIInv, OutFacts!Bounds, OutFacts!TypeOK, Quiet,
                QuietUntilEnabled, Reporting
  <2>2. Positions(<<>>) = {}
    <3>1. DOMAIN <<>> = {}
      OBVIOUS
    <3> QED BY <3>1 DEF Positions
  <2>3. ASSUME NEW m \in Msg, Out!Write(m, TRUE), m.type # "position"
        PROVE  /\ buf' \in {Append(buf, m), <<m>>}
               /\ \/ wire' = wire
                  \/ wire' = Append(wire, [seq |-> sequence, n |-> count, msgs |-> buf])
    BY <2>3 DEF Out!Write, Out!WriteFits, Out!WriteFlushes, Out!FlushInto
  <2>4. CASE Out!Flush(TRUE)
    <3>1. /\ buf' = <<>>
          /\ \/ wire' = wire
             \/ wire' = Append(wire, [seq |-> sequence, n |-> count, msgs |-> buf])
      BY <2>4 DEF Out!Flush, Out!FlushInto
    <3> QED BY <2>1, <2>2, <3>1, SilentSend
  <2>5. CASE UNCHANGED out
    BY <2>1, <2>5, SilentSend DEF out
  <2>6. CASE Leaves
    BY <2>1, <2>6, SilentSend DEF Leaves, outbox
  <2>7. ASSUME NEW m \in Msg, Out!Write(m, TRUE), m.type # "position"
        PROVE  /\ Positions(buf') = {}
               /\ \A i \in DOMAIN wire' : Positions(wire'[i].msgs) = {}
    BY <2>1, <2>3, <2>7, SilentAppend, SilentSend
  <2> QED BY <1>1, <2>1, <2>4, <2>5, <2>6, <2>7 DEF OutStep
<1>4. enabled' => beats' = 5
  BY BeatsBeforeEnabled DEF ServerIInv, TypeOK, Quiet
<1> QED BY <1>2, <1>3, <1>4 DEF Quiet

LEMMA ServerNext == ServerIInv /\ [Next]_vars => ServerIInv'
<1> SUFFICES ASSUME ServerIInv, [Next]_vars PROVE ServerIInv'
  OBVIOUS
<1>1. OutStep
  BY OutSteps DEF ServerIInv, TypeOK
<1>2. NetIInv'
  BY <1>1, BoundsNext, CallsNext DEF ServerIInv, NetIInv
<1>3. BankFacts!IInv'
  <2>1. BankFacts!IInv /\ [BankFacts!Next]_(BankFacts!vars)
    BY BankStep, SameBank DEF ServerIInv
  <2> QED BY <2>1, SameAssumptions, BankFacts!NextInv
<1>4. Quiet'
  BY QuietNext
<1>5. TypeOK' /\ AtRest'
  <2>1. Bank!TypeOK
    BY DEF ServerIInv, TypeOK
  <2>2. Bank!TypeOK'
    BY <1>3, SameBankProperties DEF BankFacts!IInv, Bank!TypeOK, BankFacts!TypeOK,
            Bank!Directory, BankFacts!Directory
  <2>3. (buf \in Seq(Msg) /\ ptr \in Nat)' /\ synced' \in BOOLEAN
    BY <1>2 DEF NetIInv, OutFacts!Bounds, OutFacts!TypeOK
  <2> QED BY <2>1, <2>2, <2>3, LocalNext DEF ServerIInv, TypeOK, AtRest, Bank!Directory
<1> QED BY <1>2, <1>3, <1>4, <1>5 DEF ServerIInv

(* Type correctness, with the motors at rest between two handlers.         *)
THEOREM TypeCorrect == Spec => []TypeOK
<1>1. ServerIInv => TypeOK
  BY DEF ServerIInv
<1> QED BY ServerInit, ServerNext, <1>1, PTL DEF Spec

(* A broker reports positions only after four heartbeats, and one that     *)
(* hears a namesake before it has claimed its name never reports any, from *)
(* then on and whatever it receives (main_server.cpp:142-176).             *)
THEOREM QuietBeforeClaim == Spec => ClaimsBeforeReporting
<1>1. ServerIInv => (Reporting => beats = 5)
  BY DEF ServerIInv, Quiet, QuietUntilEnabled
<1>2. ServerIInv /\ Contested => ~ Reporting
  BY DEF ServerIInv, Quiet, QuietUntilEnabled, Contested
<1>3. ServerIInv /\ Contested /\ [Next]_vars => Contested'
  BY StaysContested DEF ServerIInv
<1> QED BY ServerInit, ServerNext, <1>1, <1>2, <1>3, PTL
        DEF Spec, ClaimsBeforeReporting

(* The broker uses its motors as MotorBank specifies, and so whatever is   *)
(* proved of them holds in it.                                             *)
THEOREM UsesMotorBank == Spec => Bank!Spec
<1>1. Init => Bank!Init
  BY DEF Init
<1>2. ServerIInv /\ [Next]_vars => [Bank!Next]_(Bank!vars)
  BY BankStep DEF ServerIInv
<1> QED BY ServerInit, ServerNext, <1>1, <1>2, PTL DEF Spec, Bank!Spec

(* Whatever commands, namesakes, timers and failures come in between, a    *)
(* motor that turns is one the broker can stop.                            *)
THEOREM BrokerStopsMotors == Spec => []Bank!NoRunaway
<1>1. ServerIInv => Bank!NoRunaway
  BY SameBankProperties DEF ServerIInv, BankFacts!IInv
<1> QED BY ServerInit, ServerNext, <1>1, PTL DEF Spec

(* So no two entries of the broker's list share a name, and a command for  *)
(* a listed motor that is plugged in has an effect.                        *)
THEOREM BrokerCommandsMotors == Spec => [](Bank!UniqueNames /\ Bank!ListedObey)
<1>1. ServerIInv => BankFacts!UniqueNames /\ BankFacts!ListedObey
  BY DEF ServerIInv, BankFacts!IInv
<1>2. BankFacts!UniqueNames /\ BankFacts!ListedObey
        => Bank!UniqueNames /\ Bank!ListedObey
  BY DEF Bank!UniqueNames, BankFacts!UniqueNames, Bank!ListedObey,
         BankFacts!ListedObey, Bank!Good, BankFacts!Good,
         Bank!Current, BankFacts!Current, Bank!Dir, BankFacts!Dir
<1> QED BY ServerInit, ServerNext, <1>1, <1>2, PTL DEF Spec

(* A reset asked for by a client leaves every motor of the broker          *)
(* standing, those plugged in or out while it runs included.               *)
THEOREM BrokerResetsAll == Spec => Bank!ResetStopsAll
<1>1. ServerIInv /\ [Next]_vars =>
        [phase = "reset" /\ phase' = "idle" => \A p \in Port : duty[p] = 0]_(Bank!vars)
  <2> SUFFICES ASSUME ServerIInv, [Next]_vars, Bank!vars' # Bank!vars,
                      phase = "reset", phase' = "idle"
               PROVE  \A p \in Port : duty[p] = 0
    OBVIOUS
  <2>1. [BankFacts!Next]_(BankFacts!vars) /\ BankFacts!IInv
    BY BankStep, SameBank DEF ServerIInv
  <2>2. BankFacts!vars' # BankFacts!vars
    BY DEF Bank!vars, BankFacts!vars
  <2> QED BY <2>1, <2>2, SameAssumptions, BankFacts!LastReset
<1> QED BY ServerInit, ServerNext, <1>1, PTL DEF Spec, Bank!ResetStopsAll

-----------------------------------------------------------------------------
(* The buffer holds fewer positions than the count byte can name, and one  *)
(* heartbeat besides: 1280 < 33 + 21 * 255 + 1 in the program.  It may     *)
(* well hold more heartbeats than that.                                    *)
CountSuffices ==
  /\ Size["position"] \in Nat /\ Size["heartbeat"] <= Size["position"]
  /\ BufSize < HeaderSize + Size["position"] * (CountMod - 1) + Size["heartbeat"]

LEMMA Distributes == \A a, n \in Nat : a * (n + 1) = a * n + a
OBVIOUS

LEMMA Monotone ==
  ASSUME NEW a \in Nat, NEW n \in Nat, NEW k \in Nat, k <= n
  PROVE  a * k <= a * n /\ a * k \in Nat /\ a * n \in Nat
<1>1. a * k \in Nat /\ a * n \in Nat /\ a * (n - k) \in Nat
  OBVIOUS
<1>2. a * n = a * k + a * (n - k)
  OBVIOUS
<1> QED BY <1>1, <1>2

(* A heartbeat is the last message of the buffer, and only until it is     *)
(* flushed or the program has ended: all others are positions.             *)
Late == pc \in {"beaten", "done"}

Filled ==
  \/ HeaderSize + Size["position"] * Len(buf) <= ptr
  \/ /\ Late /\ buf # <<>>
     /\ HeaderSize + Size["position"] * (Len(buf) - 1) + Size["heartbeat"] <= ptr

LEMMA OutTypes ==
  ASSUME OutFacts!Bounds
  PROVE  /\ buf \in Seq(Msg) /\ Len(buf) \in Nat /\ ptr \in Nat /\ ptr <= BufSize
         /\ HeaderSize \in Nat /\ BufSize \in Nat /\ CountMod \in Nat /\ CountMod > 1
         /\ Size["heartbeat"] \in Nat
<1>1. /\ OutFacts!SizeAssumption /\ OutFacts!ModAssumption
  BY SameAssumptions
<1>2. [m \in Msg |-> Size[m.type]][Heartbeat] \in Nat
  BY <1>1, MsgTypes DEF OutFacts!SizeAssumption
<1>3. Size["heartbeat"] \in Nat
  BY <1>2, MsgTypes
<1> QED BY <1>1, <1>3
        DEF OutFacts!Bounds, OutFacts!TypeOK, OutFacts!BufferBounds,
            OutFacts!SizeAssumption, OutFacts!ModAssumption

LEMMA FewWaiting ==
  ASSUME CountSuffices, OutFacts!Bounds, Filled
  PROVE  Len(buf) < CountMod
<1> DEFINE sp == Size["position"]  sh == Size["heartbeat"]
<1>1. /\ buf \in Seq(Msg) /\ Len(buf) \in Nat /\ ptr \in Nat /\ ptr <= BufSize
      /\ HeaderSize \in Nat /\ BufSize \in Nat /\ CountMod \in Nat /\ CountMod > 1
      /\ sh \in Nat /\ sp \in Nat /\ sh <= sp
  BY OutTypes DEF CountSuffices
<1>2. BufSize < HeaderSize + sp * (CountMod - 1) + sh
  BY DEF CountSuffices
<1> SUFFICES ASSUME Len(buf) >= CountMod PROVE FALSE
  BY <1>1
<1>3. CASE HeaderSize + sp * Len(buf) <= ptr
  <2>1. sp * CountMod <= sp * Len(buf) /\ sp * Len(buf) \in Nat
    BY <1>1, Monotone
  <2>2. CountMod - 1 \in Nat
    BY <1>1
  <2>3. sp * ((CountMod - 1) + 1) = sp * (CountMod - 1) + sp
    BY <1>1, <2>2, Distributes
  <2>4. sp * CountMod = sp * (CountMod - 1) + sp /\ sp * (CountMod - 1) \in Nat
    BY <1>1, <2>2, <2>3
  <2> HIDE DEF sp, sh
  <2> QED BY <1>1, <1>2, <1>3, <2>1, <2>4
<1>4. CASE HeaderSize + sp * (Len(buf) - 1) + sh <= ptr
  <2>1. CountMod - 1 \in Nat /\ Len(buf) - 1 \in Nat
    BY <1>1
  <2>2. /\ sp * (CountMod - 1) <= sp * (Len(buf) - 1)
        /\ sp * (CountMod - 1) \in Nat /\ sp * (Len(buf) - 1) \in Nat
    BY <1>1, <2>1, Monotone
  <2> HIDE DEF sp, sh
  <2> QED BY <1>1, <1>2, <1>4, <2>2
<1> QED BY <1>3, <1>4 DEF Filled

(* Who writes when: a position before a heartbeat, and nothing after one   *)
(* until it is flushed.                                                    *)
WritesInTurn ==
  \/ UNCHANGED out /\ (Late => Late')
  \/ /\ ~ Late
     /\ \E m \in Msg : Out!Write(m, TRUE) /\ (m.type = "heartbeat" => Late')
  \/ Out!Flush(TRUE)
  \/ Leaves /\ (Late => Late')

LEMMA InTurn ==
  ASSUME TypeOK, AtRest, [Next]_vars
  PROVE  WritesInTurn
<1> USE DEF Late, WritesInTurn
<1>1. CASE Hardware \/ SensorTimer \/ RescanTimer \/ HeartbeatTimer \/ ReceiveFails
  BY <1>1 DEF Hardware, local, SensorTimer, RescanTimer, HeartbeatTimer, ReceiveFails
<1>2. CASE MotorLoops
  <2>1. UNCHANGED out /\ pc # "done"
    BY <1>2 DEF MotorLoops
  <2>2. pc' = pc \/ phase = "probe"
    BY <1>2 DEF MotorLoops, RescanReturns, Bank!EndRescan
  <2>3. pc = "beaten" => phase = "idle"
    BY DEF AtRest
  <2> QED BY <2>1, <2>2, <2>3
<1>3. CASE HandleCall \/ ParseReturns
  BY <1>3 DEF HandleCall, ParseReturns
<1>4. CASE LoseOwn
  BY <1>4 DEF Leaves, outbox, LoseOwn, local
<1>5. CASE ReceiveOwn
  BY <1>5 DEF Leaves, outbox, ReceiveOwn, Parse
<1>6. CASE ReceiveForeign
  BY <1>6 DEF out, ReceiveForeign, Parse
<1>7. ASSUME NEW m \in todo, ReportPosition(m) PROVE WritesInTurn
  <2>1. m.port \in Port
    BY DEF TypeOK, Bank!Directory
  <2>2. PositionOf(m.port) \in Msg /\ PositionOf(m.port).type # "heartbeat"
    BY <2>1 DEF Msg, PositionOf
  <2>3. pc = "sensor" /\ (Out!Write(PositionOf(m.port), TRUE) \/ UNCHANGED out)
    BY <1>7 DEF ReportPosition, Out!WriteThrows, Out!FlushThrows, Out!vars, out
  <2> QED BY <2>2, <2>3
<1>8. CASE SendReport
  BY <1>8 DEF SendReport, Out!FlushThrows, Out!vars, out
<1>9. CASE WriteHeartbeat
  <2>1. \/ Out!Write(Heartbeat, TRUE) /\ pc' = "beaten"
        \/ UNCHANGED out /\ pc' = "done"
    BY <1>9 DEF WriteHeartbeat, Out!WriteThrows, Out!FlushThrows, Out!vars, out
  <2>2. pc = "beat"
    BY <1>9 DEF WriteHeartbeat
  <2> QED BY <2>1, <2>2, MsgTypes
<1>10. CASE FlushHeartbeat
  BY <1>10 DEF FlushHeartbeat, Out!FlushThrows, Out!vars, out
<1>11. CASE UNCHANGED vars
  BY <1>11 DEF vars, local
<1> QED BY <1>1, <1>2, <1>3, <1>4, <1>5, <1>6, <1>7, <1>8, <1>9, <1>10, <1>11
        DEF Next, Handler

LEMMA FilledNext ==
  ASSUME CountSuffices, OutFacts!Bounds, OutFacts!Bounds', Filled, WritesInTurn
  PROVE  Filled'
<1> DEFINE sp == Size["position"]  sh == Size["heartbeat"]
<1>1. /\ buf \in Seq(Msg) /\ Len(buf) \in Nat /\ ptr \in Nat
      /\ HeaderSize \in Nat /\ sh \in Nat /\ sp \in Nat /\ sh <= sp
  BY OutTypes DEF CountSuffices
<1>2. CASE Out!Flush(TRUE)
  <2>1. Len(buf') = 0 /\ ptr' = HeaderSize
    BY <1>1, <1>2 DEF Out!Flush, Out!FlushInto, Out!PtrAfter
  <2>2. sp * 0 = 0
    BY <1>1
  <2> HIDE DEF sp, sh
  <2>3. HeaderSize + sp * Len(buf') <= ptr'
    BY <1>1, <2>1, <2>2
  <2> QED BY <2>3 DEF Filled, sp
<1>3. ASSUME NEW m \in Msg, Out!Write(m, TRUE), ~ Late, m.type = "heartbeat" => Late'
      PROVE  Filled'
  <2> DEFINE sm == [e \in Msg |-> Size[e.type]][m]
  <2>1. sm = sp \/ (sm = sh /\ Late')
    BY <1>3, MsgTypes
  <2>2. HeaderSize + sp * Len(buf) <= ptr
    BY <1>3 DEF Filled
  <2>3. sm \in Nat
    BY <1>1, <2>1
  <2>4. /\ \/ /\ buf' = Append(buf, m) /\ ptr' = ptr + sm
           \/ /\ buf' = <<m>> /\ ptr' = HeaderSize + sm
    BY <1>3 DEF Out!Write, Out!WriteFits, Out!WriteFlushes, Out!FlushInto, Out!PtrAfter
  <2> HIDE DEF sm
  <2>5. PICK k \in Nat : /\ Len(buf') = k + 1 /\ ptr' \in Nat
                         /\ HeaderSize + sp * k + sm <= ptr'
    <3>1. CASE buf' = Append(buf, m) /\ ptr' = ptr + sm
      <4>1. Len(buf') = Len(buf) + 1
        BY <1>1, <3>1
      <4>2. sp * Len(buf) \in Nat
        BY <1>1, Monotone
      <4> HIDE DEF sp, sh
      <4>3. ptr' \in Nat /\ HeaderSize + sp * Len(buf) + sm <= ptr'
        BY <1>1, <2>2, <2>3, <3>1, <4>2 DEF sp
      <4> QED BY <1>1, <4>1, <4>3
    <3>2. CASE buf' = <<m>> /\ ptr' = HeaderSize + sm
      <4>1. Len(buf') = 0 + 1 /\ sp * 0 = 0
        BY <1>1, <3>2
      <4> HIDE DEF sp, sh
      <4>2. ptr' \in Nat /\ HeaderSize + sp * 0 + sm <= ptr'
        BY <1>1, <2>3, <3>2, <4>1
      <4> QED BY <4>1, <4>2
    <3> QED BY <2>4, <3>1, <3>2
  <2>6. sp * k \in Nat /\ sp * (k + 1) = sp * k + sp
    <3>1. sp \in Nat /\ k \in Nat
      BY <1>1
    <3> HIDE DEF sp, sh
    <3> QED BY <3>1, Distributes
  <2>7. CASE sm = sp
    <3> HIDE DEF sp, sh
    <3>1. HeaderSize + sp * Len(buf') <= ptr'
      BY <1>1, <2>5, <2>6, <2>7
    <3> QED BY <3>1 DEF Filled, sp
  <2>8. CASE sm = sh /\ Late'
    <3> HIDE DEF sp, sh
    <3>1. Len(buf') - 1 = k /\ buf' # <<>>
      BY <2>4, <2>5, <1>1
    <3>2. HeaderSize + sp * (Len(buf') - 1) + sh <= ptr'
      BY <2>5, <2>8, <3>1
    <3> QED BY <2>8, <3>1, <3>2 DEF Filled, sp, sh
  <2> QED BY <2>1, <2>7, <2>8
<1>4. CASE UNCHANGED <<buf, ptr>> /\ (Late => Late')
  BY <1>4 DEF Filled
<1>5. (UNCHANGED out \/ Leaves) => UNCHANGED <<buf, ptr>>
  BY DEF out, Leaves, outbox
<1> QED BY <1>2, <1>3, <1>4, <1>5 DEF WritesInTurn

(* The count byte is exact, so what is flushed is announced.               *)
HonestIInv ==
  /\ ServerIInv
  /\ OutFacts!Counted /\ OutFacts!CountAnnounced
  /\ good = TRUE
  /\ Filled

LEMMA AnnouncedNext ==
  ASSUME OutFacts!Bounds, OutFacts!CountAnnounced, count = Len(buf), OutStep
  PROVE  OutFacts!CountAnnounced'
<1>1. CASE UNCHANGED wire
  BY <1>1 DEF OutFacts!CountAnnounced
<1>2. ASSUME NEW rest, NEW used, Out!FlushInto(TRUE, rest, used)
      PROVE  OutFacts!CountAnnounced'
  <2>1. OutFacts!FlushInto(TRUE, rest, used)
    BY <1>2 DEF Out!CallsBack, OutFacts!CallsBack, Out!FlushInto, OutFacts!FlushInto,
                Out!GoodAfter, OutFacts!GoodAfter, Out!CountAfter, OutFacts!CountAfter,
                Out!NextSequence, OutFacts!NextSequence, Out!PtrAfter, OutFacts!PtrAfter
  <2> QED BY <2>1, SameAssumptions, OutFacts!AnnouncedFlush
<1>3. CASE Leaves
  <2>1. OutFacts!TypeOK
    BY DEF OutFacts!Bounds
  <2> QED BY <1>3, <2>1, LeavesTail DEF OutFacts!CountAnnounced
<1>4. CASE Out!Flush(TRUE)
  BY <1>2, <1>4 DEF Out!Flush
<1>5. ASSUME NEW m \in Msg, Out!Write(m, TRUE) PROVE OutFacts!CountAnnounced'
  BY <1>1, <1>2, <1>5 DEF Out!Write, Out!WriteFits, Out!WriteFlushes
<1> QED BY <1>1, <1>3, <1>4, <1>5 DEF OutStep, out

LEMMA HonestNext ==
  ASSUME CountSuffices, HonestIInv, [Next]_vars
  PROVE  HonestIInv'
<1>1. /\ OutStep /\ ServerIInv'
      /\ OutFacts!Bounds /\ OutFacts!Bounds'
  BY OutSteps, ServerNext DEF HonestIInv, ServerIInv, TypeOK, NetIInv
<1>2. good' = TRUE
  BY <1>1 DEF HonestIInv, OutStep, out, Leaves, outbox, Out!Write, Out!WriteFits,
              Out!WriteFlushes, Out!Flush, Out!FlushInto, Out!GoodAfter
<1>3. OutFacts!Counted'
  <2>1. CASE [OutFacts!Next]_(OutFacts!vars)
    BY <2>1, SameAssumptions, OutFacts!CountedNext DEF HonestIInv
  <2>2. CASE Leaves
    <3>1. OutFacts!CountHonest'
      BY <1>1, <2>2, LeavesTail
         DEF HonestIInv, OutFacts!Counted, OutFacts!Bounds, OutFacts!CountHonest
    <3> QED BY <1>1, <2>2, <3>1 DEF HonestIInv, OutFacts!Counted, Leaves, outbox
  <2> QED BY <1>1, <2>1, <2>2, OutNext
<1>4. OutFacts!CountAnnounced'
  <2>1. count = Len(buf)
    BY <1>1, FewWaiting DEF HonestIInv, OutFacts!Counted
  <2> QED BY <1>1, <2>1, AnnouncedNext DEF HonestIInv
<1>5. Filled'
  BY <1>1, InTurn, FilledNext DEF HonestIInv, ServerIInv
<1> QED BY <1>1, <1>2, <1>3, <1>4, <1>5 DEF HonestIInv

(* Whatever ticks fail half-way, each datagram announces what it holds and *)
(* no write leaves the buffer, though more heartbeats may fit the buffer   *)
(* than the count byte can name: one heartbeat at most waits in it, behind *)
(* positions, and of those it holds too few (marshaller.cpp:119).          *)
THEOREM DatagramsAreHonest == CountSuffices => (Spec => []DatagramsHonest)
<1> SUFFICES ASSUME CountSuffices PROVE Spec => []DatagramsHonest
  OBVIOUS
<1>1. Init => HonestIInv
  <2> SUFFICES ASSUME Init PROVE HonestIInv
    OBVIOUS
  <2>1. OutFacts!Counted
    BY SameOut, SameAssumptions, OutFacts!CountedInit DEF Init
  <2>2. buf = <<>> /\ ptr = HeaderSize /\ wire = <<>> /\ good = TRUE
    BY DEF Init, Out!Init
  <2>3. OutFacts!CountAnnounced
    BY <2>2 DEF OutFacts!CountAnnounced
  <2>4. Size["position"] * 0 = 0 /\ HeaderSize \in Nat
    BY <2>1, OutTypes DEF CountSuffices, OutFacts!Counted
  <2>5. Filled
    BY <2>2, <2>4 DEF Filled
  <2> QED BY <2>1, <2>2, <2>3, <2>5, ServerInit DEF HonestIInv
<1>2. HonestIInv /\ [Next]_vars => HonestIInv'
  BY HonestNext
<1>3. HonestIInv => DatagramsHonest
  BY SameOutProperties
     DEF HonestIInv, OutFacts!Counted, OutFacts!Bounds, DatagramsHonest
<1> QED BY <1>1, <1>2, <1>3, PTL DEF Spec
=============================================================================
