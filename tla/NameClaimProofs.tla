--------------------------- MODULE NameClaimProofs ---------------------------
(***************************************************************************)
(* Proofs about NameClaim for any number of brokers, starts, command lines *)
(* and names.                                                              *)
(***************************************************************************)
EXTENDS NameClaim, FiniteSetTheorems, SequenceTheorems, TLAPS

(* What a listener hears of a datagram has its source, and the filter has  *)
(* let that source pass.  A header read early calls nobody: the sequence   *)
(* number is small.                                                        *)
LEMMA HeardFromSource ==
  ASSUME NEW s \in BOOLEAN, NEW b, NEW c, NEW kind,
         NEW i \in DOMAIN Parser(c)!Parse(s, Datagram(b, kind)).calls
  PROVE  /\ Parser(c)!Parse(s, Datagram(b, kind)).calls[i].src = OnWire(b)
         /\ OnWire(b) # SourceId(c)
<1> DEFINE d == Datagram(b, kind)
<1>1. d.src = OnWire(b) /\ d.seq = 0
  BY DEF Datagram
<1>2. ~ s
  <2>1. ASSUME s PROVE FALSE
    <3>1. Parser(c)!Misaligned(d).calls = <<>>
      BY <1>1 DEF Parser!Misaligned, Parser!MisreadCount, Parser!Byte3, Parser!Byte2
    <3>2. Parser(c)!Parse(s, d) = Parser(c)!Misaligned(d)
      BY <2>1 DEF Parser!Parse
    <3> QED BY <3>1, <3>2
  <2> QED BY <2>1
<1>3. Parser(c)!Parse(s, d) = Parser(c)!Aligned(d)
  BY <1>2 DEF Parser!Parse
<1> HIDE DEF d
<1>4. Parser(c)!Filter(d.src)
  BY <1>3 DEF Parser!Aligned, d
<1>5. QED
  BY <1>1, <1>3, <1>4 DEF Parser!Aligned, Parser!Filter, Parser!Call, d

LEMMA ReadableLength ==
  ASSUME NEW b, NEW c, NEW kind
  PROVE  Len(Parser(c)!Readable(Datagram(b, kind))) \in Nat
<1> DEFINE d == Datagram(b, kind)
           read == {k \in 1 .. Len(d.msgs) : Parser(c)!CanRead(d, k)}
<1>1. d.msgs \in Seq({[type |-> kind]}) /\ Len(d.msgs) = 1
  BY DEF Datagram
<1> HIDE DEF d
<1>2. IsFiniteSet(1 .. Len(d.msgs)) /\ read \subseteq 1 .. Len(d.msgs)
  BY <1>1, FS_Interval
<1> HIDE DEF read
<1>3. IsFiniteSet(read)
  BY <1>2, FS_Subset
<1>4. Cardinality(read) \in Nat
  BY <1>3, FS_CardinalityType
<1>5. Parser(c)!Readable(d) = SubSeq(d.msgs, 1, Cardinality(read))
  BY DEF Parser!Readable, read, Parser!Cardinality, Cardinality
<1>6. read \subseteq {1} /\ Cardinality(read) <= 1
  <2>1. read \subseteq {1}
    BY <1>1, <1>2
  <2>2. Cardinality(read) <= Cardinality({1})
    BY <2>1, FS_Subset, FS_Singleton
  <2> QED BY <2>1, <2>2, FS_Singleton
<1>7. SubSeq(d.msgs, 1, Cardinality(read)) \in Seq({[type |-> kind]})
  BY <1>1, <1>4, <1>6
<1> QED BY <1>5, <1>7 DEF d

-----------------------------------------------------------------------------
(* Types.  Ends and the rest of a step that a conflict does not need are   *)
(* done once.                                                              *)
LEMMA InitType == Init => TypeOK
<1> SUFFICES ASSUME Init PROVE TypeOK
  OBVIOUS
<1> DEFINE Kind == {"none", "heartbeat", "position"}
<1>1. beats \in [Broker -> 0 .. 5]
  <2>1. 0 \in 0 .. 5
    OBVIOUS
  <2> QED BY <2>1, Zenon DEF Init
<1>4. lead \in [Broker -> [Broker -> 0 .. 2]]
  <2>1. 0 \in 0 .. 2
    OBVIOUS
  <2> QED BY <2>1, Zenon DEF Init
<1>2. channel \in [Broker -> [Broker -> Kind]]
  <2>1. "none" \in Kind
    OBVIOUS
  <2> HIDE DEF Kind
  <2> QED BY <2>1 DEF Init
<1>3. /\ enabled \in [Broker -> BOOLEAN] /\ conflict \in [Broker -> BOOLEAN]
      /\ synced \in [Broker -> BOOLEAN]
      /\ \A b \in Broker : enabled[b] = FALSE
  BY DEF Init
<1> QED BY <1>1, <1>2, <1>3, <1>4 DEF Init, TypeOK

LEMMA EndsChannel ==
  ASSUME TypeOK, NEW b \in Broker, Ends(b)
  PROVE  channel' \in [Broker -> [Broker -> {"none", "heartbeat", "position"}]]
<1> DEFINE Kind == {"none", "heartbeat", "position"}
           Cleared(c) == [channel[c] EXCEPT ![b] = "none"]
<1>1. ASSUME NEW c \in Broker PROVE Cleared(c) \in [Broker -> Kind]
  <2>1. channel[c] \in [Broker -> Kind] /\ "none" \in Kind
    BY DEF TypeOK
  <2> HIDE DEF Kind
  <2> QED BY <2>1
<1>2. channel' = [c \in Broker |-> Cleared(c)]
  BY DEF Ends
<1> HIDE DEF Cleared
<1> QED BY <1>1, <1>2

LEMMA EndsType == ASSUME TypeOK, NEW b \in Broker, Ends(b) PROVE TypeOK'
<1>1. /\ up' \subseteq Broker /\ missed' \subseteq Broker \X Broker
      /\ beats' \in [Broker -> 0 .. 5]
  BY DEF TypeOK, Ends
<1>2. /\ enabled' \in [Broker -> BOOLEAN] /\ conflict' \in [Broker -> BOOLEAN]
      /\ synced' \in [Broker -> BOOLEAN]
  BY DEF TypeOK, Ends
<1>3. channel' \in [Broker -> [Broker -> {"none", "heartbeat", "position"}]]
  BY EndsChannel
<1>4. lead' \in [Broker -> [Broker -> 0 .. 2]]
  <2>1. ASSUME NEW c \in Broker, NEW d \in Broker
        PROVE (IF b \in {c, d} THEN 0 ELSE lead[c][d]) \in 0 .. 2
    BY DEF TypeOK
  <2> QED BY <2>1 DEF Ends
<1>5. \A c \in Broker : enabled'[c] => c \in up' /\ beats'[c] = 5
  BY DEF TypeOK, Ends
<1> QED BY <1>1, <1>2, <1>3, <1>4, <1>5 DEF TypeOK

LEMMA BroadcastType ==
  ASSUME TypeOK, NEW b \in Broker, NEW kind \in {"heartbeat", "position"},
         Broadcast(b, kind)
  PROVE  channel' \in [Broker -> [Broker -> {"none", "heartbeat", "position"}]]
BY DEF TypeOK, Broadcast

LEMMA BeatType == ASSUME TypeOK, NEW b \in Broker, Beat(b) PROVE TypeOK'
<1>1. up' = up /\ conflict' = conflict /\ synced' = synced /\ missed' = missed
  BY DEF Beat
<1>2. beats' \in [Broker -> 0 .. 5] /\ enabled' \in [Broker -> BOOLEAN]
  <2>1. beats[b] \in 0 .. 5 /\ enabled[b] \in BOOLEAN /\ conflict[b] \in BOOLEAN
    BY DEF TypeOK
  <2>2. (IF beats[b] = 5 THEN 5 ELSE beats[b] + 1) \in 0 .. 5
    BY <2>1
  <2>3. (enabled[b] \/ EnabledAfter(b)) \in BOOLEAN
    BY <2>1 DEF EnabledAfter
  <2> QED BY <2>2, <2>3 DEF Beat, TypeOK
<1>3. channel' \in [Broker -> [Broker -> {"none", "heartbeat", "position"}]]
  BY BroadcastType DEF Beat
<1>4. lead' \in [Broker -> [Broker -> 0 .. 2]]
  <2> DEFINE LeadAfter(c, d) == CASE c = b /\ d \in up \ {b} -> lead[b][d] + 1
                                  [] d = b -> 0
                                  [] OTHER -> lead[c][d]
  <2>1. ASSUME NEW c \in Broker, NEW d \in Broker PROVE LeadAfter(c, d) \in 0 .. 2
    <3>1. lead[c][d] \in 0 .. 2 /\ lead[b][d] \in 0 .. 2
      BY DEF TypeOK
    <3>2. CASE c = b /\ d \in up \ {b}
      <4>1. lead[b][d] < 2
        BY <3>2 DEF Beat, InStep
      <4>2. LeadAfter(c, d) = lead[b][d] + 1
        BY <3>2
      <4> QED BY <3>1, <4>1, <4>2
    <3>3. CASE ~ (c = b /\ d \in up \ {b})
      BY <3>1, <3>3
    <3> QED BY <3>2, <3>3
  <2>2. lead' = [c \in Broker |-> [d \in Broker |-> LeadAfter(c, d)]]
    BY DEF Beat
  <2> HIDE DEF LeadAfter
  <2> QED BY <2>1, <2>2
<1>5. ASSUME NEW c \in Broker, enabled'[c] PROVE c \in up' /\ beats'[c] = 5
  <2>1. CASE c # b
    BY <1>5, <2>1 DEF TypeOK, Beat
  <2>2. CASE c = b
    <3>1. enabled[b] \/ EnabledAfter(b)
      BY <1>5, <2>2 DEF Beat, TypeOK
    <3>2. beats[b] \in 0 .. 5 /\ beats'[b] = IF beats[b] = 5 THEN 5 ELSE beats[b] + 1
      BY DEF Beat, TypeOK
    <3>3. beats'[b] = 5
      BY <3>1, <3>2 DEF EnabledAfter, TypeOK
    <3> QED BY <2>2, <3>3 DEF Beat
  <2> QED BY <2>1, <2>2
<1> QED BY <1>1, <1>2, <1>3, <1>4, <1>5 DEF TypeOK

LEMMA ReceiveType ==
  ASSUME TypeOK, NEW b \in Broker, NEW c \in Broker, Receive(b, c) PROVE TypeOK'
<1> DEFINE result == Parser(c)!Parse(synced[c], Datagram(b, channel[b][c]))
<1>1. result.synced \in BOOLEAN
  <2>1. synced[c] \in BOOLEAN
    BY DEF TypeOK
  <2>2. Parser(c)!Aligned(Datagram(b, channel[b][c])).synced \in BOOLEAN
    <3> DEFINE d == Datagram(b, channel[b][c])
               n == Len(Parser(c)!Readable(d))
    <3>1. d.n = 1
      BY DEF Datagram
    <3>2. (n < 1) \in BOOLEAN
      <4>1. n \in Nat
        BY ReadableLength
      <4> HIDE DEF n
      <4> QED BY <4>1
    <3>3. Parser(c)!Aligned(d).synced \in {TRUE, n < 1}
      BY <3>1 DEF Parser!Aligned
    <3> HIDE DEF n
    <3> QED BY <3>2, <3>3
  <2>3. Parser(c)!Misaligned(Datagram(b, channel[b][c])).synced \in BOOLEAN
    <3>1. Datagram(b, channel[b][c]).seq = 0
      BY DEF Datagram
    <3> QED BY <3>1 DEF Parser!Misaligned, Parser!MisreadCount, Parser!Byte3, Parser!Byte2
  <2> QED BY <2>1, <2>2, <2>3 DEF Parser!Parse
<1>2. /\ synced' = [synced EXCEPT ![c] = result.synced]
      /\ conflict' = [conflict EXCEPT ![c] =
           conflict[c] \/ \E i \in DOMAIN result.calls : SetsConflict(c, result.calls[i])]
      /\ missed' = missed \cup (IF result.calls = <<>> THEN Misses(b, c) ELSE {})
      /\ channel' = [channel EXCEPT ![b][c] = "none"]
      /\ up' = up /\ beats' = beats /\ enabled' = enabled /\ lead' = lead
  BY DEF Receive
<1> HIDE DEF result
<1>3. synced' \in [Broker -> BOOLEAN] /\ conflict' \in [Broker -> BOOLEAN]
  BY <1>1, <1>2 DEF TypeOK
<1>4. missed' \subseteq Broker \X Broker
  BY <1>2 DEF TypeOK, Misses
<1>5. channel' \in [Broker -> [Broker -> {"none", "heartbeat", "position"}]]
  BY <1>2 DEF TypeOK
<1> QED BY <1>2, <1>3, <1>4, <1>5 DEF TypeOK

LEMMA NextType == TypeOK /\ [Next]_vars => TypeOK'
<1> SUFFICES ASSUME TypeOK, [Next]_vars PROVE TypeOK'
  OBVIOUS
<1>1. ASSUME NEW b \in Broker, NEW line, Start(b, line) PROVE TypeOK'
  BY <1>1 DEF Start, TypeOK, own
<1>2. ASSUME NEW b \in Broker, Stop(b) PROVE TypeOK'
  BY <1>2, EndsType DEF Stop
<1>3. ASSUME NEW b \in Broker, Beat(b) PROVE TypeOK'
  BY <1>3, BeatType
<1>4. ASSUME NEW b \in Broker, Abort(b) PROVE TypeOK'
  BY <1>4, EndsType DEF Abort
<1>5. ASSUME NEW b \in Broker, Report(b) PROVE TypeOK'
  BY <1>5, BroadcastType DEF Report, TypeOK, own
<1>6. ASSUME NEW b \in Broker, NEW c \in Broker, Receive(b, c) PROVE TypeOK'
  BY <1>6, ReceiveType
<1>7. ASSUME NEW b \in Broker, NEW c \in Broker, Lose(b, c) PROVE TypeOK'
  BY <1>7 DEF Lose, TypeOK, own, Misses
<1>8. CASE UNCHANGED vars
  BY <1>8 DEF TypeOK, vars, own
<1> QED BY <1>1, <1>2, <1>3, <1>4, <1>5, <1>6, <1>7, <1>8 DEF Next, NextReliable

(* The state of the brokers and of the network keeps its types, and no     *)
(* broker reports before its fifth heartbeat (main_server.cpp:175).        *)
THEOREM TypeCorrect == Spec => []TypeOK
BY InitType, NextType, PTL DEF Spec

-----------------------------------------------------------------------------
(* What makes a conflict real: a datagram on its way is from a broker that *)
(* claimed the name it sends, at the port of the broker it goes to, and    *)
(* only a broker that runs has heard of a conflict.                        *)
Claim(b) == [broker |-> b, name |-> name[b], port |-> port[b]]

Settings ==
  /\ name = [b \in Broker |-> name[b]]
  /\ port = [b \in Broker |-> port[b]]

Claimed == \A b \in up : Claim(b) \in used

SentByClaimant ==
  \A b, c \in Broker : channel[b][c] # "none" =>
    c \in up /\ [broker |-> b, name |-> name[b], port |-> port[c]] \in used

ConflictIInv ==
  /\ Settings /\ Claimed /\ SentByClaimant
  /\ \A b \in Broker : conflict[b] => b \in up
  /\ ConflictIsReal

LEMMA ConflictInit == Init => ConflictIInv
<1> SUFFICES ASSUME Init PROVE ConflictIInv
  OBVIOUS
<1>1. Settings
  BY DEF Init, Settings
<1>2. Claimed /\ SentByClaimant
  BY DEF Init, Claimed, SentByClaimant
<1>3. \A b \in Broker : ~ conflict[b]
  BY DEF Init
<1> QED BY <1>1, <1>2, <1>3 DEF ConflictIInv, ConflictIsReal

(* A datagram is sent by a broker that runs, to those at its port.         *)
LEMMA BroadcastClaimed ==
  ASSUME TypeOK, ConflictIInv, NEW b \in up, NEW kind, Broadcast(b, kind),
         UNCHANGED <<up, name, port, used>>
  PROVE  SentByClaimant'
<1> SUFFICES ASSUME NEW c \in Broker, NEW d \in Broker, channel'[c][d] # "none"
             PROVE  d \in up /\ [broker |-> c, name |-> name[c], port |-> port[d]] \in used
  BY DEF SentByClaimant
<1>1. b \in Broker
  BY DEF TypeOK
<1>2. CASE c = b
  <2>1. Hears(b, d)
    BY <1>1, <1>2 DEF Broadcast, TypeOK
  <2> QED BY <1>2, <2>1 DEF Hears, ConflictIInv, Claimed, Claim
<1>3. CASE c # b
  <2>1. channel'[c] = channel[c]
    BY <1>1, <1>3 DEF Broadcast, TypeOK
  <2> QED BY <2>1 DEF ConflictIInv, SentByClaimant
<1> QED BY <1>2, <1>3

LEMMA StartReal ==
  ASSUME TypeOK, ConflictIInv, NEW b \in Broker, NEW line, Start(b, line)
  PROVE  ConflictIInv'
<1>1. /\ b \notin up /\ ~ conflict[b] /\ AllArrived(b)
      /\ up' = up \cup {b} /\ conflict' = conflict /\ channel' = channel
      /\ used' = used \cup {Claim(b)'}
  BY DEF Start, ConflictIInv, own, Claim
<1>2. Settings'
  BY DEF Start, ConflictIInv, Settings
<1>3. \A c \in Broker \ {b} : name'[c] = name[c] /\ port'[c] = port[c]
  BY DEF Start, ConflictIInv, Settings
<1>4. Claimed'
  BY <1>1, <1>3 DEF ConflictIInv, Claimed, Claim, TypeOK
<1>5. SentByClaimant'
  <2> SUFFICES ASSUME NEW c \in Broker, NEW d \in Broker, channel[c][d] # "none"
               PROVE  d \in up' /\ [broker |-> c, name |-> name'[c], port |-> port'[d]] \in used'
    BY <1>1 DEF SentByClaimant
  <2>1. c # b
    BY <1>1 DEF AllArrived
  <2>2. d # b
    BY <1>1 DEF ConflictIInv, SentByClaimant
  <2> QED BY <1>1, <1>3, <2>1, <2>2 DEF ConflictIInv, SentByClaimant
<1>6. \A c \in Broker : conflict'[c] => c \in up'
  BY <1>1 DEF ConflictIInv
<1>7. ConflictIsReal'
  <2> SUFFICES ASSUME NEW c \in Broker, conflict[c]
               PROVE  \E u \in used' : /\ u.broker # c /\ u.port = port'[c]
                                      /\ Cut(u.name) = name'[c]
    BY <1>1 DEF ConflictIsReal, Cut
  <2>1. c # b
    BY <1>1
  <2> QED BY <1>1, <1>3, <2>1 DEF ConflictIInv, ConflictIsReal
<1> QED BY <1>2, <1>4, <1>5, <1>6, <1>7 DEF ConflictIInv

LEMMA EndsReal ==
  ASSUME TypeOK, ConflictIInv, NEW b \in Broker, Ends(b)
  PROVE  ConflictIInv'
<1>1. /\ up' = up \ {b} /\ name' = name /\ port' = port /\ used' = used
      /\ conflict' = [conflict EXCEPT ![b] = FALSE]
  BY DEF Ends, told
<1>2. SentByClaimant'
  <2> SUFFICES ASSUME NEW c \in Broker, NEW d \in Broker, channel'[c][d] # "none"
               PROVE  d \in up' /\ [broker |-> c, name |-> name[c], port |-> port[d]] \in used
    BY <1>1 DEF SentByClaimant
  <2>1. channel'[c] = [channel[c] EXCEPT ![b] = "none"]
    BY DEF Ends
  <2>2. d # b /\ channel[c][d] # "none"
    BY <2>1 DEF TypeOK
  <2> QED BY <1>1, <2>2 DEF ConflictIInv, SentByClaimant
<1>3. \A c \in Broker : conflict'[c] => c # b /\ conflict[c]
  BY <1>1 DEF TypeOK
<1>4. Settings' /\ Claimed'
  BY <1>1 DEF ConflictIInv, Settings, Claimed, Claim
<1>5. ConflictIsReal'
  BY <1>1, <1>3 DEF ConflictIInv, ConflictIsReal, Cut
<1> QED BY <1>1, <1>2, <1>3, <1>4, <1>5 DEF ConflictIInv

(* The filter compares names and hashes, the listener names: what it takes *)
(* for a conflict has the own name and so another hash.                    *)
LEMMA ReceiveReal ==
  ASSUME TypeOK, ConflictIInv, NEW b \in Broker, NEW c \in Broker, Receive(b, c)
  PROVE  ConflictIInv'
<1> DEFINE result == Parser(c)!Parse(synced[c], Datagram(b, channel[b][c]))
<1>1. /\ c \in up /\ channel[b][c] # "none"
      /\ conflict' = [conflict EXCEPT ![c] =
           conflict[c] \/ \E i \in DOMAIN result.calls : SetsConflict(c, result.calls[i])]
      /\ channel' = [channel EXCEPT ![b][c] = "none"]
      /\ up' = up /\ name' = name /\ port' = port /\ used' = used
  BY DEF Receive, told
<1>2. ASSUME NEW i \in DOMAIN result.calls, SetsConflict(c, result.calls[i])
      PROVE  b # c /\ Cut(name[b]) = name[c]
  <2>1. synced[c] \in BOOLEAN
    BY DEF TypeOK
  <2>2. result.calls[i].src = OnWire(b) /\ OnWire(b) # SourceId(c)
    BY <2>1, HeardFromSource
  <2> QED BY <1>2, <2>2 DEF SetsConflict, OnWire, SourceId
<1> HIDE DEF result
<1>3. [broker |-> b, name |-> name[b], port |-> port[c]] \in used
  BY <1>1 DEF ConflictIInv, SentByClaimant
<1>4. \A d \in Broker : conflict'[d] =>
        conflict[d] \/ (d = c /\ b # c /\ Cut(name[b]) = name[c])
  BY <1>1, <1>2 DEF TypeOK
<1>5. ConflictIsReal'
  <2> SUFFICES ASSUME NEW d \in Broker, conflict'[d]
               PROVE  \E u \in used : /\ u.broker # d /\ u.port = port[d]
                                     /\ Cut(u.name) = name[d]
    BY <1>1 DEF ConflictIsReal, Cut
  <2>1. CASE conflict[d]
    BY <2>1 DEF ConflictIInv, ConflictIsReal
  <2>2. CASE d = c /\ b # c /\ Cut(name[b]) = name[c]
    BY <1>3, <2>2
  <2> QED BY <1>4, <2>1, <2>2
<1>6. SentByClaimant'
  BY <1>1 DEF ConflictIInv, SentByClaimant, TypeOK
<1>7. \A d \in Broker : conflict'[d] => d \in up'
  BY <1>1, <1>4 DEF ConflictIInv
<1> QED BY <1>1, <1>5, <1>6, <1>7 DEF ConflictIInv, Settings, Claimed, Claim

LEMMA ConflictNext == TypeOK /\ ConflictIInv /\ [Next]_vars => ConflictIInv'
<1> SUFFICES ASSUME TypeOK, ConflictIInv, [Next]_vars PROVE ConflictIInv'
  OBVIOUS
<1>1. ASSUME NEW b \in Broker, NEW line, Start(b, line) PROVE ConflictIInv'
  BY <1>1, StartReal
<1>2. ASSUME NEW b \in Broker, Stop(b) PROVE ConflictIInv'
  BY <1>2, EndsReal DEF Stop
<1>3. ASSUME NEW b \in Broker, Abort(b) PROVE ConflictIInv'
  BY <1>3, EndsReal DEF Abort
<1>4. ASSUME NEW b \in up, NEW kind, Broadcast(b, kind),
             UNCHANGED <<up, name, port, conflict, used>>
      PROVE  ConflictIInv'
  <2>1. SentByClaimant'
    BY <1>4, BroadcastClaimed
  <2> QED BY <1>4, <2>1 DEF ConflictIInv, Settings, Claimed, Claim, ConflictIsReal, Cut
<1>5. ASSUME NEW b \in Broker, Beat(b) PROVE ConflictIInv'
  BY <1>4, <1>5 DEF Beat, told
<1>6. ASSUME NEW b \in Broker, Report(b) PROVE ConflictIInv'
  BY <1>4, <1>6 DEF Report, told, own
<1>7. ASSUME NEW b \in Broker, NEW c \in Broker, Receive(b, c) PROVE ConflictIInv'
  BY <1>7, ReceiveReal
<1>8. ASSUME NEW b \in Broker, NEW c \in Broker, Lose(b, c) PROVE ConflictIInv'
  <2>1. channel' = [channel EXCEPT ![b][c] = "none"]
        /\ UNCHANGED <<up, name, port, conflict, used>>
    BY <1>8 DEF Lose, told, own
  <2> QED BY <2>1 DEF ConflictIInv, Settings, Claimed, Claim, SentByClaimant,
                      ConflictIsReal, Cut, TypeOK
<1>9. CASE UNCHANGED vars
  BY <1>9 DEF vars, told, own, ConflictIInv, Settings, Claimed, Claim,
              SentByClaimant, ConflictIsReal, Cut
<1> QED BY <1>1, <1>2, <1>3, <1>5, <1>6, <1>7, <1>8, <1>9 DEF Next, NextReliable

(* A broker sees a conflict only when another one has claimed its name at  *)
(* its port (main_server.cpp:48-52, 81-84), whatever is lost and whoever   *)
(* is restarted: its own heartbeats never abort it.                        *)
THEOREM ConflictsAreReal == Spec => []ConflictIsReal
<1>1. TypeOK /\ ConflictIInv /\ [Next]_vars => (TypeOK /\ ConflictIInv)'
  BY NextType, ConflictNext
<1>2. Init => TypeOK /\ ConflictIInv
  BY InitType, ConflictInit
<1>3. TypeOK /\ ConflictIInv => ConflictIsReal
  BY DEF ConflictIInv
<1> QED BY <1>1, <1>2, <1>3, PTL DEF Spec
-----------------------------------------------------------------------------
(* A heartbeat of another broker is heard by a parser that has not kept    *)
(* the sync word.                                                          *)
LEMMA HeartbeatHeard ==
  ASSUME NEW b, NEW c, OnWire(b) # SourceId(c)
  PROVE  \E i \in DOMAIN Parser(c)!Parse(FALSE, Datagram(b, "heartbeat")).calls :
           /\ Parser(c)!Parse(FALSE, Datagram(b, "heartbeat")).calls[i].src = OnWire(b)
           /\ Parser(c)!Parse(FALSE, Datagram(b, "heartbeat")).calls[i].msg.type = "heartbeat"
<1> DEFINE d == Datagram(b, "heartbeat")
           m == [type |-> "heartbeat"]
           read == {k \in 1 .. Len(d.msgs) : Parser(c)!CanRead(d, k)}
<1>1. d.src = OnWire(b) /\ d.n = 1 /\ d.msgs = <<m>> /\ Len(d.msgs) = 1
  BY DEF Datagram
<1>2. m.type = "heartbeat"
  OBVIOUS
<1> HIDE DEF m, d
<1>3. read = {1}
  <2>1. Parser(c)!CanRead(d, 1)
    BY <1>1, <1>2 DEF Parser!CanRead, Parser!Types
  <2> QED BY <1>1, <2>1
<1>4. Cardinality(read) = 1
  BY <1>3, FS_Singleton
<1>5. Len(Parser(c)!Readable(d)) = 1 /\ Parser(c)!Readable(d)[1] = m
  <2>1. Parser(c)!Readable(d) = SubSeq(d.msgs, 1, 1)
    BY <1>1, <1>4 DEF Parser!Readable, Parser!Cardinality, Cardinality
  <2>2. d.msgs \in Seq({m}) /\ Len(d.msgs) = 1 /\ d.msgs[1] = m
    BY <1>1
  <2>3. Len(SubSeq(d.msgs, 1, 1)) = 1 /\ SubSeq(d.msgs, 1, 1)[1] = m
    BY <2>2
  <2> QED BY <2>1, <2>3
<1> DEFINE msgs == Parser(c)!Readable(d)
           calls == Parser(c)!Parse(FALSE, d).calls
<1>6. calls = [i \in 1 .. Len(msgs) |-> Parser(c)!Call(d.src, msgs[i])]
  <2>1. Parser(c)!Filter(d.src)
    BY <1>1 DEF Parser!Filter
  <2> QED BY <2>1 DEF Parser!Parse, Parser!Aligned
<1>7. Parser(c)!Call(d.src, msgs[1]).src = OnWire(b)
      /\ Parser(c)!Call(d.src, msgs[1]).msg.type = "heartbeat"
  BY <1>1, <1>2, <1>5 DEF Parser!Call
<1>8. 1 \in DOMAIN calls /\ calls[1] = Parser(c)!Call(d.src, msgs[1])
  <2> HIDE DEF calls, msgs
  <2>1. Len(msgs) = 1
    BY <1>5 DEF msgs
  <2> QED BY <1>6, <2>1
<1>9. \E i \in DOMAIN calls :
        calls[i].src = OnWire(b) /\ calls[i].msg.type = "heartbeat"
  <2> HIDE DEF calls, msgs
  <2> QED BY <1>7, <1>8
<1> QED BY <1>9 DEF d

(* Of two brokers of one name that run and have missed no heartbeat of     *)
(* each other, the later one is not enabled, and knows of the conflict,    *)
(* or has the other's heartbeat on its way, or the other has sent none     *)
(* yet.  x has sent at most two heartbeats before that of y, and at most   *)
(* two since, so it is short of its fifth.                                 *)
Undecided(x, y) ==
  /\ ~ enabled[x]
  /\ \/ conflict[x]
     \/ beats[x] <= lead[x][y]
     \/ channel[y][x] = "heartbeat" /\ beats[x] <= lead[x][y] + 2

Rivals(b, c) ==
  /\ b \in up /\ c \in up /\ b # c
  /\ SameName(b, c) /\ name[b] \notin DOMAIN Long

Missed(b, c) == <<b, c>> \in missed \/ <<c, b>> \in missed

OneIsLater ==
  \A b, c \in Broker : Rivals(b, c) =>
    Missed(b, c) \/ Undecided(b, c) \/ Undecided(c, b)

(* What is left of a broker that does not run.                             *)
Fresh ==
  /\ \A b, c \in Broker : lead[b][c] # 0 => b \in up /\ c \in up
  /\ \A b \in Broker : b \notin up => beats[b] = 0

ClaimInv == TypeOK /\ ConflictIInv /\ Fresh /\ OneIsLater

LEMMA FreshNext == TypeOK /\ Fresh /\ [Next]_vars => Fresh'
<1> SUFFICES ASSUME TypeOK, Fresh, [Next]_vars PROVE Fresh'
  OBVIOUS
<1>1. CASE up \subseteq up' /\ lead' = lead /\ beats' = beats
  BY <1>1 DEF Fresh
<1>2. ASSUME NEW b \in Broker, Ends(b) PROVE Fresh'
  <2>1. /\ up' = up \ {b} /\ beats' = [beats EXCEPT ![b] = 0]
        /\ lead' = [c \in Broker |-> [d \in Broker |->
                     IF b \in {c, d} THEN 0 ELSE lead[c][d]]]
    BY <1>2 DEF Ends
  <2>2. \A c \in Broker : c \notin up' => beats'[c] = 0
    BY <2>1 DEF Fresh, TypeOK
  <2>3. \A c, d \in Broker : lead'[c][d] # 0 => c \in up' /\ d \in up'
    BY <2>1 DEF Fresh
  <2> QED BY <2>2, <2>3 DEF Fresh
<1>3. ASSUME NEW b \in Broker, Beat(b) PROVE Fresh'
  <2>1. /\ up' = up /\ b \in up
        /\ \A c \in Broker \ {b} : beats'[c] = beats[c]
        /\ lead' = [c \in Broker |-> [d \in Broker |->
                     CASE c = b /\ d \in up \ {b} -> lead[b][d] + 1
                       [] d = b -> 0
                       [] OTHER -> lead[c][d]]]
    BY <1>3 DEF Beat, TypeOK
  <2>2. \A c \in Broker : c \notin up' => beats'[c] = 0
    BY <2>1 DEF Fresh
  <2>3. ASSUME NEW c \in Broker, NEW d \in Broker, lead'[c][d] # 0
        PROVE  c \in up' /\ d \in up'
    <3>1. CASE c = b /\ d \in up \ {b}
      BY <2>1, <3>1
    <3>2. CASE ~ (c = b /\ d \in up \ {b})
      <4>1. lead'[c][d] = IF d = b THEN 0 ELSE lead[c][d]
        BY <2>1, <3>2
      <4> QED BY <2>1, <2>3, <4>1 DEF Fresh
    <3> QED BY <3>1, <3>2
  <2> QED BY <2>2, <2>3 DEF Fresh
<1> QED BY <1>1, <1>2, <1>3
        DEF Next, NextReliable, vars, own, Start, Stop, Abort, Report, Receive, Lose

(* Steps that leave the two brokers and what is between them alone.        *)
LEMMA Unconcerned ==
  ASSUME OneIsLater, NEW b \in Broker, NEW c \in Broker, Rivals(b, c),
         Missed(b, c) => Missed(b, c)',
         /\ beats'[b] = beats[b] /\ beats'[c] = beats[c]
         /\ enabled'[b] = enabled[b] /\ enabled'[c] = enabled[c]
         /\ (conflict[b] => conflict'[b]) /\ (conflict[c] => conflict'[c])
         /\ lead'[b][c] = lead[b][c] /\ lead'[c][b] = lead[c][b],
         channel[b][c] = "heartbeat" =>
           channel'[b][c] = "heartbeat" \/ conflict'[c] \/ Missed(b, c)',
         channel[c][b] = "heartbeat" =>
           channel'[c][b] = "heartbeat" \/ conflict'[b] \/ Missed(b, c)'
  PROVE  Missed(b, c)' \/ Undecided(b, c)' \/ Undecided(c, b)'
<1>1. CASE Missed(b, c)
  BY <1>1 DEF Missed
<1>2. CASE Undecided(b, c)
  BY <1>2 DEF Undecided
<1>3. CASE Undecided(c, b)
  BY <1>3 DEF Undecided
<1> QED BY <1>1, <1>2, <1>3 DEF OneIsLater

(* A heartbeat of b brings the later one of the two nearer to a decision.  *)
LEMMA BeatUndecided ==
  ASSUME TypeOK, NEW x \in Broker, NEW y \in Broker, Rivals(x, y),
         Undecided(x, y), NEW b \in {x, y}, Beat(b)
  PROVE  Undecided(x, y)'
<1>1. /\ x \in up /\ y \in up /\ x # y /\ port[x] = port[y]
      /\ AllArrived(b) /\ InStep(b) /\ ~ Aborts(b)
      /\ conflict' = conflict
      /\ beats[x] \in 0 .. 5 /\ lead[x][y] \in 0 .. 2
      /\ beats'[x] = IF b = x THEN (IF beats[x] = 5 THEN 5 ELSE beats[x] + 1)
                              ELSE beats[x]
      /\ enabled'[x] = IF b = x THEN enabled[x] \/ EnabledAfter(x) ELSE enabled[x]
  BY DEF TypeOK, Rivals, SameName, Beat
<1>2. CASE b = y
  <2>1. lead'[x][y] = 0
    BY <1>1, <1>2 DEF Beat
  <2>2. channel'[y][x] = "heartbeat"
    BY <1>1, <1>2 DEF Beat, Broadcast, Hears, TypeOK
  <2>3. channel[y][x] # "heartbeat"
    BY <1>1, <1>2 DEF AllArrived
  <2>4. conflict[x] \/ beats[x] <= 2
    BY <1>1, <2>3 DEF Undecided
  <2>5. beats'[x] = beats[x] /\ enabled'[x] = enabled[x]
    BY <1>1, <1>2
  <2>6. conflict'[x] \/ beats'[x] <= lead'[x][y] + 2
    BY <1>1, <2>1, <2>4, <2>5
  <2> QED BY <2>2, <2>5, <2>6 DEF Undecided
<1>3. CASE b = x
  <2>1. lead[x][y] < 2 /\ lead'[x][y] = lead[x][y] + 1
    <3>1. y \in up \ {x}
      BY <1>1
    <3> QED BY <1>3, <3>1 DEF Beat, InStep
  <2>2. channel'[y] = channel[y]
    BY <1>1, <1>3 DEF Beat, Broadcast, TypeOK
  <2>3. ~ conflict[x] /\ ~ enabled[x]
    BY <1>1, <1>3 DEF Aborts, Undecided
  <2>4. beats[x] <= 3 /\ beats'[x] = beats[x] + 1
    <3>1. beats[x] <= lead[x][y] + 2
      BY <1>1, <2>3 DEF Undecided
    <3>2. beats[x] <= 3
      BY <1>1, <2>1, <3>1
    <3> QED BY <1>1, <1>3, <3>2
  <2>5. ~ enabled'[x]
    <3>1. ~ (beats[x] + 1 > 4)
      BY <1>1, <2>4
    <3> QED BY <1>1, <1>3, <2>3, <3>1 DEF EnabledAfter
  <2>6. \/ beats'[x] <= lead'[x][y]
        \/ channel'[y][x] = "heartbeat" /\ beats'[x] <= lead'[x][y] + 2
    BY <1>1, <2>1, <2>2, <2>3, <2>4 DEF Undecided
  <2> QED BY <2>5, <2>6 DEF Undecided
<1> QED BY <1>2, <1>3

(* A heartbeat that arrives at a broker of its name is a conflict, unless  *)
(* the parser was out of step with the datagrams.                          *)
LEMMA ReceiveDecides ==
  ASSUME TypeOK, NEW y \in Broker, NEW x \in Broker, Rivals(y, x),
         channel[y][x] = "heartbeat", Receive(y, x)
  PROVE  conflict'[x] \/ <<y, x>> \in missed'
<1> DEFINE result == Parser(x)!Parse(synced[x], Datagram(y, channel[y][x]))
<1>1. /\ conflict' = [conflict EXCEPT ![x] =
           conflict[x] \/ \E i \in DOMAIN result.calls : SetsConflict(x, result.calls[i])]
      /\ missed' = missed \cup (IF result.calls = <<>> THEN Misses(y, x) ELSE {})
  BY DEF Receive
<1>2. OnWire(y) # SourceId(x) /\ OnWire(y).name = name[x] /\ y # x
  BY DEF Rivals, SameName, OnWire, SourceId, Cut
<1>3. CASE synced[x]
  <2>1. result.calls = <<>>
    <3>1. Datagram(y, channel[y][x]).seq = 0
      BY DEF Datagram
    <3>2. Parser(x)!MisreadCount(Datagram(y, channel[y][x])) = 0
      BY <3>1 DEF Parser!MisreadCount, Parser!Byte3, Parser!Byte2
    <3> QED BY <1>3, <3>2 DEF Parser!Parse, Parser!Misaligned
  <2> HIDE DEF result
  <2> QED BY <1>1, <1>2, <2>1 DEF Misses
<1>4. CASE ~ synced[x]
  <2>0. synced[x] = FALSE
    BY <1>4 DEF TypeOK
  <2>1. PICK i \in DOMAIN result.calls :
          result.calls[i].src = OnWire(y) /\ result.calls[i].msg.type = "heartbeat"
    BY <1>2, <2>0, HeartbeatHeard
  <2>2. SetsConflict(x, result.calls[i])
    BY <1>2, <2>1 DEF SetsConflict
  <2> HIDE DEF result
  <2> QED BY <1>1, <2>1, <2>2 DEF TypeOK
<1> QED BY <1>3, <1>4

LEMMA LaterStart ==
  ASSUME TypeOK, ConflictIInv, Fresh, OneIsLater, NEW b \in Broker, NEW line,
         Start(b, line)
  PROVE  OneIsLater'
<1>1. /\ b \notin up /\ up' = up \cup {b}
      /\ beats' = beats /\ enabled' = enabled /\ conflict' = conflict
      /\ lead' = lead /\ channel' = channel /\ missed' = missed
      /\ \A c \in Broker \ {b} : name'[c] = name[c] /\ port'[c] = port[c]
  BY DEF Start, own, ConflictIInv, Settings
<1> SUFFICES ASSUME NEW x \in Broker, NEW y \in Broker, Rivals(x, y)'
             PROVE  Missed(x, y)' \/ Undecided(x, y)' \/ Undecided(y, x)'
  BY DEF OneIsLater
<1>2. /\ ~ enabled[b] /\ beats[b] = 0
      /\ \A c \in Broker : lead[b][c] \in 0 .. 2
  BY <1>1 DEF TypeOK, Fresh
<1>3. CASE x = b
  BY <1>1, <1>2, <1>3 DEF Undecided
<1>4. CASE y = b
  BY <1>1, <1>2, <1>4 DEF Undecided
<1>5. CASE x # b /\ y # b
  <2>1. Rivals(x, y)
    BY <1>1, <1>5 DEF Rivals, SameName
  <2> QED BY <1>1, <2>1, Unconcerned DEF Missed
<1> QED BY <1>3, <1>4, <1>5

LEMMA LaterEnds ==
  ASSUME TypeOK, OneIsLater, NEW b \in Broker, Ends(b)
  PROVE  OneIsLater'
<1> SUFFICES ASSUME NEW x \in Broker, NEW y \in Broker, Rivals(x, y)'
             PROVE  Missed(x, y)' \/ Undecided(x, y)' \/ Undecided(y, x)'
  BY DEF OneIsLater
<1>1. up' = up \ {b} /\ name' = name /\ port' = port
  BY DEF Ends, told
<1>2. x # b /\ y # b /\ Rivals(x, y)
  BY <1>1 DEF Rivals, SameName
<1>3. /\ beats'[x] = beats[x] /\ beats'[y] = beats[y]
      /\ enabled'[x] = enabled[x] /\ enabled'[y] = enabled[y]
      /\ conflict'[x] = conflict[x] /\ conflict'[y] = conflict[y]
  BY <1>2 DEF Ends, TypeOK
<1>4. lead'[x][y] = lead[x][y] /\ lead'[y][x] = lead[y][x]
  BY <1>2 DEF Ends
<1>5. channel'[x][y] = channel[x][y] /\ channel'[y][x] = channel[y][x]
  <2>1. /\ channel'[x] = [channel[x] EXCEPT ![b] = "none"]
        /\ channel'[y] = [channel[y] EXCEPT ![b] = "none"]
    BY DEF Ends
  <2> QED BY <1>2, <2>1 DEF TypeOK
<1>6. Missed(x, y) => Missed(x, y)'
  BY <1>2 DEF Missed, Ends
<1> QED BY <1>2, <1>3, <1>4, <1>5, <1>6, Unconcerned

LEMMA LaterBeat ==
  ASSUME TypeOK, OneIsLater, NEW b \in Broker, Beat(b)
  PROVE  OneIsLater'
<1> SUFFICES ASSUME NEW x \in Broker, NEW y \in Broker, Rivals(x, y)'
             PROVE  Missed(x, y)' \/ Undecided(x, y)' \/ Undecided(y, x)'
  BY DEF OneIsLater
<1>1. Rivals(x, y) /\ Rivals(y, x)
  BY DEF Rivals, SameName, Beat, told
<1>2. CASE b \in {x, y}
  <2>1. Undecided(x, y) => Undecided(x, y)'
    BY <1>1, <1>2, BeatUndecided
  <2>2. Undecided(y, x) => Undecided(y, x)'
    BY <1>1, <1>2, BeatUndecided
  <2>3. Missed(x, y) => Missed(x, y)'
    BY DEF Missed, Beat
  <2> QED BY <1>1, <2>1, <2>2, <2>3 DEF OneIsLater
<1>3. CASE b \notin {x, y}
  <2>1. /\ beats'[x] = beats[x] /\ beats'[y] = beats[y]
        /\ enabled'[x] = enabled[x] /\ enabled'[y] = enabled[y]
        /\ conflict' = conflict /\ missed' = missed
    BY <1>3 DEF Beat, TypeOK
  <2>2. lead'[x][y] = lead[x][y] /\ lead'[y][x] = lead[y][x]
    BY <1>3 DEF Beat
  <2>3. channel'[x] = channel[x] /\ channel'[y] = channel[y]
    BY <1>3 DEF Beat, Broadcast, TypeOK
  <2> QED BY <1>1, <2>1, <2>2, <2>3, Unconcerned DEF Missed
<1> QED BY <1>2, <1>3

(* A report waits, as a heartbeat does, until the last datagram of its     *)
(* broker has arrived.                                                     *)
LEMMA LaterReport ==
  ASSUME TypeOK, OneIsLater, NEW b \in Broker, Report(b)
  PROVE  OneIsLater'
<1> SUFFICES ASSUME NEW x \in Broker, NEW y \in Broker, Rivals(x, y)'
             PROVE  Missed(x, y)' \/ Undecided(x, y)' \/ Undecided(y, x)'
  BY DEF OneIsLater
<1>1. /\ AllArrived(b) /\ missed' = missed /\ lead' = lead
      /\ UNCHANGED <<beats, enabled, conflict, up, name, port>>
  BY DEF Report, told, own
<1>2. Rivals(x, y)
  BY <1>1 DEF Rivals, SameName
<1>3. \A c, d \in Broker : channel[c][d] = "heartbeat" => channel'[c][d] = "heartbeat"
  <2> SUFFICES ASSUME NEW c \in Broker, NEW d \in Broker, channel[c][d] = "heartbeat"
               PROVE  channel'[c][d] = "heartbeat"
    OBVIOUS
  <2>1. c # b
    BY <1>1 DEF AllArrived
  <2> QED BY <2>1 DEF Report, Broadcast, TypeOK
<1> QED BY <1>1, <1>2, <1>3, Unconcerned DEF Missed

LEMMA LaterReceive ==
  ASSUME TypeOK, OneIsLater, NEW s \in Broker, NEW r \in Broker,
         Receive(s, r) \/ Lose(s, r)
  PROVE  OneIsLater'
<1> SUFFICES ASSUME NEW x \in Broker, NEW y \in Broker, Rivals(x, y)'
             PROVE  Missed(x, y)' \/ Undecided(x, y)' \/ Undecided(y, x)'
  BY DEF OneIsLater
<1>1. /\ missed \subseteq missed' /\ lead' = lead
      /\ UNCHANGED <<beats, enabled, up, name, port>>
      /\ channel' = [channel EXCEPT ![s][r] = "none"]
  BY DEF Receive, Lose, told, own
<1>2. Rivals(x, y) /\ Rivals(y, x)
  BY <1>1 DEF Rivals, SameName
<1>3. \A c \in Broker : conflict[c] => conflict'[c]
  BY DEF Receive, Lose, own, TypeOK
<1>4. ASSUME NEW c \in Broker, NEW d \in Broker, Rivals(c, d),
             channel[c][d] = "heartbeat"
      PROVE  \/ channel'[c][d] = "heartbeat" \/ conflict'[d] \/ <<c, d>> \in missed'
  <2>1. CASE s = c /\ r = d
    <3>1. CASE Receive(s, r)
      BY <1>4, <2>1, <3>1, ReceiveDecides
    <3>2. CASE Lose(s, r)
      BY <1>4, <2>1, <3>2 DEF Lose, Misses, Rivals
    <3> QED BY <3>1, <3>2
  <2>2. CASE ~ (s = c /\ r = d)
    BY <1>1, <1>4, <2>2 DEF TypeOK
  <2> QED BY <2>1, <2>2
<1>5. /\ channel[x][y] = "heartbeat" =>
           channel'[x][y] = "heartbeat" \/ conflict'[y] \/ Missed(x, y)'
      /\ channel[y][x] = "heartbeat" =>
           channel'[y][x] = "heartbeat" \/ conflict'[x] \/ Missed(x, y)'
  BY <1>2, <1>4 DEF Missed
<1> QED BY <1>1, <1>2, <1>3, <1>5, Unconcerned DEF Missed

LEMMA ClaimNext == ClaimInv /\ [Next]_vars => ClaimInv'
<1> SUFFICES ASSUME TypeOK, ConflictIInv, Fresh, OneIsLater, [Next]_vars
             PROVE  OneIsLater'
  BY NextType, ConflictNext, FreshNext DEF ClaimInv
<1>1. ASSUME NEW b \in Broker, NEW line, Start(b, line) PROVE OneIsLater'
  BY <1>1, LaterStart
<1>2. ASSUME NEW b \in Broker, Ends(b) PROVE OneIsLater'
  BY <1>2, LaterEnds
<1>3. ASSUME NEW b \in Broker, Beat(b) PROVE OneIsLater'
  BY <1>3, LaterBeat
<1>4. ASSUME NEW b \in Broker, Report(b) PROVE OneIsLater'
  BY <1>4, LaterReport
<1>5. ASSUME NEW b \in Broker, NEW c \in Broker, Receive(b, c) \/ Lose(b, c)
      PROVE  OneIsLater'
  BY <1>5, LaterReceive
<1>6. CASE UNCHANGED vars
  BY <1>6 DEF vars, told, own, OneIsLater, Rivals, SameName, Missed, Undecided
<1> QED BY <1>1, <1>2, <1>3, <1>4, <1>5, <1>6
        DEF Next, NextReliable, Stop, Abort

LEMMA ClaimInit == Init => ClaimInv
<1> SUFFICES ASSUME Init PROVE ClaimInv
  OBVIOUS
<1>1. Fresh
  BY DEF Init, Fresh
<1>2. OneIsLater
  BY DEF Init, OneIsLater, Rivals
<1> QED BY <1>1, <1>2, InitType, ConflictInit DEF ClaimInv

(* Two brokers of one name report at the same time only if one has missed  *)
(* a heartbeat of the other: four quiet periods are enough, for any number *)
(* of brokers, restarts and drifting timers (main_server.cpp:165-182).     *)
THEOREM BothOnlyAfterMissHolds == Spec => []BothOnlyAfterMiss
<1>1. ClaimInv => BothOnlyAfterMiss
  <2> SUFFICES ASSUME ClaimInv, NEW b \in Reporting, NEW c \in Reporting,
                      b # c, SameName(b, c), name[b] \notin DOMAIN Long
               PROVE  <<b, c>> \in missed \/ <<c, b>> \in missed
    BY DEF BothOnlyAfterMiss
  <2>1. Rivals(b, c) /\ enabled[b] /\ enabled[c] /\ b \in Broker /\ c \in Broker
    BY DEF Reporting, Rivals, ClaimInv, TypeOK
  <2> QED BY <2>1 DEF ClaimInv, OneIsLater, Undecided, Missed
<1> QED BY <1>1, ClaimInit, ClaimNext, PTL DEF Spec
-----------------------------------------------------------------------------
(* The arguments of ev3_broker_server, behind --help.                      *)
Flag(j) == IF j = 2 THEN "--port" ELSE "--name"
DefaultOf(j) == IF j = 2 THEN "4721" ELSE "EV3"

LEMMA TheArguments ==
  /\ DOMAIN Line!m_args = 1 .. 3 /\ Len(Line!m_args) = 3
  /\ Line!m_args[1] = Line!Help /\ Line!m_args[2] = PortArg
  /\ Line!m_args[3] = NameArg
<1> DEFINE S == {Line!Help, PortArg, NameArg}
           p == <<Line!Help>>
           q == <<PortArg, NameArg>>
<1>1. /\ p \in Seq(S) /\ Len(p) = 1 /\ p[1] = Line!Help
      /\ q \in Seq(S) /\ Len(q) = 2 /\ q[1] = PortArg /\ q[2] = NameArg
  OBVIOUS
<1>2. Line!m_args = p \o q
  BY DEF Line!m_args
<1> HIDE DEF S, p, q
<1>3. /\ p \o q \in Seq(S) /\ Len(p \o q) = 3
      /\ (p \o q)[1] = p[1] /\ (p \o q)[2] = q[1] /\ (p \o q)[3] = q[2]
  <2>1. p \o q \in Seq(S) /\ Len(p \o q) = Len(p) + Len(q)
    BY <1>1, ConcatProperties
  <2> DEFINE r == p \o q
  <2>2. \A i \in 1 .. Len(p) + Len(q) :
          r[i] = IF i <= Len(p) THEN p[i] ELSE q[i - Len(p)]
    BY <1>1, ConcatProperties
  <2> HIDE DEF r
  <2>3. r[1] = p[1] /\ r[2] = q[2 - 1] /\ r[3] = q[3 - 1]
    BY <1>1, <2>2
  <2> QED BY <1>1, <2>1, <2>3 DEF r
<1> QED BY <1>1, <1>2, <1>3

LEMMA ArgumentFields ==
  /\ Line!m_args[1].flag = "--help" /\ Line!m_args[1].is_switch
  /\ Line!m_args[1].accepts = {} /\ Line!m_args[1].default = NoValue
  /\ \A j \in {2, 3} : /\ Line!m_args[j].flag = Flag(j)
                       /\ Line!m_args[j].is_switch = FALSE
                       /\ Line!m_args[j].default = DefaultOf(j)
BY TheArguments DEF Line!Help, PortArg, NameArg, Flag, DefaultOf

Text == STRING \cup {DefaultOf(2), DefaultOf(3)}
CallRecord == [arg : {2, 3}, value : Text]
Reading == [wants : {0, 2, 3}, calls : Seq(CallRecord), exited : {FALSE}]

(* What parse() has done when it has read i tokens of a line and has not   *)
(* exited: they are pairs of an option and its value, each has been handed *)
(* to its callback, none twice, and wants is an option without its value.  *)
Pairs(s, line, i) ==
  /\ s \in Reading
  /\ i = 2 * Len(s.calls) + (IF s.wants = 0 THEN 0 ELSE 1)
  /\ \A k \in 1 .. Len(s.calls) : /\ line[2 * k - 1] = Flag(s.calls[k].arg)
                                  /\ line[2 * k] = s.calls[k].value
  /\ \A k, l \in 1 .. Len(s.calls) : s.calls[k].arg = s.calls[l].arg => k = l
  /\ s.wants # 0 => /\ line[i] = Flag(s.wants)
                    /\ \A k \in 1 .. Len(s.calls) : s.calls[k].arg # s.wants

Exited(s) == s.exited = TRUE

(* The value of an option, whatever it looks like.                         *)
LEMMA PairsValue ==
  ASSUME NEW line \in Seq(STRING), NEW i \in 1 .. Len(line), NEW s,
         Pairs(s, line, i - 1), s.wants # 0
  PROVE  \/ Exited(Line!Step(s, line[i]))
         \/ Pairs(Line!Step(s, line[i]), line, i)
<1> DEFINE t == Line!Step(s, line[i])
           c == [arg |-> s.wants, value |-> line[i]]
           n == Len(s.calls)
<1>0. s \in Reading
  BY DEF Pairs
<1>1. /\ s.wants \in {2, 3} /\ s.calls \in Seq(CallRecord) /\ s.exited = FALSE
      /\ n \in Nat /\ line[i] \in STRING
  <2>1. s.wants \in {2, 3} /\ s.calls \in Seq(CallRecord) /\ s.exited = FALSE
    BY <1>0 DEF Reading
  <2> QED BY <2>1
<1>2. t = [wants |-> 0, calls |-> Append(s.calls, c),
           exited |-> line[i] \notin Line!m_args[s.wants].accepts]
  BY <1>1 DEF Line!Step, Line!Call
<1>3. c \in CallRecord
  BY <1>1 DEF CallRecord, Text
<1>4. CASE line[i] \notin Line!m_args[s.wants].accepts
  <2>1. t = [wants |-> 0, calls |-> Append(s.calls, c), exited |-> TRUE]
    BY <1>2, <1>4
  <2>2. t.exited = TRUE
    BY <2>1
  <2> QED BY <2>2 DEF Exited
<1>5. CASE line[i] \in Line!m_args[s.wants].accepts
  <2>0. c.arg = s.wants /\ c.value = line[i]
    OBVIOUS
  <2> HIDE DEF t, c
  <2>1. t = [wants |-> 0, calls |-> Append(s.calls, c), exited |-> FALSE]
    BY <1>2, <1>5
  <2>2. /\ t.calls \in Seq(CallRecord) /\ Len(t.calls) = n + 1
        /\ t.calls[n + 1] = c
        /\ \A k \in 1 .. n : t.calls[k] = s.calls[k]
        /\ t.wants = 0 /\ t \in Reading
    <3>1. /\ Append(s.calls, c) \in Seq(CallRecord)
          /\ Len(Append(s.calls, c)) = n + 1
          /\ Append(s.calls, c)[n + 1] = c
          /\ \A k \in 1 .. n : Append(s.calls, c)[k] = s.calls[k]
      BY <1>1, <1>3
    <3>2. t \in Reading
      BY <2>1, <3>1 DEF Reading
    <3> QED BY <2>1, <3>1, <3>2
  <2>3. /\ i - 1 = 2 * n + 1 /\ line[2 * n + 1] = Flag(s.wants)
        /\ \A k \in 1 .. n : s.calls[k].arg # s.wants
        /\ \A k \in 1 .. n : /\ line[2 * k - 1] = Flag(s.calls[k].arg)
                             /\ line[2 * k] = s.calls[k].value
        /\ \A k, l \in 1 .. n : s.calls[k].arg = s.calls[l].arg => k = l
    <3>1. i - 1 = 2 * n + 1
      BY <1>1 DEF Pairs
    <3>2. line[i - 1] = Flag(s.wants)
      BY DEF Pairs
    <3> QED BY <3>1, <3>2 DEF Pairs
  <2>4. i = 2 * (n + 1) /\ 2 * (n + 1) - 1 = 2 * n + 1
    BY <1>1, <2>3
  <2>5. \A k \in 1 .. n + 1 : /\ line[2 * k - 1] = Flag(t.calls[k].arg)
                              /\ line[2 * k] = t.calls[k].value
    <3> SUFFICES ASSUME NEW k \in 1 .. n + 1
                 PROVE  /\ line[2 * k - 1] = Flag(t.calls[k].arg)
                        /\ line[2 * k] = t.calls[k].value
      OBVIOUS
    <3>1. CASE k \in 1 .. n
      BY <2>2, <2>3, <3>1
    <3>2. CASE k = n + 1
      BY <2>0, <2>2, <2>3, <2>4, <3>2
    <3> QED BY <1>1, <3>1, <3>2
  <2>6. \A k, l \in 1 .. n + 1 : t.calls[k].arg = t.calls[l].arg => k = l
    <3> SUFFICES ASSUME NEW k \in 1 .. n + 1, NEW l \in 1 .. n + 1,
                        t.calls[k].arg = t.calls[l].arg
                 PROVE  k = l
      OBVIOUS
    <3>1. t.calls[n + 1].arg = s.wants
      BY <2>0, <2>2
    <3>2. CASE k \in 1 .. n /\ l \in 1 .. n
      BY <2>2, <2>3, <3>2
    <3>3. CASE k = n + 1 /\ l \in 1 .. n
      BY <2>2, <2>3, <3>1, <3>3
    <3>4. CASE k \in 1 .. n /\ l = n + 1
      BY <2>2, <2>3, <3>1, <3>4
    <3> QED BY <1>1, <3>2, <3>3, <3>4
  <2> QED BY <2>2, <2>4, <2>5, <2>6 DEF Pairs, t
<1> QED BY <1>4, <1>5

(* An option, if it is spelled like one and was not given before.          *)
LEMMA PairsOption ==
  ASSUME NEW line \in Seq(STRING), NEW i \in 1 .. Len(line), NEW s,
         Pairs(s, line, i - 1), s.wants = 0
  PROVE  \/ Exited(Line!Step(s, line[i]))
         \/ Pairs(Line!Step(s, line[i]), line, i)
<1> DEFINE t == Line!Step(s, line[i])
           spelled == {j \in DOMAIN Line!m_args : Line!m_args[j].flag = line[i]}
           j == Line!Min(spelled)
           n == Len(s.calls)
<1>1. /\ s.calls \in Seq(CallRecord) /\ s.exited = FALSE /\ n \in Nat
      /\ s \in Reading
      /\ i - 1 = 2 * n
  <2>1. s \in Reading /\ i - 1 = 2 * n + 0
    BY DEF Pairs
  <2>2. s.calls \in Seq(CallRecord) /\ s.exited = FALSE
    BY <2>1 DEF Reading
  <2> HIDE DEF n
  <2>3. n \in Nat
    BY <2>2 DEF n
  <2> QED BY <2>1, <2>2, <2>3
<1>2. t = IF spelled = {} THEN Line!Exit(s)
          ELSE IF j \in Line!Specified(s) THEN Line!Exit(s)
          ELSE IF Line!m_args[j].is_switch THEN Line!Call(s, j, NoValue)
          ELSE [s EXCEPT !.wants = j]
  BY <1>1 DEF Line!Step
<1>3. Exited(Line!Exit(s))
  BY <1>1 DEF Exited, Line!Exit, Reading
<1>4. ASSUME spelled # {}
      PROVE  j \in 1 .. 3 /\ Line!m_args[j].flag = line[i]
  <2>1. PICK m \in 1 .. 3 : Line!m_args[m].flag = line[i]
    BY <1>4, TheArguments
  <2>2. \A l \in 1 .. 3 : Line!m_args[l].flag = line[i] => l = m
    BY <2>1, ArgumentFields DEF Flag
  <2>3. spelled = {m}
    BY <2>1, <2>2, TheArguments
  <2>4. j = m
    BY <2>3 DEF Line!Min
  <2> QED BY <2>1, <2>4
<1>5. CASE spelled # {} /\ j = 1 /\ j \notin Line!Specified(s)
  <2>1. t = Line!Call(s, 1, NoValue)
    BY <1>2, <1>5, ArgumentFields
  <2>2. NoValue \notin Line!m_args[1].accepts
    BY ArgumentFields
  <2>3. t = [wants |-> 0,
             calls |-> Append(s.calls, [arg |-> 1, value |-> NoValue]),
             exited |-> TRUE]
    BY <2>1, <2>2 DEF Line!Call
  <2>4. t.exited = TRUE
    BY <2>3
  <2> QED BY <2>4 DEF Exited
<1>6. CASE spelled # {} /\ j \in {2, 3} /\ j \notin Line!Specified(s)
  <2>1. t = [s EXCEPT !.wants = j]
    BY <1>2, <1>6, ArgumentFields
  <2>2. line[i] = Flag(j)
    BY <1>4, <1>6, ArgumentFields
  <2>3. \A k \in 1 .. n : s.calls[k].arg # j
    <3>1. DOMAIN s.calls = 1 .. n
      BY <1>1
    <3> HIDE DEF j
    <3> QED BY <1>6, <3>1 DEF Line!Specified
  <2> HIDE DEF t, j
  <2>4. t.wants = j /\ t.calls = s.calls /\ t \in Reading
    BY <1>1, <1>6, <2>1 DEF Reading
  <2>5. i = 2 * n + 1 /\ j # 0
    BY <1>1, <1>6
  <2>6. /\ \A k \in 1 .. n : /\ line[2 * k - 1] = Flag(s.calls[k].arg)
                            /\ line[2 * k] = s.calls[k].value
        /\ \A k, l \in 1 .. n : s.calls[k].arg = s.calls[l].arg => k = l
    BY DEF Pairs
  <2>7. i = 2 * Len(t.calls) + (IF t.wants = 0 THEN 0 ELSE 1)
    BY <2>4, <2>5
  <2> HIDE DEF n
  <2>8. Pairs(t, line, i)
    BY <2>2, <2>3, <2>4, <2>6, <2>7 DEF Pairs, n
  <2> QED BY <2>8 DEF t
<1>7. CASE spelled = {} \/ j \in Line!Specified(s)
  BY <1>2, <1>3, <1>7
<1> QED BY <1>4, <1>5, <1>6, <1>7

(* The loop over the tokens, and that it does something at all: after[i]   *)
(* is the state after i of them.                                           *)
Reads(after, line, n) ==
  after = [i \in 0 .. n |->
             IF i = 0 THEN Line!Begin ELSE Line!Step(after[i - 1], line[i])]

(* A set of numbers that is not empty has a smallest member.               *)
LEMMA SmallestNumber ==
  ASSUME NEW C, C \subseteq Nat, C # {}
  PROVE  \E n \in C : \A m \in C : n <= m
<1> DEFINE R == {p \in Nat \X Nat : p[1] < p[2]}
<1>1. IsWellFoundedOn(R, Nat)
  BY NatLessThanWellFounded DEF OpToRel
<1>2. PICK n \in C : \A m \in C : <<m, n>> \notin R
  <2> HIDE DEF R
  <2> QED BY <1>1, WFMin
<1>3. ASSUME NEW m \in C, m < n PROVE FALSE
  <2>1. <<m, n>> \in Nat \X Nat
    OBVIOUS
  <2>2. <<m, n>> \in R
    BY <1>3, <2>1
  <2> QED BY <1>2, <2>2
<1>4. \A m \in C : ~ (m < n) => n <= m
  OBVIOUS
<1> QED BY <1>3, <1>4

LEMMA ReadsMore ==
  ASSUME NEW line, NEW n \in Nat \ {0}, NEW f, Reads(f, line, n - 1)
  PROVE  \E g : Reads(g, line, n)
<1> DEFINE g == [i \in 0 .. n |-> IF i = n THEN Line!Step(f[n - 1], line[n])
                                         ELSE f[i]]
<1>1. \A i \in 0 .. n - 1 : f[i] = IF i = 0 THEN Line!Begin
                                   ELSE Line!Step(f[i - 1], line[i])
  BY DEF Reads
<1>2. \A i \in 0 .. n : g[i] = IF i = 0 THEN Line!Begin
                               ELSE Line!Step(g[i - 1], line[i])
  <2> SUFFICES ASSUME NEW i \in 0 .. n
               PROVE  g[i] = IF i = 0 THEN Line!Begin
                             ELSE Line!Step(g[i - 1], line[i])
    OBVIOUS
  <2>1. CASE i = n
    <3>1. g[i] = Line!Step(f[n - 1], line[n]) /\ g[n - 1] = f[n - 1]
      BY <2>1
    <3> QED BY <2>1, <3>1
  <2>2. CASE i = 0
    BY <1>1, <2>2
  <2>3. CASE i \in 1 .. n - 1
    <3>1. g[i] = f[i] /\ g[i - 1] = f[i - 1]
      BY <2>3
    <3> QED BY <1>1, <2>3, <3>1
  <2> QED BY <2>1, <2>2, <2>3
<1>3. Reads(g, line, n)
  BY <1>2 DEF Reads
<1> QED BY <1>3

LEMMA ReadsExists ==
  ASSUME NEW line, NEW N \in Nat
  PROVE  \E f : Reads(f, line, N)
<1> DEFINE C == {n \in Nat : ~ \E f : Reads(f, line, n)}
<1>1. CASE C # {}
  <2>1. PICK n \in C : \A m \in C : n <= m
    <3>1. C \subseteq Nat
      OBVIOUS
    <3> HIDE DEF C
    <3> QED BY <1>1, <3>1, SmallestNumber
  <2>2. n # 0
    <3>1. Reads([i \in 0 .. 0 |-> Line!Begin], line, 0)
      BY DEF Reads
    <3> QED BY <3>1
  <2>3. n - 1 \in Nat /\ n - 1 \notin C
    BY <2>1, <2>2
  <2>4. \E f : Reads(f, line, n - 1)
    BY <2>3
  <2> QED BY <2>2, <2>4, ReadsMore
<1>2. CASE C = {}
  BY <1>2
<1> QED BY <1>1, <1>2

LEMMA PairsAfter ==
  ASSUME NEW line \in Seq(STRING), NEW f, Reads(f, line, Len(line)),
         NEW i \in 0 .. Len(line)
  PROVE  Exited(f[i]) \/ Pairs(f[i], line, i)
<1> DEFINE C == {n \in 0 .. Len(line) : ~ (Exited(f[n]) \/ Pairs(f[n], line, n))}
<1>0. Len(line) \in Nat
  OBVIOUS
<1>1. CASE C # {}
  <2>1. PICK n \in C : \A m \in C : n <= m
    <3>1. C \subseteq Nat
      BY <1>0
    <3> HIDE DEF C
    <3> QED BY <1>1, <3>1, SmallestNumber
  <2>2. f[n] = IF n = 0 THEN Line!Begin ELSE Line!Step(f[n - 1], line[n])
    BY <1>0 DEF Reads
  <2>3. CASE n = 0
    <3>1. f[n] = [wants |-> 0, calls |-> <<>>, exited |-> FALSE]
      BY <2>2, <2>3 DEF Line!Begin
    <3>2. f[n] \in Reading /\ Len(f[n].calls) = 0 /\ f[n].wants = 0
      BY <3>1 DEF Reading
    <3>3. Pairs(f[n], line, 0)
      BY <3>2 DEF Pairs
    <3> QED BY <2>3, <3>3
  <2>4. CASE n # 0
    <3>1. n \in 1 .. Len(line) /\ n - 1 \in 0 .. Len(line)
      BY <1>0, <2>4
    <3>2. n - 1 \notin C
      BY <2>1, <3>1
    <3>3. f[n] = Line!Step(f[n - 1], line[n])
      BY <2>2, <2>4
    <3>4. CASE Exited(f[n - 1])
      <4>1. f[n] = f[n - 1]
        BY <3>3, <3>4 DEF Line!Step, Exited
      <4> QED BY <3>4, <4>1
    <3>5. CASE Pairs(f[n - 1], line, n - 1)
      BY <3>1, <3>3, <3>5, PairsValue, PairsOption
    <3> QED BY <3>1, <3>2, <3>4, <3>5
  <2> QED BY <2>3, <2>4
<1>2. CASE C = {}
  BY <1>2
<1> QED BY <1>1, <1>2

LEMMA PairsRead ==
  ASSUME NEW line \in Seq(STRING)
  PROVE  Exited(Line!AllRead(line)) \/ Pairs(Line!AllRead(line), line, Len(line))
<1> DEFINE f == CHOOSE f : Reads(f, line, Len(line))
<1>1. Len(line) \in Nat /\ Len(line) \in 0 .. Len(line)
  OBVIOUS
<1>2. Reads(f, line, Len(line))
  BY <1>1, ReadsExists
<1>3. Line!AllRead(line) = f[Len(line)]
  BY DEF Line!AllRead, Reads
<1> HIDE DEF f
<1> QED BY <1>1, <1>2, <1>3, PairsAfter
(* The last loop, over --help, --port and --name.                          *)
LEMMA FinishedIs ==
  ASSUME NEW s
  PROVE  Line!AllFinished(s) =
           Line!Finish(Line!Finish(Line!Finish(s, 1), 2), 3)
<1> DEFINE s1 == Line!Finish(s, 1)
           s2 == Line!Finish(s1, 2)
           s3 == Line!Finish(s2, 3)
           Is(f) == f = [j \in 0 .. 3 |-> IF j = 0 THEN s
                                          ELSE Line!Finish(f[j - 1], j)]
           g == [j \in 0 .. 3 |-> CASE j = 0 -> s [] j = 1 -> s1
                                    [] j = 2 -> s2 [] j = 3 -> s3]
           f == CHOOSE f : Is(f)
<1>1. Is(g)
  <2>1. /\ g[0] = s /\ g[1] = Line!Finish(g[0], 1)
        /\ g[2] = Line!Finish(g[1], 2) /\ g[3] = Line!Finish(g[2], 3)
    OBVIOUS
  <2>2. g = [j \in 0 .. 3 |-> g[j]]
    OBVIOUS
  <2> HIDE DEF g
  <2>3. \A j \in 0 .. 3 : g[j] = IF j = 0 THEN s ELSE Line!Finish(g[j - 1], j)
    <3> SUFFICES ASSUME NEW j \in 0 .. 3
                 PROVE  g[j] = IF j = 0 THEN s ELSE Line!Finish(g[j - 1], j)
      OBVIOUS
    <3>1. CASE j = 0
      BY <2>1, <3>1
    <3>2. CASE j = 1
      BY <2>1, <3>2
    <3>3. CASE j = 2
      BY <2>1, <3>3
    <3>4. CASE j = 3
      BY <2>1, <3>4
    <3> QED BY <3>1, <3>2, <3>3, <3>4
  <2> QED BY <2>2, <2>3
<1>2. Is(f)
  BY <1>1
<1>3. /\ f[0] = s /\ f[1] = Line!Finish(f[0], 1)
      /\ f[2] = Line!Finish(f[1], 2) /\ f[3] = Line!Finish(f[2], 3)
  <2> HIDE DEF f
  <2>1. \A j \in 0 .. 3 : f[j] = IF j = 0 THEN s ELSE Line!Finish(f[j - 1], j)
    BY <1>2
  <2>2. f[0] = s
    BY <2>1
  <2>3. f[1] = Line!Finish(f[1 - 1], 1)
    BY <2>1
  <2>4. f[2] = Line!Finish(f[2 - 1], 2)
    BY <2>1
  <2>5. f[3] = Line!Finish(f[3 - 1], 3)
    BY <2>1
  <2> QED BY <2>2, <2>3, <2>4, <2>5
<1>4. Line!AllFinished(s) = f[3]
  BY TheArguments DEF Line!AllFinished
<1> HIDE DEF f
<1> QED BY <1>3, <1>4

(* What parse() has done when it has read the h pairs of a line: the       *)
(* callbacks after those were called with a default.                       *)
Given(s, line, h) ==
  /\ s \in Reading /\ s.wants = 0
  /\ Len(line) = 2 * h /\ h <= Len(s.calls)
  /\ \A k \in 1 .. h : /\ line[2 * k - 1] = Flag(s.calls[k].arg)
                       /\ line[2 * k] = s.calls[k].value
  /\ \A k \in h + 1 .. Len(s.calls) : s.calls[k].value = DefaultOf(s.calls[k].arg)
  /\ \A k, l \in 1 .. Len(s.calls) : s.calls[k].arg = s.calls[l].arg => k = l

LEMMA GivenRead ==
  ASSUME NEW line \in Seq(STRING), NEW s, Pairs(s, line, Len(line)), s.wants = 0
  PROVE  Given(s, line, Len(s.calls))
<1>1. s \in Reading /\ Len(line) = 2 * Len(s.calls) + 0
  BY DEF Pairs
<1>2. s.calls \in Seq(CallRecord)
  BY <1>1 DEF Reading
<1>3. Len(s.calls) \in Nat
  BY <1>2
<1>4. Len(line) = 2 * Len(s.calls)
  BY <1>1, <1>3
<1>5. Len(s.calls) + 1 .. Len(s.calls) = {} /\ Len(s.calls) <= Len(s.calls)
  BY <1>3
<1> QED BY <1>1, <1>4, <1>5 DEF Given, Pairs

LEMMA HelpIsSkipped ==
  ASSUME NEW s \in Reading
  PROVE  Line!Finish(s, 1) = s
BY ArgumentFields DEF Line!Finish, Line!Required

LEMMA GivenFinish ==
  ASSUME NEW line \in Seq(STRING), NEW h \in Nat, NEW s, Given(s, line, h),
         NEW j \in {2, 3}
  PROVE  /\ Given(Line!Finish(s, j), line, h)
         /\ j \in Line!Specified(Line!Finish(s, j))
         /\ Line!Specified(s) \subseteq Line!Specified(Line!Finish(s, j))
<1> DEFINE n == Len(s.calls)
           c == [arg |-> j, value |-> DefaultOf(j)]
           t == Line!Finish(s, j)
<1>1. s \in Reading /\ s.wants = 0 /\ h <= n
  BY DEF Given
<1>2. s.calls \in Seq(CallRecord) /\ s.exited = FALSE
  BY <1>1 DEF Reading
<1>3. n \in Nat /\ DOMAIN s.calls = 1 .. n
  BY <1>2
<1>4. CASE j \in Line!Specified(s)
  <2>1. t = s
    BY <1>2, <1>4 DEF Line!Finish
  <2> HIDE DEF t
  <2> QED BY <1>4, <2>1 DEF t
<1>5. CASE j \notin Line!Specified(s)
  <2>1. Line!m_args[j].default = DefaultOf(j) /\ Line!m_args[j].is_switch = FALSE
    BY ArgumentFields
  <2>2. DefaultOf(j) # NoValue /\ DefaultOf(j) \in Text
    <3>1. DefaultOf(j) \in Text
      BY DEF Text
    <3>2. DefaultOf(j) # NoValue
      BY NoValueAssumption DEF DefaultOf
    <3> QED BY <3>1, <3>2
  <2>3. ~ Line!Required(j)
    BY <2>1, <2>2 DEF Line!Required
  <2>4. t = Line!Default(s, j)
    BY <1>2, <1>5, <2>1, <2>2, <2>3 DEF Line!Finish
  <2>5. c \in CallRecord /\ c.arg = j /\ c.value = DefaultOf(j)
    BY <2>2 DEF CallRecord
  <2>6. t = [s EXCEPT !.calls = Append(s.calls, c)]
    BY <2>1, <2>4 DEF Line!Default
  <2> HIDE DEF t, c
  <2>7. /\ Append(s.calls, c) \in Seq(CallRecord)
        /\ Len(Append(s.calls, c)) = n + 1
        /\ Append(s.calls, c)[n + 1] = c
        /\ \A k \in 1 .. n : Append(s.calls, c)[k] = s.calls[k]
    BY <1>2, <2>5
  <2> DEFINE u == Append(s.calls, c)
  <2> HIDE DEF u, n
  <2>8. t.calls = u /\ t \in Reading /\ t.wants = 0
    BY <1>1, <2>6, <2>7 DEF Reading, u
  <2>9. /\ u \in Seq(CallRecord) /\ Len(u) = n + 1 /\ DOMAIN u = 1 .. n + 1
        /\ u[n + 1] = c /\ \A k \in 1 .. n : u[k] = s.calls[k]
    BY <1>3, <2>7 DEF u
  <2>10. /\ Len(line) = 2 * h
         /\ \A k \in 1 .. h : /\ line[2 * k - 1] = Flag(s.calls[k].arg)
                              /\ line[2 * k] = s.calls[k].value
         /\ \A k \in h + 1 .. n : s.calls[k].value = DefaultOf(s.calls[k].arg)
         /\ \A k, l \in 1 .. n : s.calls[k].arg = s.calls[l].arg => k = l
    BY DEF Given, n
  <2>11. \A k \in 1 .. n : s.calls[k].arg # j
    BY <1>3, <1>5 DEF Line!Specified
  <2>12. \A k \in 1 .. h : /\ line[2 * k - 1] = Flag(u[k].arg)
                           /\ line[2 * k] = u[k].value
    BY <1>1, <1>3, <2>9, <2>10 
  <2>13. \A k \in h + 1 .. n + 1 : u[k].value = DefaultOf(u[k].arg)
    <3> SUFFICES ASSUME NEW k \in h + 1 .. n + 1
                 PROVE  u[k].value = DefaultOf(u[k].arg)
      OBVIOUS
    <3>1. CASE k = n + 1
      BY <2>5, <2>9, <3>1
    <3>2. CASE k \in h + 1 .. n
      BY <1>3, <2>9, <2>10, <3>2
    <3> QED BY <1>3, <3>1, <3>2
  <2>14. \A k, l \in 1 .. n + 1 : u[k].arg = u[l].arg => k = l
    <3> SUFFICES ASSUME NEW k \in 1 .. n + 1, NEW l \in 1 .. n + 1,
                        u[k].arg = u[l].arg
                 PROVE  k = l
      OBVIOUS
    <3>1. u[n + 1].arg = j
      BY <2>5, <2>9
    <3>2. CASE k \in 1 .. n /\ l \in 1 .. n
      BY <2>9, <2>10, <3>2
    <3>3. CASE k = n + 1 /\ l \in 1 .. n
      BY <2>9, <2>11, <3>1, <3>3
    <3>4. CASE k \in 1 .. n /\ l = n + 1
      BY <2>9, <2>11, <3>1, <3>4
    <3> QED BY <1>3, <3>2, <3>3, <3>4
  <2>15. h <= n + 1
    BY <1>1, <1>3
  <2>16. Given(t, line, h)
    BY <2>8, <2>9, <2>10, <2>12, <2>13, <2>14, <2>15 DEF Given
  <2>17. j \in Line!Specified(t) /\ Line!Specified(s) \subseteq Line!Specified(t)
    <3>1. u[n + 1].arg = j /\ n + 1 \in DOMAIN u
      BY <1>3, <2>5, <2>9
    <3>2. \A k \in DOMAIN s.calls : k \in DOMAIN u /\ u[k].arg = s.calls[k].arg
      BY <1>3, <2>9
    <3> QED BY <2>8, <3>1, <3>2 DEF Line!Specified
  <2> QED BY <2>16, <2>17 DEF t
<1> QED BY <1>4, <1>5

(* The lines parse() returns for.                                          *)
LEMMA GivenParsed ==
  ASSUME NEW line \in Seq(STRING), ~ Line!Parse(line).exited
  PROVE  \E h \in Nat : /\ Given(Line!Parse(line), line, h)
                        /\ {2, 3} \subseteq Line!Specified(Line!Parse(line))
<1> DEFINE s == Line!AllRead(line)
           r == Line!Parse(line)
<1>0. r = IF s.exited \/ s.wants # 0 THEN Line!Exit(s) ELSE Line!AllFinished(s)
  BY DEF Line!Parse
<1>1. ~ Exited(s)
  <2>1. ASSUME Exited(s) PROVE FALSE
    <3>1. s.exited
      BY <2>1 DEF Exited
    <3>2. Line!Parse(line) = Line!Exit(s)
      BY <3>1, <1>0
    <3>3. Line!Exit(s).exited
      BY DEF Line!Exit
    <3> QED BY <3>2, <3>3
  <2> QED BY <2>1
<1>2. Pairs(s, line, Len(line))
  BY <1>1, PairsRead
<1>3. s \in Reading
  BY <1>2 DEF Pairs
<1>4. s.exited = FALSE /\ s.calls \in Seq(CallRecord)
  BY <1>3 DEF Reading
<1>5. s.wants = 0 /\ r = Line!AllFinished(s)
  <2>1. CASE s.wants # 0
    <3>1. Line!Parse(line) = Line!Exit(s)
      BY <2>1, <1>0
    <3>2. Line!Exit(s).exited
      BY <1>3 DEF Line!Exit, Reading
    <3> QED BY <3>1, <3>2
  <2>2. CASE s.wants = 0
    BY <1>0, <1>4, <2>2
  <2> QED BY <2>1, <2>2
<1> HIDE DEF s, r
<1> DEFINE h == Len(s.calls)
<1>6. Given(s, line, h) /\ h \in Nat
  BY <1>2, <1>4, <1>5, GivenRead
<1> HIDE DEF h
<1> DEFINE t == Line!Finish(s, 2)
<1>7. r = Line!Finish(t, 3)
  BY <1>3, <1>5, FinishedIs, HelpIsSkipped
<1>8. Given(t, line, h) /\ 2 \in Line!Specified(t)
  BY <1>6, GivenFinish
<1> HIDE DEF t
<1>9. /\ Given(r, line, h) /\ 3 \in Line!Specified(r)
      /\ Line!Specified(t) \subseteq Line!Specified(r)
  BY <1>6, <1>7, <1>8, GivenFinish
<1> QED BY <1>6, <1>8, <1>9 DEF r

(* The lines that do not end the program: pairs of an option and a value,  *)
(* none twice, and each callback called once, with the value of its option *)
(* or the default.                                                         *)
LEMMA ParsedAsTold ==
  ASSUME NEW line \in Seq(STRING), NEW r, NEW h \in Nat, Given(r, line, h),
         {2, 3} \subseteq Line!Specified(r)
  PROVE  /\ ReadAsTold(line, r.calls)
         /\ \A j \in {2, 3} : Line!Value(r, j) = Told(line, Flag(j), DefaultOf(j))
<1> DEFINE n == Len(r.calls)
           calls == r.calls
<1>1. calls \in Seq(CallRecord)
  BY DEF Given, Reading
<1>2. n \in Nat /\ DOMAIN calls = 1 .. n
  BY <1>1
<1>3. \A k \in 1 .. n : calls[k].arg \in {2, 3}
  <2>1. \A c \in CallRecord : c.arg \in {2, 3}
    BY DEF CallRecord
  <2> HIDE DEF calls
  <2> QED BY <1>1, <1>2, <2>1
<1>4. /\ Len(line) = 2 * h /\ h <= n
      /\ \A k \in 1 .. h : /\ line[2 * k - 1] = Flag(calls[k].arg)
                           /\ line[2 * k] = calls[k].value
      /\ \A k \in h + 1 .. n : calls[k].value = DefaultOf(calls[k].arg)
      /\ \A k, l \in 1 .. n : calls[k].arg = calls[l].arg => k = l
  BY DEF Given
<1>5. \A j \in {2, 3} : \E k \in 1 .. n : calls[k].arg = j
  BY <1>2 DEF Line!Specified
<1> HIDE DEF n, calls
<1>6. n = 2
  <2>1. PICK k \in 1 .. n : calls[k].arg = 2
    BY <1>5
  <2>2. PICK l \in 1 .. n : calls[l].arg = 3
    BY <1>5
  <2>3. k # l
    BY <2>1, <2>2
  <2>4. n >= 2
    BY <1>2, <2>3
  <2>5. ~ (n >= 3)
    <3> SUFFICES ASSUME n >= 3 PROVE FALSE
      OBVIOUS
    <3>1. 1 \in 1 .. n /\ 2 \in 1 .. n /\ 3 \in 1 .. n
      BY <1>2
    <3>2. /\ calls[1].arg # calls[2].arg /\ calls[1].arg # calls[3].arg
          /\ calls[2].arg # calls[3].arg
      BY <1>4, <3>1
    <3> QED BY <1>3, <3>1, <3>2
  <2> QED BY <1>2, <2>4, <2>5
<1>7. {calls[i].arg : i \in {1, 2}} = {2, 3}
  <2>1. 1 .. n = {1, 2}
    BY <1>6
  <2> QED BY <1>3, <1>5, <2>1
<1>8. Len(line) % 2 = 0 /\ Len(line) \div 2 = h
  BY <1>4
<1>9. \A j, l \in {2, 3} : Flag(j) = Flag(l) => j = l
  BY DEF Flag
<1>10. IsInjective(Flags(line))
  <2> DEFINE flags == [i \in 1 .. h |-> line[2 * i - 1]]
  <2>1. ASSUME NEW i \in 1 .. h, NEW k \in 1 .. h, flags[i] = flags[k]
        PROVE  i = k
    <3>1. i \in 1 .. n /\ k \in 1 .. n
      BY <1>2, <1>4
    <3>2. Flag(calls[i].arg) = Flag(calls[k].arg)
      BY <1>4, <2>1
    <3>3. calls[i].arg = calls[k].arg
      BY <1>3, <1>9, <3>1, <3>2
    <3> QED BY <1>4, <3>1, <3>3
  <2>2. DOMAIN flags = 1 .. h
    OBVIOUS
  <2> HIDE DEF flags
  <2>3. IsInjective(flags)
    BY <2>1, <2>2 DEF IsInjective
  <2> QED BY <1>8, <2>3 DEF flags, Flags
<1>11. ASSUME NEW j \in {2, 3}
       PROVE  Line!Value(r, j) = Told(line, Flag(j), DefaultOf(j))
  <2> DEFINE at == {i \in DOMAIN line : i % 2 = 1 /\ line[i] = Flag(j)}
             these == {i \in DOMAIN calls : calls[i].arg = j}
  <2>1. PICK k \in 1 .. n : calls[k].arg = j
    BY <1>5
  <2>2. these = {k}
    BY <1>2, <1>4, <2>1
  <2>3. Line!Max(these) = k
    <3> HIDE DEF these
    <3> QED BY <1>2, <2>2 DEF Line!Max
  <2>4. Line!Value(r, j) = calls[k].value
    BY <2>3 DEF Line!Value, calls
  <2>5. DOMAIN line = 1 .. 2 * h
    BY <1>4
  <2>6. ASSUME NEW i \in at PROVE k \in 1 .. h /\ i = 2 * k - 1
    <3>1. i \in 1 .. 2 * h /\ i % 2 = 1 /\ line[i] = Flag(j)
      BY <2>5
    <3>2. PICK l \in 1 .. h : i = 2 * l - 1
      <4>1. (i + 1) \div 2 \in 1 .. h /\ i = 2 * ((i + 1) \div 2) - 1
        BY <3>1
      <4> QED BY <4>1
    <3>3. Flag(calls[l].arg) = Flag(j) /\ l \in 1 .. n
      BY <1>2, <1>4, <3>1, <3>2
    <3>4. calls[l].arg = j
      BY <1>3, <1>9, <3>3
    <3>5. l = k
      BY <1>4, <2>1, <3>3, <3>4
    <3> QED BY <3>2, <3>5
  <2>7. CASE k \in 1 .. h
    <3>1. 2 * k - 1 \in at
      <4>1. 2 * k - 1 \in 1 .. 2 * h /\ (2 * k - 1) % 2 = 1
        BY <2>7
      <4>2. line[2 * k - 1] = Flag(j)
        BY <1>4, <2>1, <2>7
      <4> QED BY <2>5, <4>1, <4>2
    <3>2. at = {2 * k - 1}
      BY <2>6, <3>1
    <3>3. Told(line, Flag(j), DefaultOf(j)) = line[2 * k - 1 + 1]
      BY <3>2 DEF Told
    <3>4. 2 * k - 1 + 1 = 2 * k
      OBVIOUS
    <3>5. line[2 * k] = calls[k].value
      BY <1>4, <2>7
    <3> QED BY <2>4, <3>3, <3>4, <3>5
  <2>8. CASE k \notin 1 .. h
    <3>1. at = {}
      BY <2>6, <2>8
    <3>2. Told(line, Flag(j), DefaultOf(j)) = DefaultOf(j)
      BY <3>1 DEF Told
    <3>3. k \in h + 1 .. n
      BY <1>2, <2>8
    <3>4. calls[k].value = DefaultOf(j)
      BY <1>4, <2>1, <3>3
    <3> QED BY <2>4, <3>2, <3>4
  <2> QED BY <2>7, <2>8
<1> QED BY <1>6, <1>7, <1>8, <1>10, <1>11 DEF n, calls, ReadAsTold

(* A broker that runs was started with one of its lines, a valid one.      *)
Started ==
  /\ argv = [b \in Broker |-> argv[b]]
  /\ name = [b \in Broker |-> name[b]] /\ port = [b \in Broker |-> port[b]]
  /\ \A b \in up : /\ b \in Broker
                   /\ argv[b] \in CommandLine[b] \cap Valid
                   /\ name[b] = Setting[argv[b]].name
                   /\ port[b] = Setting[argv[b]].port

LEMMA StartedNext == Started /\ [Next]_vars => Started'
<1> SUFFICES ASSUME Started, [Next]_vars PROVE Started'
  OBVIOUS
<1>1. ASSUME NEW b \in Broker, NEW line \in CommandLine[b] \cap Valid,
             Start(b, line)
      PROVE  Started'
  <2>1. /\ up' = up \cup {b}
        /\ argv' = [argv EXCEPT ![b] = line]
        /\ name' = [name EXCEPT ![b] = Setting[line].name]
        /\ port' = [port EXCEPT ![b] = Setting[line].port]
    BY <1>1 DEF Start
  <2>2. /\ argv' = [c \in Broker |-> argv'[c]]
        /\ name' = [c \in Broker |-> name'[c]]
        /\ port' = [c \in Broker |-> port'[c]]
    BY <2>1 DEF Started
  <2>3. /\ argv'[b] = line /\ name'[b] = Setting[line].name
        /\ port'[b] = Setting[line].port
    BY <2>1 DEF Started
  <2>4. \A c \in up \ {b} : /\ argv'[c] = argv[c] /\ name'[c] = name[c]
                            /\ port'[c] = port[c]
    BY <2>1 DEF Started
  <2> QED BY <2>1, <2>2, <2>3, <2>4 DEF Started
<1>2. CASE up' \subseteq up /\ UNCHANGED <<argv, name, port>>
  BY <1>2 DEF Started
<1> QED BY <1>1, <1>2
        DEF Next, NextReliable, vars, told, own, Stop, Ends, Beat, Abort, Report,
            Receive, Lose

(* A broker that runs has the settings of its command line, whatever lines *)
(* it may be started with: the parser hands each callback one value, that  *)
(* of its option, or the default when the line has none (argparse.cpp:     *)
(* 94-173), and no line it accepts is anything but such pairs.             *)
THEOREM SettingsAsTold == Spec => []AsTold
<1>1. Init => Started
  BY DEF Init, Started
<1>2. Started => AsTold
  <2> SUFFICES ASSUME Started, NEW b \in up
               PROVE  /\ ReadAsTold(argv[b], Parsed[argv[b]].calls)
                      /\ name[b] = Told(argv[b], "--name", "EV3")
                      /\ port[b] = Number[Told(argv[b], "--port", "4721")] % 65536
    BY DEF AsTold
  <2> DEFINE line == argv[b]
  <2>1. /\ b \in Broker /\ line \in CommandLine[b] /\ line \in Valid
        /\ name[b] = Setting[line].name /\ port[b] = Setting[line].port
    BY DEF Started
  <2>2. line \in Seq(STRING)
    BY <2>1, CommandLineAssumption
  <2>3. line \in DOMAIN Parsed /\ ~ Parsed[line].exited
    BY <2>1 DEF Valid
  <2>4. Parsed[line] = Line!Parse(line)
    BY <2>3 DEF Parsed
  <2>5. /\ name[b] = Line!Value(Line!Parse(line), 3)
        /\ port[b] = Number[Line!Value(Line!Parse(line), 2)] % 65536
    BY <2>1, <2>4 DEF Setting
  <2> HIDE DEF line
  <2>6. PICK h \in Nat : /\ Given(Line!Parse(line), line, h)
                         /\ {2, 3} \subseteq Line!Specified(Line!Parse(line))
    BY <2>2, <2>3, <2>4, GivenParsed
  <2> DEFINE r == Line!Parse(line)
  <2>7. /\ ReadAsTold(line, r.calls)
        /\ \A j \in {2, 3} : Line!Value(r, j) = Told(line, Flag(j), DefaultOf(j))
    BY <2>2, <2>6, ParsedAsTold
  <2>8. /\ Line!Value(r, 3) = Told(line, "--name", "EV3")
        /\ Line!Value(r, 2) = Told(line, "--port", "4721")
    BY <2>7 DEF Flag, DefaultOf
  <2> HIDE DEF r
  <2> QED BY <2>4, <2>5, <2>7, <2>8 DEF line, r
<1> QED BY <1>1, <1>2, StartedNext, PTL DEF Spec
=============================================================================
