------------------------- MODULE DemarshallerProofs -------------------------
(***************************************************************************)
(* Proofs about Demarshaller for every set of datagrams whose sequence     *)
(* numbers have a zero in their top byte, well-formed or not.              *)
(***************************************************************************)
EXTENDS Demarshaller, FiniteSetTheorems, SequenceTheorems, TLAPS

ShortSequences == \A d \in Datagram : d.seq < Byte3

SubMessage == [type : Types \cup {"bad"}]

LEMMA DatagramType ==
  ASSUME NEW d \in Datagram
  PROVE  /\ d.msgs \in Seq(SubMessage) /\ Len(d.msgs) \in Nat
         /\ DOMAIN d.msgs = 1 .. Len(d.msgs)
         /\ d.n \in Nat /\ d.seq \in Nat
<1>1. d.msgs \in Seq(SubMessage)
  BY DatagramAssumption DEF SubMessage
<1>2. d.n \in 0 .. 255 /\ d.seq \in 0 .. 2 * Byte3 - 1
  BY DatagramAssumption
<1>3. d.n \in Nat /\ d.seq \in Nat
  BY <1>2, SMT
<1> QED BY <1>1, <1>3, LenProperties

(* parse() reads a prefix of the sub-messages, and all of them if they are *)
(* as many as announced and of known types.                                *)
Reads(d) == {k \in 1 .. Len(d.msgs) : CanRead(d, k)}

LEMMA ReadsCount ==
  ASSUME NEW d \in Datagram
  PROVE  Cardinality(Reads(d)) \in Nat /\ Cardinality(Reads(d)) <= Len(d.msgs)
<1>1. Len(d.msgs) \in Nat
  BY DatagramType
<1>2. IsFiniteSet(1 .. Len(d.msgs)) /\ Cardinality(1 .. Len(d.msgs)) = Len(d.msgs)
  BY <1>1, FS_Interval
<1> QED BY <1>2, FS_Subset, FS_CardinalityType DEF Reads

LEMMA ReadsPrefix ==
  ASSUME NEW d \in Datagram
  PROVE  /\ Len(Readable(d)) \in 0 .. Len(d.msgs)
         /\ DOMAIN Readable(d) = 1 .. Len(Readable(d))
         /\ \A i \in 1 .. Len(Readable(d)) : Readable(d)[i] = d.msgs[i]
<1>1. d.msgs \in Seq(SubMessage) /\ Len(d.msgs) \in Nat
  BY DatagramType
<1>2. Cardinality(Reads(d)) \in Nat /\ Cardinality(Reads(d)) <= Len(d.msgs)
  BY ReadsCount
<1>3. Readable(d) = SubSeq(d.msgs, 1, Cardinality(Reads(d)))
  BY DEF Readable, Reads
<1> QED BY <1>1, <1>2, <1>3

(* Whatever it reads is of a known type.                                   *)
LEMMA ReadsKnown ==
  ASSUME NEW d \in Datagram, NEW i \in 1 .. Len(Readable(d))
  PROVE  d.msgs[i].type \in Types
<1>1. d.msgs \in Seq(SubMessage) /\ Len(d.msgs) \in Nat /\ d.n \in Nat
  BY DatagramType
<1>2. Cardinality(Reads(d)) \in Nat /\ Cardinality(Reads(d)) <= Len(d.msgs)
  BY ReadsCount
<1>3. i \in 1 .. Cardinality(Reads(d)) /\ i \in 1 .. Len(d.msgs)
  <2>1. Readable(d) = SubSeq(d.msgs, 1, Cardinality(Reads(d)))
    BY DEF Readable, Reads
  <2> QED BY <1>1, <1>2, <2>1
<1>4. ASSUME ~ CanRead(d, i) PROVE FALSE
  <2>1. Reads(d) \subseteq 1 .. i - 1
    BY <1>1, <1>3, <1>4 DEF Reads, CanRead
  <2>2. IsFiniteSet(1 .. i - 1) /\ Cardinality(1 .. i - 1) = i - 1
    BY <1>3, FS_Interval
  <2>3. Cardinality(Reads(d)) <= i - 1
    BY <2>1, <2>2, FS_Subset
  <2> QED BY <1>2, <1>3, <2>3
<1> QED BY <1>3, <1>4 DEF CanRead

LEMMA ReadsWhole ==
  ASSUME NEW d \in Datagram, WellFormed(d)
  PROVE  Len(Readable(d)) = d.n
<1>1. d.msgs \in Seq(SubMessage) /\ Len(d.msgs) \in Nat
  BY DatagramType
<1>2. Reads(d) = 1 .. Len(d.msgs)
  BY <1>1 DEF Reads, WellFormed, CanRead
<1>3. Cardinality(Reads(d)) = Len(d.msgs)
  BY <1>1, <1>2, FS_Interval
<1>4. Readable(d) = SubSeq(d.msgs, 1, Len(d.msgs))
  BY <1>3 DEF Readable, Reads
<1> QED BY <1>1, <1>4 DEF WellFormed

-----------------------------------------------------------------------------
(* What parse() does with one datagram.                                    *)
LEMMA MisreadsNothing ==
  ASSUME ShortSequences, NEW d \in Datagram
  PROVE  Parse(TRUE, d) = [calls |-> <<>>, synced |-> FALSE]
<1>1. d.seq \in Nat /\ d.seq < Byte3
  BY DatagramType DEF ShortSequences
<1>2. Byte3 \in Nat /\ Byte3 > 0
  BY SMT DEF Byte2, Byte3
<1>3. MisreadCount(d) = 0
  BY <1>1, <1>2, SMT DEF MisreadCount
<1> QED BY <1>3 DEF Parse, Misaligned

LEMMA OneParse ==
  ASSUME ShortSequences, NEW d \in Datagram, NEW b \in BOOLEAN
  PROVE  LET r == Parse(b, d)
         IN  /\ r.synced \in BOOLEAN
             /\ r.synced => ~ b /\ Rejected(d)
             /\ WellFormed(d) => Len(r.calls) \in {0, d.n}
             /\ ~ b /\ ~ Rejected(d) /\ d.n > 0 => r.calls # <<>>
             /\ \A i \in DOMAIN r.calls :
                  /\ Filter(d.src) /\ i \in DOMAIN d.msgs
                  /\ r.calls[i] = Call(d.src, d.msgs[i])
                  /\ d.msgs[i].type \in Types
<1> DEFINE made == [i \in 1 .. Len(Readable(d)) |-> Call(d.src, Readable(d)[i])]
<1>0. /\ d.msgs \in Seq(SubMessage) /\ Len(d.msgs) \in Nat
      /\ d.n \in Nat /\ DOMAIN d.msgs = 1 .. Len(d.msgs)
  BY DatagramType
<1>1. CASE b
  <2>1. Parse(b, d) = [calls |-> <<>>, synced |-> FALSE]
    <3>1. b = TRUE
      BY <1>1
    <3> QED BY <3>1, MisreadsNothing
  <2>2. Len(<<>>) = 0 /\ DOMAIN <<>> = {}
    OBVIOUS
  <2>3. Parse(b, d).calls = <<>> /\ Parse(b, d).synced = FALSE
    BY <2>1
  <2> QED BY <1>1, <2>2, <2>3
<1>2. CASE ~ b /\ ~ Filter(d.src)
  <2>1. Parse(b, d) = [calls |-> <<>>, synced |-> TRUE]
    BY <1>2 DEF Parse, Aligned
  <2> QED BY <1>2, <2>1 DEF Rejected
<1>3. CASE ~ b /\ Filter(d.src)
  <2>1. Parse(b, d) = [calls |-> made, synced |-> Len(Readable(d)) < d.n]
    BY <1>3 DEF Parse, Aligned
  <2>2. Len(Readable(d)) \in 0 .. Len(d.msgs)
    BY ReadsPrefix
  <2>3. Len(made) = Len(Readable(d)) /\ DOMAIN made = 1 .. Len(Readable(d))
    BY <1>0, <2>2
  <2>4. \A i \in DOMAIN made : i \in DOMAIN d.msgs /\ made[i] = Call(d.src, d.msgs[i])
                               /\ d.msgs[i].type \in Types
    BY <1>0, <2>2, <2>3, ReadsPrefix, ReadsKnown
  <2>5. WellFormed(d) => Len(Readable(d)) = d.n
    BY ReadsWhole
  <2> HIDE DEF made
  <2>6. d.n > 0 /\ Len(made) = d.n => made # <<>>
    OBVIOUS
  <2> QED BY <1>0, <1>3, <2>1, <2>2, <2>3, <2>4, <2>5, <2>6 DEF Rejected
<1> QED BY <1>1, <1>2, <1>3

-----------------------------------------------------------------------------
LEMMA CallMsg == ASSUME NEW src, NEW msg PROVE Call(src, msg).msg = msg
BY DEF Call

Results == {Parse(b, d).calls : b \in BOOLEAN, d \in Datagram}

(* m_sync is still set only if the last datagram was rejected.             *)
IInv ==
  /\ arrived \in Seq(Datagram) /\ calls \in Seq(Results)
  /\ Len(calls) = Len(arrived)
  /\ synced \in BOOLEAN
  /\ synced => Len(arrived) > 0 /\ Rejected(arrived[Len(arrived)])
  /\ TypeOK
  /\ OnlyForeignCalls /\ WholeOrNothing /\ LossAfterRejected

LEMMA InitInv == Init => IInv
<1> SUFFICES ASSUME Init PROVE IInv
  OBVIOUS
<1>1. arrived = <<>> /\ calls = <<>> /\ synced = FALSE
  BY DEF Init
<1>2. Len(<<>>) = 0 /\ DOMAIN <<>> = {}
  OBVIOUS
<1>3. <<>> \in Seq(Datagram) /\ <<>> \in Seq(Results)
  BY EmptySeq
<1>4. OnlyForeignCalls /\ WholeOrNothing /\ LossAfterRejected
  BY <1>1, <1>2 DEF OnlyForeignCalls, WholeOrNothing, LossAfterRejected
<1>5. TypeOK
  BY <1>1, <1>2, <1>3 DEF TypeOK
<1> QED BY <1>1, <1>2, <1>3, <1>4, <1>5 DEF IInv

LEMMA ReceiveInv ==
  ASSUME ShortSequences, IInv, NEW d \in Datagram, Receive(d)
  PROVE  IInv'
<1> DEFINE r == Parse(synced, d)
           n == Len(arrived) + 1
<1>1. /\ synced' = r.synced /\ arrived' = Append(arrived, d)
      /\ calls' = Append(calls, r.calls)
  BY DEF Receive
<1>2. r.calls \in Results
  BY DEF IInv, Results
<1>3. /\ r.synced \in BOOLEAN
      /\ r.synced => ~ synced /\ Rejected(d)
      /\ WellFormed(d) => Len(r.calls) \in {0, d.n}
      /\ ~ synced /\ ~ Rejected(d) /\ d.n > 0 => r.calls # <<>>
      /\ \A i \in DOMAIN r.calls :
           /\ Filter(d.src) /\ i \in DOMAIN d.msgs
           /\ r.calls[i] = Call(d.src, d.msgs[i])
           /\ d.msgs[i].type \in Types
  BY OneParse DEF IInv
<1> HIDE DEF r
<1>4. /\ arrived' \in Seq(Datagram) /\ calls' \in Seq(Results)
      /\ Len(arrived') = n /\ Len(calls') = n /\ n \in Nat \ {0}
      /\ arrived'[n] = d /\ calls'[n] = r.calls
      /\ DOMAIN calls' = 1 .. n /\ DOMAIN calls = 1 .. n - 1
      /\ \A k \in 1 .. n - 1 : arrived'[k] = arrived[k] /\ calls'[k] = calls[k]
  <2>1. arrived \in Seq(Datagram) /\ calls \in Seq(Results)
        /\ Len(calls) = Len(arrived) /\ Len(arrived) \in Nat
    BY DEF IInv
  <2> QED BY <1>1, <1>2, <2>1, AppendProperties, LenProperties
<1>5. synced => n > 1 /\ Rejected(arrived'[n - 1])
  <2>1. synced => Len(arrived) > 0 /\ Rejected(arrived[Len(arrived)])
    BY DEF IInv
  <2> QED BY <1>4, <2>1
<1> HIDE DEF n
<1>6. OnlyForeignCalls'
  BY <1>3, <1>4 DEF IInv, OnlyForeignCalls, Filter
<1>7. WholeOrNothing'
  BY <1>3, <1>4 DEF IInv, WholeOrNothing
<1>8. LossAfterRejected'
  <2> SUFFICES ASSUME NEW k \in 1 .. n, Lost(k)'
               PROVE  k > 1 /\ Rejected(arrived'[k - 1])
    BY <1>4 DEF LossAfterRejected
  <2>1. CASE k = n
    BY <1>3, <1>4, <1>5, <2>1 DEF Lost, IInv
  <2>2. CASE k \in 1 .. n - 1
    <3>1. Lost(k)
      BY <1>4, <2>2 DEF Lost
    <3>2. k > 1 /\ Rejected(arrived[k - 1])
      BY <1>4, <2>2, <3>1 DEF IInv, LossAfterRejected
    <3> QED BY <1>4, <2>2, <3>2
  <2> QED BY <1>4, <2>1, <2>2
<1>9. synced' \in BOOLEAN
      /\ (synced' => Len(arrived') > 0 /\ Rejected(arrived'[Len(arrived')]))
  BY <1>1, <1>3, <1>4
<1>10. TypeOK'
  <2>1. ASSUME NEW i \in DOMAIN r.calls PROVE r.calls[i].msg.type \in Types
    <3>1. r.calls[i] = Call(d.src, d.msgs[i]) /\ d.msgs[i].type \in Types
      BY <1>3
    <3>2. r.calls[i].msg = d.msgs[i]
      BY <3>1, CallMsg
    <3> QED BY <3>1, <3>2
  <2>2. \A k \in 1 .. n - 1 : \A i \in DOMAIN calls[k] : calls[k][i].msg.type \in Types
    BY <1>4 DEF IInv, TypeOK
  <2>3. \A k \in 1 .. n : \A i \in DOMAIN calls'[k] : calls'[k][i].msg.type \in Types
    BY <1>4, <2>1, <2>2
  <2> QED BY <1>4, <1>9, <2>3 DEF TypeOK
<1> QED BY <1>4, <1>6, <1>7, <1>8, <1>9, <1>10 DEF IInv, Rejected

LEMMA NextInv == ShortSequences /\ IInv /\ [Next]_vars => IInv'
<1> SUFFICES ASSUME ShortSequences, IInv, [Next]_vars PROVE IInv'
  OBVIOUS
<1>1. CASE Next
  BY <1>1, ReceiveInv DEF Next
<1>2. CASE UNCHANGED vars
  BY <1>2 DEF vars, IInv, TypeOK, OnlyForeignCalls, WholeOrNothing, LossAfterRejected,
              Lost
<1> QED BY <1>1, <1>2

THEOREM InvariantHolds == ASSUME ShortSequences PROVE Spec => []IInv
<1>1. IInv /\ [Next]_vars => IInv'
  BY NextInv
<1> QED BY <1>1, InitInv, PTL DEF Spec

(* Type correctness: a listener is called for known sub-messages only.     *)
THEOREM TypeCorrect == ASSUME ShortSequences PROVE Spec => []TypeOK
<1>1. IInv => TypeOK
  BY DEF IInv
<1> QED BY <1>1, InvariantHolds, PTL

(* Listeners hear the other senders only, and hear what they sent          *)
(* (README.md:185).                                                        *)
THEOREM OnlyForeignHeard == ASSUME ShortSequences PROVE Spec => []OnlyForeignCalls
<1>1. IInv => OnlyForeignCalls
  BY DEF IInv
<1> QED BY <1>1, InvariantHolds, PTL

(* A well-formed datagram is dispatched whole or not at all.               *)
THEOREM DispatchedWhole == ASSUME ShortSequences PROVE Spec => []WholeOrNothing
<1>1. IInv => WholeOrNothing
  BY DEF IInv
<1> QED BY <1>1, InvariantHolds, PTL

(* A datagram is lost to the parser only behind a rejected one             *)
(* (marshaller.cpp:184, 230).                                              *)
THEOREM LostOnlyAfterRejected == ASSUME ShortSequences PROVE Spec => []LossAfterRejected
<1>1. IInv => LossAfterRejected
  BY DEF IInv
<1> QED BY <1>1, InvariantHolds, PTL
=============================================================================
