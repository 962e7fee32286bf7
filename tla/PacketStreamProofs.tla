------------------------ MODULE PacketStreamProofs -------------------------
(***************************************************************************)
(* Type correctness of the stream parsers, for every modulus, every set of *)
(* parsers and options and every set of datagrams.  The work is in the     *)
(* lemma that what the parser accepts has a well-formed stream key.        *)
(***************************************************************************)
EXTENDS PacketStream, ParserProofs

\* Every accepted datagram has a well-formed stream key and a four-bit number.
LEMMA AcceptedKey ==
  ASSUME NEW d, NEW o, IsSlice(d), ParsePacketExact(d, o).error = Ok
  PROVE  LET prologue == ParsePacketExact(d, o).packet.prologue
         IN /\ SequenceKeyOf(prologue) \in SequenceKey
            /\ prologue.header.sequence \in 0..15
<1> DEFINE words == FrameOf(d)
<1>1. /\ ParsePacketExact(d, o).packet = PacketOf(words)
      /\ PacketError(o, words) = Ok
      /\ words \in Seq(Word)
  BY ExactReturnsTheFrame, FrameType
<1> HIDE DEF words
<1>2. PacketOf(words).prologue = PrologueOf(words)
  BY DEF PacketOf
<1>3. ReadU32(words, 0) \in Word /\ ReadU32(words, 1) \in Word
  BY <1>1, ReadU32Type
<1>4. HeaderOf(ReadU32(words, 0)).sequence \in 0..15
  <2>1. ReadU32(words, 0)[1] \in Half
    BY <1>3 DEF Word
  <2>2. \A n \in Half : n % 16 \in 0..15
    BY SMTT(20) DEF Half
  <2> QED
    BY <2>1, <2>2 DEF HeaderOf
<1>5. SequenceKeyOf(PrologueOf(words)) \in SequenceKey
  BY <1>1, <1>3, PacketErrorOk DEF SequenceKeyOf, PrologueOf, SequenceKey
<1> QED
  BY <1>1, <1>2, <1>4, <1>5 DEF PrologueOf

-----------------------------------------------------------------------------

\* Observing keeps a tracker a tracker, whatever the number.
LEMMA ObserveType ==
  ASSUME NEW t, Tracker(t), NEW key \in SequenceKey, NEW sequence \in Nat
  PROVE  Tracker(Observe(t, key, sequence))
<1>1. sequence % Modulus \in SequenceNumber
  BY ModulusAssumption DEF SequenceNumber
<1> QED
  BY <1>1 DEF Observe, Tracker

\* A status is one of the four, with numbers below the modulus.
LEMMA StatusType ==
  ASSUME NEW t, Tracker(t), NEW key, NEW sequence \in Nat
  PROVE  ObservedStatus(t, key, sequence) \in SequenceStatus
<1>1. sequence % Modulus \in SequenceNumber
  BY ModulusAssumption DEF SequenceNumber
<1>2. CASE key \notin DOMAIN t
  BY <1>2 DEF ObservedStatus, SequenceStatus
<1>3. CASE key \in DOMAIN t
  <2>1. (t[key] + 1) % Modulus \in SequenceNumber
    <3>1. t[key] \in SequenceNumber
      BY <1>3 DEF Tracker
    <3> QED
      BY <3>1, ModulusAssumption DEF SequenceNumber
  <2>2. Gap((t[key] + 1) % Modulus, sequence % Modulus) \in SequenceStatus
    BY <1>1, <2>1 DEF SequenceStatus
  <2> QED
    BY <1>3, <2>2 DEF ObservedStatus, SequenceStatus
<1> QED
  BY <1>2, <1>3

\* A reset tracker is a tracker.
LEMMA NothingSeenType == Tracker(NothingSeen)
BY DEF Tracker, NothingSeen

\* An accepted datagram leaves well-typed trackers and results.
LEMMA ParseOkType ==
  ASSUME TypeOK, NEW p \in Parsers, NEW d, IsSlice(d), ParseOk(p, d)
  PROVE  TypeOK'
<1> DEFINE prologue == ParsePacketExact(d, OptionsOf[p]).packet.prologue
           key      == SequenceKeyOf(prologue)
           sequence == prologue.header.sequence
<1>1. /\ ParsePacketExact(d, OptionsOf[p]).error = Ok
      /\ last_seen' = [last_seen EXCEPT ![p] = Observe(@, key, sequence)]
      /\ result' = [result EXCEPT ![p] =
           [error           |-> Ok,
            packet          |-> ParsePacketExact(d, OptionsOf[p]).packet,
            sequence_status |-> ObservedStatus(last_seen[p], key, sequence)]]
  BY DEF ParseOk
<1>2. key \in SequenceKey /\ sequence \in 0..15
  BY <1>1, AcceptedKey
<1> HIDE DEF prologue, key, sequence
<1>3. /\ Tracker(Observe(last_seen[p], key, sequence))
      /\ ObservedStatus(last_seen[p], key, sequence) \in SequenceStatus
  BY <1>2, ObserveType, StatusType DEF TypeOK
<1>4. DOMAIN last_seen' = Parsers /\ \A q \in Parsers : Tracker(last_seen'[q])
  BY <1>1, <1>3 DEF TypeOK
<1>5. DOMAIN result' = Parsers
  BY <1>1 DEF TypeOK
<1>6. ASSUME NEW q \in Parsers, result'[q].error = Ok
      PROVE  result'[q].sequence_status \in SequenceStatus
  BY <1>1, <1>3, <1>6 DEF TypeOK
<1> QED
  BY <1>4, <1>5, <1>6 DEF TypeOK, Tracker

\* A refused datagram does too.
LEMMA ParseErrType ==
  ASSUME TypeOK, NEW p \in Parsers, NEW d, ParseErr(p, d)
  PROVE  TypeOK'
<1>1. /\ ParsePacketExact(d, OptionsOf[p]).error # Ok
      /\ result' = [result EXCEPT ![p] = [error |-> ParsePacketExact(d, OptionsOf[p]).error]]
      /\ UNCHANGED last_seen
  BY DEF ParseErr
<1>2. \A q \in Parsers : result'[q].error = Ok => result'[q].sequence_status \in SequenceStatus
  BY <1>1 DEF TypeOK
<1> QED
  BY <1>1, <1>2 DEF TypeOK, Tracker

\* A reset leaves one empty tracker more.
LEMMA ResetType ==
  ASSUME TypeOK, NEW p \in Parsers, ResetSequences(p)
  PROVE  TypeOK'
<1>1. \A q \in Parsers : Tracker(last_seen'[q])
  BY NothingSeenType DEF TypeOK, ResetSequences
<1>2. \A q \in Parsers : result'[q].error = Ok => result'[q].sequence_status \in SequenceStatus
  BY DEF TypeOK, ResetSequences, NoResult, Ok
<1> QED
  BY <1>1, <1>2 DEF TypeOK, ResetSequences, Tracker

\* Trackers start empty.
LEMMA InitType == Init => TypeOK
BY NothingSeenType DEF Init, TypeOK, NoResult, Ok

(* Whatever datagrams arrive, in whatever order and between whatever       *)
(* resets, every tracker maps well-formed stream keys to numbers below the *)
(* modulus and every status is one of the four (packet_stream.rs 56-68).   *)
THEOREM StreamTypeCorrect == Spec => []TypeOK
<1>1. TypeOK /\ [Next]_vars => TypeOK'
  <2> SUFFICES ASSUME TypeOK, [Next]_vars
               PROVE  TypeOK'
    OBVIOUS
  <2>1. ASSUME NEW p \in Parsers, NEW d \in Datagrams, ParseOk(p, d)
        PROVE  TypeOK'
    BY <2>1, ParseOkType, DatagramsAssumption DEF IsSlice
  <2>2. ASSUME NEW p \in Parsers, NEW d \in Datagrams, ParseErr(p, d)
        PROVE  TypeOK'
    BY <2>2, ParseErrType
  <2>3. ASSUME NEW p \in Parsers, ResetSequences(p)
        PROVE  TypeOK'
    BY <2>3, ResetType
  <2>4. CASE UNCHANGED vars
    BY <2>4 DEF vars, TypeOK, Tracker
  <2> QED
    BY <2>1, <2>2, <2>3, <2>4 DEF Next, ParseDatagram
<1> QED
  BY InitType, <1>1, PTL DEF Spec
=============================================================================
