--------------------------- MODULE UdpLinkProofs ---------------------------
(***************************************************************************)
(* Six theorems on the two example programs, for every number of           *)
(* senders and receivers and whatever becomes of the datagrams.            *)
(*                                                                         *)
(* A sender is never late with a context, for every interval and every     *)
(* size of its packet counter.  That the counter may wrap at a number that *)
(* is no multiple of the interval is the point: zero is a multiple, so the *)
(* wrap can only bring a context forward.  The inductive invariant says    *)
(* where in the interval a sender is.                                      *)
(*                                                                         *)
(* The writer never refuses a packet of a sender, so that no `?` behind it *)
(* ends the loop; and with that the link is well typed.                    *)
(*                                                                         *)
(* A receiver that stopped, stopped at a datagram of others: what a sender *)
(* writes is what the parser reads, fits the receive buffer, and is what   *)
(* arrives, if it arrives.                                                 *)
(*                                                                         *)
(* And the programs, with the order their datagrams had, are a             *)
(* DatagramFlow: senders are its sources, a sender run again is a restart, *)
(* a receiver run again a reset.  Its assumptions on what a source may     *)
(* send for a number are theorems here.                                    *)
(***************************************************************************)
EXTENDS UdpOrder, PacketStreamProofs, WriteBackProofs, FiniteSetTheorems

\* Where in the interval the turns of a sender are.
InStep(s) ==
  /\ pc[s] = "Context" => packet_count[s] % ContextInterval = 0
  /\ pc[s] = "Data" => since_context[s] = packet_count[s] % ContextInterval

CadenceInv ==
  /\ pc \in [Senders -> {"Context", "Data", "Stopped"}]
  /\ packet_count \in [Senders -> 0..(PacketCounts - 1)]
  /\ since_context \in [Senders -> Nat]
  /\ \A s \in Senders : InStep(s)
  /\ ContextWithinInterval

-----------------------------------------------------------------------------
(* Remainders.                                                             *)

\* A remainder goes up by one, or starts again at zero.
LEMMA NextRemainder ==
  ASSUME NEW n \in Nat, NEW m \in Nat \ {0}, (n + 1) % m # 0
  PROVE  (n + 1) % m = (n % m) + 1
<1>1. /\ n = m * (n \div m) + (n % m)
      /\ n % m \in 0..(m - 1)
      /\ n \div m \in Int
  OBVIOUS
<1>2. /\ n + 1 = m * ((n + 1) \div m) + ((n + 1) % m)
      /\ (n + 1) % m \in 0..(m - 1)
      /\ (n + 1) \div m \in Int
  OBVIOUS
<1> DEFINE d == ((n + 1) \div m) - (n \div m)
           r == ((n + 1) % m) - (n % m)
<1>3. d \in Int /\ r \in Int /\ m * d = 1 - r /\ r \in (2 - m)..(m - 1)
  <2>1. m * d = m * ((n + 1) \div m) - m * (n \div m)
    BY <1>1, <1>2
  <2> QED
    BY <1>1, <1>2, <2>1
<1> HIDE DEF d, r
<1>4. d = 0
  <2>1. CASE d >= 1
    <3>1. m * d >= m
      BY <1>3, <2>1
    <3> QED
      BY <1>3, <3>1
  <2>2. CASE d <= -1
    <3>1. m * d <= -m
      BY <1>3, <2>2
    <3> QED
      BY <1>3, <3>1
  <2> QED
    BY <1>3, <2>1, <2>2
<1>5. r = 1
  BY <1>3, <1>4
<1> QED
  BY <1>1, <1>2, <1>5 DEF r

\* A number below m is its own remainder.
LEMMA OwnRemainder ==
  ASSUME NEW m \in Nat \ {0}, NEW n \in 0..(m - 1)
  PROVE  n % m = n
OBVIOUS

\* The program's packet counter: it counts on, or a context is due.
LEMMA CountedOn ==
  ASSUME NEW n \in 0..(PacketCounts - 1), NEW count, count = (n + 1) % PacketCounts
  PROVE  /\ count \in 0..(PacketCounts - 1)
         /\ count % ContextInterval \in 0..(ContextInterval - 1)
         /\ ContextDue(count) => count % ContextInterval = 0
         /\ ~ContextDue(count) => count % ContextInterval = (n % ContextInterval) + 1
<1>1. /\ PacketCounts \in Nat \ {0} /\ ContextInterval \in Nat \ {0}
      /\ n \in Nat
  BY CountsAssumption, IntervalAssumption
<1>2. count \in 0..(PacketCounts - 1)
  BY <1>1
<1>3. 0 % ContextInterval = 0
  BY <1>1
<1>4. ASSUME ~ContextDue(count)
      PROVE  count % ContextInterval = (n % ContextInterval) + 1
  <2>1. count # 0
    BY <1>3, <1>4 DEF ContextDue
  <2>2. count = n + 1
    BY <1>1, <2>1, NextRemainder, OwnRemainder
  <2>3. (n + 1) % ContextInterval # 0
    BY <1>4, <2>2 DEF ContextDue
  <2> QED
    BY <1>1, <2>2, <2>3, NextRemainder
<1>5. count % ContextInterval \in 0..(ContextInterval - 1)
  BY <1>1, <1>2
<1> QED
  BY <1>2, <1>4, <1>5 DEF ContextDue

-----------------------------------------------------------------------------
(* The turns of one sender.                                                *)

\* A turn that sends a context starts the interval.
LEMMA ContextTurnKeeps ==
  ASSUME NEW s \in Senders, CadenceInv, ContextTurn(s)
  PROVE  CadenceInv'
<1>1. ContextInterval \in Nat \ {0}
  BY IntervalAssumption
<1>2. /\ pc' \in [Senders -> {"Context", "Data", "Stopped"}]
      /\ packet_count' \in [Senders -> 0..(PacketCounts - 1)]
      /\ since_context' \in [Senders -> Nat]
  BY DEF CadenceInv, ContextTurn
<1>3. ASSUME NEW t \in Senders
      PROVE  InStep(t)' /\ since_context'[t] <= ContextInterval
  <2>1. CASE t = s
    BY <1>1, <2>1 DEF CadenceInv, InStep, ContextTurn, ContextWithinInterval
  <2>2. CASE t # s
    BY <2>2 DEF CadenceInv, InStep, ContextTurn, ContextWithinInterval
  <2> QED
    BY <2>1, <2>2
<1> QED
  BY <1>2, <1>3 DEF CadenceInv, ContextWithinInterval

\* A turn that sends data advances in the interval, and ends it in time.
LEMMA DataTurnKeeps ==
  ASSUME NEW s \in Senders, CadenceInv, DataTurn(s)
  PROVE  CadenceInv'
<1> DEFINE n     == packet_count[s]
           count == (n + 1) % PacketCounts
           since == since_context[s]
<1>1. /\ ContextInterval \in Nat \ {0}
      /\ n \in 0..(PacketCounts - 1)
      /\ since \in Nat
      /\ since = n % ContextInterval
  BY IntervalAssumption DEF CadenceInv, InStep, DataTurn
<1>2. /\ pc[s] = "Data"
      /\ pc' = [pc EXCEPT ![s] = IF ContextDue(count) THEN "Context" ELSE "Data"]
      /\ packet_count' = [packet_count EXCEPT ![s] = count]
      /\ since_context' =
           [since_context EXCEPT ![s] = IF since > ContextInterval THEN since ELSE since + 1]
  BY DEF DataTurn
<1>3. /\ pc \in [Senders -> {"Context", "Data", "Stopped"}]
      /\ packet_count \in [Senders -> 0..(PacketCounts - 1)]
      /\ since_context \in [Senders -> Nat]
      /\ \A t \in Senders : InStep(t) /\ since_context[t] <= ContextInterval
  BY DEF CadenceInv, ContextWithinInterval
<1>4. since < ContextInterval
  <2>1. n \in Nat
    BY <1>1, CountsAssumption
  <2> QED
    BY <1>1, <2>1
<1>5. /\ count \in 0..(PacketCounts - 1)
      /\ ContextDue(count) => count % ContextInterval = 0
      /\ ~ContextDue(count) => count % ContextInterval = since + 1
  BY <1>1, CountedOn
<1> HIDE DEF n, count, since
<1>6. since_context' = [since_context EXCEPT ![s] = since + 1]
  <2>1. ~(since > ContextInterval)
    BY <1>1, <1>4
  <2> QED
    BY <1>2, <2>1
<1>7. /\ pc' \in [Senders -> {"Context", "Data", "Stopped"}]
      /\ packet_count' \in [Senders -> 0..(PacketCounts - 1)]
      /\ since_context' \in [Senders -> Nat]
  BY <1>1, <1>2, <1>3, <1>5, <1>6
<1>8. ASSUME NEW t \in Senders
      PROVE  InStep(t)' /\ since_context'[t] <= ContextInterval
  <2>1. CASE t = s
    <3>1. /\ pc'[s] = IF ContextDue(count) THEN "Context" ELSE "Data"
          /\ packet_count'[s] = count
          /\ since_context'[s] = since + 1
      BY <1>2, <1>3, <1>6
    <3> QED
      BY <1>1, <1>4, <1>5, <2>1, <3>1 DEF InStep
  <2>2. CASE t # s
    BY <1>2, <1>3, <1>6, <2>2 DEF InStep
  <2> QED
    BY <2>1, <2>2
<1> QED
  BY <1>7, <1>8 DEF CadenceInv, ContextWithinInterval

\* A sender that stops stands where it was; one that is run again begins.
LEMMA StopKeeps ==
  ASSUME NEW s \in Senders, CadenceInv, StopSender(s)
  PROVE  CadenceInv'
BY DEF CadenceInv, InStep, StopSender, ContextWithinInterval

LEMMA StartKeeps ==
  ASSUME NEW s \in Senders, CadenceInv, StartSender(s)
  PROVE  CadenceInv'
<1>1. /\ ContextInterval \in Nat \ {0} /\ 0 \in 0..(PacketCounts - 1)
      /\ 0 % ContextInterval = 0
  BY IntervalAssumption, CountsAssumption
<1> QED
  BY <1>1 DEF CadenceInv, InStep, StartSender, Fresh, ContextWithinInterval

-----------------------------------------------------------------------------

\* Senders begin in step.
LEMMA LInitInv == LInit => CadenceInv
<1>1. /\ ContextInterval \in Nat \ {0} /\ 0 \in 0..(PacketCounts - 1)
      /\ 0 % ContextInterval = 0
  BY IntervalAssumption, CountsAssumption
<1> QED
  BY <1>1 DEF LInit, UInit, CadenceInv, InStep, ContextWithinInterval

\* No step of the senders, the network or the receivers puts one out of step.
LEMMA LNextInv == CadenceInv /\ [LNext]_lvars => CadenceInv'
<1> SUFFICES ASSUME CadenceInv, [LNext]_lvars
             PROVE  CadenceInv'
  OBVIOUS
<1> USE DEF CadenceInv, InStep, ContextWithinInterval
<1>1. ASSUME NEW s \in Senders, SenderStep(s)
      PROVE  CadenceInv'
  BY <1>1, ContextTurnKeeps, DataTurnKeeps
    DEF SenderStep, LSendContext, LSendData, SendContext, SendData
<1>2. ASSUME NEW s \in Senders, LStopSender(s)
      PROVE  CadenceInv'
  BY <1>2, StopKeeps DEF LStopSender
<1>3. ASSUME NEW s \in Senders, LStartSender(s)
      PROVE  CadenceInv'
  BY <1>3, StartKeeps DEF LStartSender
<1>4. ASSUME UNCHANGED uvars
      PROVE  CadenceInv'
  BY <1>4 DEF uvars
<1>5. ASSUME NEW m \in network, Deliver(m) \/ Lose(m)
      PROVE  CadenceInv'
  BY <1>4, <1>5 DEF Deliver, Receive, Lose
<1>6. ASSUME NEW p \in Parsers,
             (\E d \in Datagrams : DeliverForeign(p, d)) \/ StopReceiver(p) \/ StartReceiver(p)
      PROVE  CadenceInv'
  BY <1>4, <1>6 DEF DeliverForeign, Receive, StopReceiver, StartReceiver
<1>7. CASE UNCHANGED lvars
  BY <1>4, <1>7 DEF lvars
<1> QED
  BY <1>1, <1>2, <1>3, <1>5, <1>6, <1>7 DEF LNext

(* However long a sender runs, no more data packets than the interval go   *)
(* by without a context, whether or not the wrap of packet_count is a      *)
(* multiple of it (udp_sender.rs 70-74: 2^64 is no multiple of 5).         *)
THEOREM ContextNeverLate == LSpec => []ContextWithinInterval
<1>1. CadenceInv => ContextWithinInterval
  BY DEF CadenceInv
<1> QED
  BY <1>1, LInitInv, LNextInv, PTL DEF LSpec

-----------------------------------------------------------------------------
(* What a sender builds, and that the writer takes it.                     *)

\* The clock and the counters yield what the fields of a packet can hold.
LEMMA CountersFit ==
  ASSUME NEW sequence \in SequenceNumber
  PROVE  sequence \in Nat /\ sequence <= 15 /\ sequence \in Byte
<1>1. sequence \in Nat /\ sequence <= 15
  BY ModulusAssumption, FourBitsAssumption DEF SequenceNumber
<1> QED
  BY <1>1 DEF Byte

LEMMA ClockType ==
  ASSUME NEW now \in Times
  PROVE  now.integer \in Word /\ now.fractional \in Word64
BY TimesAssumption DEF Word64

\* The constants of the context are words and pairs of words.
LEMMA ContextConstants ==
  /\ STREAM_ID \in Word /\ DIFI_CID \in Word /\ CIF_CONTEXT_CHANGED \in Word
  /\ <<0, 0>> \in Word /\ <<\hA000, 64 * 15 + 15>> \in Word
  /\ 27 \in Half /\ 0 \in Half /\ 0 \in Byte /\ 1 \in Byte /\ 16 \in Byte
<1>1. /\ \h0102 \in Half /\ \h0304 \in Half /\ \h6A \in Half /\ \h621E \in Half
      /\ \hFBB9 \in Half /\ \h8000 \in Half /\ \hA000 \in Half /\ 64 * 15 + 15 \in Half
      /\ 27 \in Half /\ 0 \in Half
  BY HalfOf
<1>2. 0 \in Byte /\ 1 \in Byte /\ 16 \in Byte
  BY DEF Byte
<1> QED
  BY <1>1, <1>2, HalfOf DEF STREAM_ID, DIFI_CID, CIF_CONTEXT_CHANGED

LEMMA ContextFieldsType == SignalContextFields \in SignalContextValue
<1>1. /\ <<0, \h1312>> \in Word /\ <<\hD000, 0>> \in Word /\ <<5, \h9682>> \in Word
      /\ <<\hF000, 0>> \in Word /\ <<0, \h2625>> \in Word /\ <<\hA000, 0>> \in Word
      /\ <<0, 0>> \in Word
  <2>1. /\ \h1312 \in Half /\ \hD000 \in Half /\ \h9682 \in Half /\ 5 \in Half /\ 0 \in Half
        /\ \hF000 \in Half /\ \h2625 \in Half /\ \hA000 \in Half
    BY HalfOf
  <2> QED
    BY <2>1, HalfOf
<1>2. /\ <<<<0, \h1312>>, <<\hD000, 0>>>> \in Word64 /\ <<<<0, 0>>, <<0, 0>>>> \in Word64
      /\ <<<<5, \h9682>>, <<\hF000, 0>>>> \in Word64
      /\ <<<<0, \h2625>>, <<\hA000, 0>>>> \in Word64
  BY <1>1 DEF Word64
<1>3. SignalContextFields.payload_format \in PayloadFormatValue
  BY ContextConstants DEF SignalContextFields, PayloadFormatValue
<1> QED
  BY <1>2, <1>3, ContextConstants DEF SignalContextFields, SignalContextValue

LEMMA ContextHeaderType ==
  ASSUME NEW sequence \in SequenceNumber, NEW now
  PROVE  SignalContextPacket(sequence, now).prologue.header \in PacketHeaderValue
<1>1. sequence \in Nat /\ sequence <= 15 /\ sequence \in Byte
  BY CountersFit
<1>2. 4 \in PacketType /\ 1 \in Tsi /\ 2 \in Tsf
  BY DEF PacketType, ContextWithStreamId, Tsi, Tsf, RealTimePicoseconds
<1>3. HeaderWord(4, 1, 1, 2, sequence, 27) \in Word
  BY <1>1, <1>2, ContextConstants, HeaderWordType
<1>4. Some(Coarse) \in Option({Fine, Coarse})
  <2>1. Coarse \in {Fine, Coarse}
    OBVIOUS
  <2> QED
    BY <2>1, OptionType
<1>5. SignalContextPacket(sequence, now).prologue.header
        = [raw |-> HeaderWord(4, 1, 1, 2, sequence, 27), packet_type |-> 4,
           class_id_indicator |-> TRUE, type_specific_bits |-> 1, tsm |-> Some(Coarse),
           tsi |-> 1, tsf |-> 2, sequence |-> sequence, packet_size_words |-> 27]
  BY DEF SignalContextPacket, ContextWithStreamId, Utc, RealTimePicoseconds,
     SIGNAL_CONTEXT_WORDS
<1> QED
  BY <1>1, <1>2, <1>3, <1>4, <1>5, ContextConstants DEF PacketHeaderValue

LEMMA ContextPacketType ==
  ASSUME NEW sequence \in SequenceNumber, NEW now \in Times
  PROVE  SignalContextPacket(sequence, now) \in PacketValue
<1> DEFINE p == SignalContextPacket(sequence, now)
<1>1. p.prologue.header \in PacketHeaderValue
  BY ContextHeaderType
<1>2. p.prologue.class_id \in ClassIdValue
  <2>1. BasicDataPlane \in InformationClassCode /\ StandardFlowSignalContext \in PacketClassCode
    BY DEF BasicDataPlane, InformationClassCode, StandardFlowSignalContext, PacketClassCode
  <2> QED
    BY <2>1, ContextConstants DEF SignalContextPacket, ClassIdValue
<1>3. p.prologue \in PrologueValue
  <2>1. p.prologue = [header |-> p.prologue.header, stream_id |-> STREAM_ID,
                      class_id |-> p.prologue.class_id,
                      integer_seconds_timestamp |-> now.integer,
                      fractional_seconds_timestamp |-> now.fractional]
    BY DEF SignalContextPacket
  <2> HIDE DEF p
  <2> QED
    BY <1>1, <1>2, <2>1, ContextConstants, ClockType DEF PrologueValue
<1>4. p = [variant |-> "SignalContext", prologue |-> p.prologue, body |-> SignalContextFields]
  BY DEF SignalContextPacket
<1> HIDE DEF p
<1>5. p \in PacketOfVariant("SignalContext", SignalContextValue)
  BY <1>3, <1>4, ContextFieldsType DEF PacketOfVariant
<1> QED
  BY <1>5 DEF PacketValue, p

\* What the parts of the plan are for a context: the header is the planned one.
LEMMA ContextPlan ==
  ASSUME NEW sequence \in SequenceNumber, NEW now
  PROVE  LET p == SignalContextPacket(sequence, now)
         IN /\ PlannedWords(p) = 27 /\ PlannedWordsError(p) = Ok
            /\ PlannedHeader(p) = p.prologue.header
            /\ PrologueWriteError(DefaultOptions, p) = Ok
<1> DEFINE p == SignalContextPacket(sequence, now)
           h == p.prologue.header
           c == p.prologue.class_id
<1>1. p.variant = "SignalContext"
  BY DEF SignalContextPacket
<1>2. h = [raw |-> HeaderWord(4, 1, 1, 2, sequence, 27), packet_type |-> 4,
           class_id_indicator |-> TRUE, type_specific_bits |-> 1, tsm |-> Some(Coarse),
           tsi |-> 1, tsf |-> 2, sequence |-> sequence, packet_size_words |-> 27]
  BY DEF SignalContextPacket, ContextWithStreamId, Utc, RealTimePicoseconds,
     SIGNAL_CONTEXT_WORDS
<1>3. c = [pad_bit_count |-> 0, oui |-> DIFI_CID, information_class |-> 0, packet_class |-> 1]
  BY DEF SignalContextPacket, BasicDataPlane, StandardFlowSignalContext
<1> HIDE DEF p
<1>4. PlannedWords(p) = 27
  BY <1>1 DEF PlannedWords, CountedWords
<1>5. PlannedWordsError(p) = Ok
  BY <1>1, <1>4 DEF PlannedWordsError, Expect, ??, MAX_PACKET_WORDS
<1>6. CanonicalTypeSpecificBits(p) = 1 /\ TsmOf(4, 1) = Some(Coarse)
  <2>1. CanonicalTypeSpecificBits(p) = 1
    BY <1>1, <1>2 DEF CanonicalTypeSpecificBits, HasTsm
  <2>2. TsmOf(4, 1) = Some(Coarse)
    BY DEF TsmOf, ContextWithStreamId
  <2> QED
    BY <2>1, <2>2
<1>7. PlannedHeader(p) = h
  <2>1. /\ h.packet_type = 4 /\ h.tsi = 1 /\ h.tsf = 2 /\ h.sequence = sequence
    BY <1>2
  <2>2. PlannedHeader(p)
          = [raw |-> HeaderWord(h.packet_type, 1, h.tsi, h.tsf, h.sequence, 27),
             packet_type |-> h.packet_type, class_id_indicator |-> TRUE,
             type_specific_bits |-> 1, tsm |-> TsmOf(h.packet_type, 1),
             tsi |-> h.tsi, tsf |-> h.tsf, sequence |-> h.sequence, packet_size_words |-> 27]
    BY <1>4, <1>6 DEF PlannedHeader
  <2> HIDE DEF h
  <2> QED
    BY <1>2, <1>6, <2>1, <2>2
<1>8. ValidatePrologue(DefaultOptions, h, c) = Ok
  <2>1. /\ h.packet_type = 4 /\ h.class_id_indicator = TRUE /\ h.type_specific_bits = 1
        /\ h.tsm = <<1>> /\ h.tsf = 2 /\ c.information_class = 0 /\ c.packet_class = 1
    BY <1>2, <1>3 DEF Some, Coarse
  <2>2. DefaultOptions.standard = "V1_3_0"
    BY DEF DefaultOptions
  <2> HIDE DEF h, c
  <2>3. /\ ValidatePacketTypeAvailable(DefaultOptions, h.packet_type) = Ok
        /\ ValidatePacketClassAvailable(DefaultOptions, c.packet_class) = Ok
        /\ ValidatePacketTypeClass(DefaultOptions, h.packet_type, c.packet_class) = Ok
    BY <2>1, <2>2 DEF ValidatePacketTypeAvailable, PacketTypeAvailable,
       ValidatePacketClassAvailable, PacketClassAvailable, ValidatePacketTypeClass,
       PacketTypeClass, Expect, ContextWithStreamId, StandardFlowSignalContext
  <2>4. ValidateHeaderBits(h, c.packet_class) = Ok
    <3>1. 1 \div 2 = 0
      OBVIOUS
    <3> QED
      BY <2>1, <3>1 DEF ValidateHeaderBits, Expect, ??, SignalDataWithStreamId,
         ContextWithStreamId, VersionWithStreamId, CommandWithStreamId,
         ExtensionCommandWithStreamId
  <2>5. ValidateClassMembership(DefaultOptions, c.information_class, c.packet_class) = Ok
    <3>1. <<0, 1>> \in AllowedV1_3_0
      BY DEF AllowedV1_3_0, StandardFlow, BasicDataPlane, StandardFlowSignalContext
    <3> QED
      BY <2>1, <2>2, <3>1 DEF ValidateClassMembership, AllowsPacketClass, Expect
  <2>6. ValidateTsf(h, c.packet_class) = Ok
    BY <2>1 DEF ValidateTsf, Expect, RealTimeClasses, SampleCountClasses, RealTimePicoseconds,
       SampleCountSignalData, SampleCountSignalContext, SampleCountTimingFlowControl
  <2>7. ValidateTsm(h, c.information_class, c.packet_class) = Ok
    <3>1. ExpectedTsm(0, 1) = 1
      BY DEF ExpectedTsm, VersionFlowSignalContext, StandardFlowSignalContext, BasicFlows,
         BasicDataPlane, Coarse
    <3> QED
      BY <2>1, <3>1 DEF ValidateTsm, ExpectBits, Expect
  <2> QED
    BY <2>3, <2>4, <2>5, <2>6, <2>7 DEF ValidatePrologue, ??
<1>9. PrologueWriteError(DefaultOptions, p) = Ok
  <2>1. h.sequence <= 15 /\ [h EXCEPT !.raw = h.raw] = h
    <3> HIDE DEF h
    <3>1. h.sequence = sequence
      BY <1>2
    <3>2. [h EXCEPT !.raw = h.raw] = h
      BY <1>2
    <3> QED
      BY <3>1, <3>2, CountersFit
  <2>2. ValidateClassId(c) = Ok
    BY <1>3 DEF ValidateClassId, Expect, ??, MaxPadBits
  <2> HIDE DEF h, c
  <2> QED
    BY <1>7, <1>8, <2>1, <2>2 DEF PrologueWriteError, Expect, ??, h, c
<1> QED
  BY <1>4, <1>5, <1>7, <1>9 DEF p

\* The fields of the context are those of the standard.
LEMMA ContextBodyPasses ==
  ASSUME NEW class_id, class_id.pad_bit_count = 0
  PROVE  SignalContextWriteError(SignalContextFields, class_id, 27) = Ok
<1> DEFINE b == SignalContextFields
<1>1. ExpectNoPadding(class_id) = Ok
  BY DEF ExpectNoPadding, Expect
<1>2. ExpectPacketSize("SignalContext", 27) = Ok
  BY DEF ExpectPacketSize, LayoutWords, Expect
<1>3. /\ b.cif0 = CIF_CONTEXT_CHANGED /\ b.context_changed = TRUE
      /\ b.bandwidth = <<<<0, \h1312>>, <<\hD000, 0>>>>
      /\ b.if_reference_frequency = <<<<0, 0>>, <<0, 0>>>>
      /\ b.rf_reference_frequency = <<<<5, \h9682>>, <<\hF000, 0>>>>
      /\ b.if_band_offset = <<<<0, 0>>, <<0, 0>>>>
      /\ b.sample_rate = <<<<0, \h2625>>, <<\hA000, 0>>>>
  BY DEF SignalContextFields
<1>4. /\ ExpectSignalContextCif0(b.cif0) = Ok
      /\ Expect(b.context_changed <=> b.cif0 = CIF_CONTEXT_CHANGED, "FieldMismatch") = Ok
  BY <1>3 DEF ExpectSignalContextCif0, ExpectWordOneOf, Expect
<1>5. /\ IntegerHz(b.bandwidth) = Ok /\ IntegerHz(b.if_reference_frequency) = Ok
      /\ IntegerHz(b.rf_reference_frequency) = Ok /\ IntegerHz(b.if_band_offset) = Ok
      /\ IntegerHz(b.sample_rate) = Ok
  BY <1>3 DEF IntegerHz, Expect
<1>6. PayloadFormatWriteError(b.payload_format) = Ok
  <2>1. b.payload_format = [raw_word0 |-> <<\hA000, 64 * 15 + 15>>, raw_word1 |-> <<0, 0>>,
                            data_item_size_bits |-> 16, item_packing_field_size_bits |-> 16]
    BY DEF SignalContextFields
  <2> HIDE DEF b
  <2> QED
    BY <2>1 DEF PayloadFormatWriteError, Expect, ??
<1> HIDE DEF b
<1> QED
  BY <1>1, <1>2, <1>4, <1>5, <1>6 DEF SignalContextWriteError, ??, b

\* The writer takes the context of a sender, whatever its counter and the clock show.
LEMMA ContextPrepares ==
  ASSUME NEW sequence \in SequenceNumber, NEW now
  PROVE  PrepareError(DefaultOptions, SignalContextPacket(sequence, now)) = Ok
<1> DEFINE p == SignalContextPacket(sequence, now)
<1>1. PlannedWordsError(p) = Ok /\ PrologueWriteError(DefaultOptions, p) = Ok
  BY ContextPlan
<1>2. /\ p.variant = "SignalContext" /\ p.body = SignalContextFields
      /\ p.prologue.header.tsm = Some(Coarse)
      /\ p.prologue.header.packet_size_words = 27 /\ p.prologue.class_id.pad_bit_count = 0
  BY DEF SignalContextPacket, SIGNAL_CONTEXT_WORDS
<1> HIDE DEF p
<1>3. Expect(HasTsm(p) => Present(p.prologue.header.tsm), "MissingField") = Ok
  BY <1>2 DEF Expect, Present, Some, None
<1>4. BodyWriteError(DefaultOptions, p) = Ok
  BY <1>2, ContextBodyPasses DEF BodyWriteError
<1> QED
  BY <1>1, <1>3, <1>4 DEF PrepareError, ??, p

\* The size of a datagram fits in the sixteen bits of a header.
LEMMA DatagramSize ==
  /\ UDP_DATAGRAM_WORDS \in Nat /\ 27 <= UDP_DATAGRAM_WORDS
  /\ UDP_DATAGRAM_WORDS <= 65535
<1>1. UDP_DATAGRAM_WORDS \in 27..MAX_PACKET_WORDS
  BY UdpSizeAssumption
<1>2. MAX_PACKET_WORDS \in Nat
  BY DEF MAX_PACKET_WORDS
<1>3. /\ UDP_DATAGRAM_WORDS \in Nat /\ 27 <= UDP_DATAGRAM_WORDS
      /\ UDP_DATAGRAM_WORDS <= MAX_PACKET_WORDS
  <2> DEFINE max == MAX_PACKET_WORDS
  <2>1. max \in Nat /\ UDP_DATAGRAM_WORDS \in 27..max
    BY <1>1, <1>2
  <2> HIDE DEF max
  <2>2. UDP_DATAGRAM_WORDS \in Nat /\ 27 <= UDP_DATAGRAM_WORDS /\ UDP_DATAGRAM_WORDS <= max
    BY <2>1
  <2> QED
    BY <2>2 DEF max
<1> QED
  BY <1>3 DEF MAX_PACKET_WORDS

\* The ramp stays within 15 bits, negated too.
LEMMA RampRange ==
  ASSUME NEW n \in Int, NEW ramp, ramp = (((n % PacketCounts) % 64) - 32) * 512,
         NEW low \in Int, NEW high \in Int, low <= -16384, 16384 <= high
  PROVE  ramp \in low..high /\ -ramp \in low..high
<1> DEFINE m == n % PacketCounts
           r == (m % 64) - 32
<1>1. m \in Int
  BY CountsAssumption
<1> HIDE DEF m
<1>2. r \in Int /\ -32 <= r /\ r <= 31
  BY <1>1
<1> HIDE DEF r
<1>3. r * 512 \in Int /\ -16384 <= r * 512 /\ r * 512 <= 15872
  BY <1>2
<1>4. ramp = r * 512
  BY DEF m, r
<1> QED
  BY <1>3, <1>4

\* Samples that fill what the prologue leaves of a datagram.
LEMMA SamplesType ==
  ASSUME NEW count \in 0..(PacketCounts - 1)
  PROVE  /\ SamplesForPacket(count) \in Seq(SampleValue(16))
         /\ Len(SamplesForPacket(count)) = UDP_DATAGRAM_WORDS - 7
<1> DEFINE Ramp(index) == ((((count + index) % PacketCounts) % 64) - 32) * 512
           n           == UDP_DATAGRAM_WORDS - 7
           low         == -(2^(16 - 1))
           high        == 2^(16 - 1) - 1
           range       == low..high
<1>1. n \in Nat
  BY DatagramSize
<1>2. SamplesForPacket(count) = [k \in 1..n |-> [i |-> Ramp(k - 1), q |-> -Ramp(k - 1)]]
  BY DEF SamplesForPacket, SAMPLES_PER_PACKET, PROLOGUE_WORDS
<1>3. SampleValue(16) = [i: range, q: range]
  BY DEF SampleValue
<1>4. ASSUME NEW k \in 1..n
      PROVE  Ramp(k - 1) \in range /\ -Ramp(k - 1) \in range
  <2> DEFINE j    == count + (k - 1)
             ramp == Ramp(k - 1)
  <2>1. j \in Int
    BY <1>1, CountsAssumption
  <2>2. low \in Int /\ high \in Int /\ low <= -16384 /\ 16384 <= high
    OBVIOUS
  <2> HIDE DEF low, high
  <2>3. ramp = (((j % PacketCounts) % 64) - 32) * 512
    OBVIOUS
  <2> HIDE DEF ramp, j
  <2>4. ramp \in low..high /\ -ramp \in low..high
    BY <2>1, <2>2, <2>3, RampRange
  <2> QED
    BY <2>4 DEF ramp
<1> HIDE DEF Ramp, n, range
<1>5. \A k \in 1..n : [i |-> Ramp(k - 1), q |-> -Ramp(k - 1)] \in SampleValue(16)
  BY <1>3, <1>4
<1>6. SamplesForPacket(count) \in Seq(SampleValue(16)) /\ Len(SamplesForPacket(count)) = n
  BY <1>1, <1>2, <1>5
<1> QED
  BY <1>6 DEF n

LEMMA DataSpecType ==
  ASSUME NEW sequence \in SequenceNumber, NEW now \in Times
  PROVE  SignalDataSpec(sequence, now) \in SpecValue
<1>1. sequence \in 0..255
  BY CountersFit DEF Byte
<1>2. /\ BasicDataPlane \in InformationClassCode /\ StandardFlowSignalData \in PacketClassCode
      /\ Utc \in Tsi /\ RealTimePicoseconds \in Tsf
  BY DEF BasicDataPlane, InformationClassCode, StandardFlowSignalData, PacketClassCode, Utc,
     Tsi, RealTimePicoseconds, Tsf
<1>3. now.integer \in Word /\ now.fractional \in Word \X Word
  BY ClockType DEF Word64
<1> QED
  BY <1>1, <1>2, <1>3, ContextConstants DEF SignalDataSpec, SpecValue

\* A full datagram of samples is let through.
LEMMA DataPasses ==
  ASSUME NEW sequence \in SequenceNumber, NEW count \in 0..(PacketCounts - 1),
         NEW now \in Times
  PROVE  LET spec    == SignalDataSpec(sequence, now)
             samples == SamplesForPacket(count)
         IN /\ IqPacketWords(16, samples) = UDP_DATAGRAM_WORDS
            /\ IqError(16, spec, samples) = Ok
<1> DEFINE spec    == SignalDataSpec(sequence, now)
           samples == SamplesForPacket(count)
           n       == UDP_DATAGRAM_WORDS
           h       == SpecHeader(spec, n)
           c       == SpecClassId(spec)
<1>1. samples \in Seq(SampleValue(16)) /\ Len(samples) = n - 7
  BY SamplesType
<1>2. n \in Nat /\ n >= 27 /\ n <= 65535
  BY DatagramSize
<1>3. IqPacketWords(16, samples) = n
  <2> HIDE DEF samples, n
  <2>1. Len(PayloadWords(16, samples)) = n - 7
    BY <1>1, <1>2 DEF PayloadWords
  <2>2. 7 + Len(PayloadWords(16, samples)) = IqPacketWords(16, samples)
    BY <1>1, PayloadWordsType DEF SampleBits
  <2> QED
    BY <1>2, <2>1, <2>2
<1>4. (SampleBytes(16) * Len(samples)) % WORD_BYTES = 0
  <2> HIDE DEF samples, n
  <2>1. Len(samples) \in Nat
    BY <1>1
  <2> QED
    BY <2>1, WholeWordsOfSamples DEF SampleBits, WORD_BYTES
<1>5. /\ spec.sequence = sequence /\ spec.information_class = 0 /\ spec.packet_class = 0
      /\ spec.tsf = 2
  BY DEF SignalDataSpec, BasicDataPlane, StandardFlowSignalData, RealTimePicoseconds
<1>6. ValidateClassId(c) = Ok
  BY DataSpecType, SpecClassIdType
<1> HIDE DEF spec, samples, n
<1>7. ValidatePrologue(DefaultOptions, h, c) = Ok
  <2>1. /\ h.packet_type = 1 /\ h.class_id_indicator = TRUE /\ h.type_specific_bits = 0
        /\ h.tsm = None /\ h.tsf = 2 /\ c.information_class = 0 /\ c.packet_class = 0
    BY <1>5 DEF SpecHeader, SpecClassId, SignalDataWithStreamId
  <2>2. DefaultOptions.standard = "V1_3_0"
    BY DEF DefaultOptions
  <2> HIDE DEF h, c
  <2>3. /\ ValidatePacketTypeAvailable(DefaultOptions, h.packet_type) = Ok
        /\ ValidatePacketClassAvailable(DefaultOptions, c.packet_class) = Ok
        /\ ValidatePacketTypeClass(DefaultOptions, h.packet_type, c.packet_class) = Ok
    BY <2>1, <2>2 DEF ValidatePacketTypeAvailable, PacketTypeAvailable,
       ValidatePacketClassAvailable, PacketClassAvailable, ValidatePacketTypeClass,
       PacketTypeClass, Expect, SignalDataWithStreamId, StandardFlowSignalData
  <2>4. ValidateHeaderBits(h, c.packet_class) = Ok
    BY <2>1 DEF ValidateHeaderBits, ExpectBits, Expect, ??, SignalDataWithStreamId,
       ContextWithStreamId, VersionWithStreamId, CommandWithStreamId,
       ExtensionCommandWithStreamId
  <2>5. ValidateClassMembership(DefaultOptions, c.information_class, c.packet_class) = Ok
    <3>1. <<0, 0>> \in AllowedV1_3_0
      BY DEF AllowedV1_3_0, StandardFlow, BasicDataPlane, StandardFlowSignalData
    <3> QED
      BY <2>1, <2>2, <3>1 DEF ValidateClassMembership, AllowsPacketClass, Expect
  <2>6. ValidateTsf(h, c.packet_class) = Ok
    BY <2>1 DEF ValidateTsf, Expect, RealTimeClasses, SampleCountClasses, RealTimePicoseconds,
       SampleCountSignalData, SampleCountSignalContext, SampleCountTimingFlowControl
  <2>7. ValidateTsm(h, c.information_class, c.packet_class) = Ok
    BY <2>1 DEF ValidateTsm
  <2> QED
    BY <2>3, <2>4, <2>5, <2>6, <2>7 DEF ValidatePrologue, ??
<1> HIDE DEF h, c
<1>8. IqError(16, spec, samples) = Ok
  <2>1. spec.sequence <= 15
    BY <1>5, CountersFit
  <2>2. /\ Expect(16 = 8 => Len(samples) % 2 = 0, "OddComplexI8SampleCount") = Ok
        /\ Expect((SampleBytes(16) * Len(samples)) % WORD_BYTES = 0,
                  "PayloadLengthNotWordAligned") = Ok
        /\ Expect(spec.sequence <= 15, "FieldOutOfRange") = Ok
        /\ Expect(n <= MAX_PACKET_WORDS, "PacketTooLarge") = Ok
    BY <1>2, <1>4, <2>1 DEF Expect, MAX_PACKET_WORDS
  <2> QED
    BY <1>3, <1>6, <1>7, <2>2 DEF IqError, ??, h, c
<1> QED
  BY <1>3, <1>8 DEF spec, samples, n

-----------------------------------------------------------------------------
(* Every write of a sender succeeds.                                       *)

\* What a sender holds, the words of its buffer included.
SenderInv ==
  /\ UdpSenderTypeOK
  /\ buffer \in [Senders -> Bytes]

\* Both kinds of packet are taken, whatever a buffer of a datagram holds.
LEMMA ContextIsTaken ==
  ASSUME NEW sequence \in SequenceNumber, NEW now \in Times,
         NEW out \in Bytes, Len(out.words) = UDP_DATAGRAM_WORDS
  PROVE  LET write == WritePacket(SignalContextPacket(sequence, now), out, DefaultOptions)
         IN write.error = Ok /\ write.written = WORD_BYTES * 27
<1> DEFINE p == SignalContextPacket(sequence, now)
<1>1. /\ p \in PacketValue /\ PrepareError(DefaultOptions, p) = Ok
      /\ PlannedWords(p) = 27
  BY ContextPacketType, ContextPrepares, ContextPlan
<1>2. PlannedWords(p) <= Len(out.words)
  BY <1>1, DatagramSize
<1> HIDE DEF p
<1>3. /\ WritePacket(p, out, DefaultOptions).error = Ok
      /\ WritePacket(p, out, DefaultOptions).written = WORD_BYTES * 27
  BY <1>1, <1>2, PreparedIsWritten
<1> QED
  BY <1>3 DEF p

LEMMA DataIsTaken ==
  ASSUME NEW sequence \in SequenceNumber, NEW count \in 0..(PacketCounts - 1),
         NEW now \in Times, NEW out \in Bytes, Len(out.words) = UDP_DATAGRAM_WORDS
  PROVE  LET write == WriteIqData(16, SignalDataSpec(sequence, now), SamplesForPacket(count), out)
         IN write.error = Ok /\ write.written = WORD_BYTES * UDP_DATAGRAM_WORDS
<1> DEFINE spec    == SignalDataSpec(sequence, now)
           samples == SamplesForPacket(count)
<1>1. /\ spec \in SpecValue /\ samples \in Seq(SampleValue(16))
      /\ IqPacketWords(16, samples) = UDP_DATAGRAM_WORDS
      /\ IqError(16, spec, samples) = Ok
  BY DataSpecType, SamplesType, DataPasses
<1>2. 16 \in SampleBits
  BY DEF SampleBits
<1>3. IqPacketWords(16, samples) <= Len(out.words)
  BY <1>1, DatagramSize
<1> HIDE DEF spec, samples
<1>4. /\ WriteIqData(16, spec, samples, out).error = Ok
      /\ WriteIqData(16, spec, samples, out).written = WORD_BYTES * IqPacketWords(16, samples)
  BY <1>1, <1>2, <1>3, RequestIsWritten
<1> QED
  BY <1>1, <1>4 DEF spec, samples

\* Both writes, and what they leave in the buffer.
LEMMA WritesSucceed ==
  ASSUME SenderInv, NEW s \in Senders, NEW now \in Times
  PROVE  /\ ContextWrite(s, now).error = Ok
         /\ ContextWrite(s, now).written = WORD_BYTES * 27
         /\ DataWrite(s, now).error = Ok
         /\ DataWrite(s, now).written = WORD_BYTES * UDP_DATAGRAM_WORDS
         /\ \A write \in {ContextWrite(s, now), DataWrite(s, now)} :
              /\ write.out \in Bytes /\ write.out.extra = 0
              /\ Len(write.out.words) = UDP_DATAGRAM_WORDS
<1>1. /\ data_sequence[s] \in SequenceNumber /\ context_sequence[s] \in SequenceNumber
      /\ packet_count[s] \in 0..(PacketCounts - 1)
      /\ buffer[s] \in Bytes /\ Len(buffer[s].words) = UDP_DATAGRAM_WORDS
      /\ buffer[s].extra = 0
  BY DEF SenderInv, UdpSenderTypeOK
<1>2. UDP_DATAGRAM_WORDS \in Nat /\ 27 <= UDP_DATAGRAM_WORDS
  BY DatagramSize
<1>3. ContextWrite(s, now).error = Ok /\ ContextWrite(s, now).written = WORD_BYTES * 27
  BY <1>1, ContextIsTaken DEF ContextWrite
<1>4. /\ DataWrite(s, now).error = Ok
      /\ DataWrite(s, now).written = WORD_BYTES * UDP_DATAGRAM_WORDS
  BY <1>1, DataIsTaken DEF DataWrite
<1>5. KeepsTheRest(ContextWrite(s, now), buffer[s])
  BY <1>1, ContextPacketType, WritePacketKeepsTheRest DEF ContextWrite
<1>6. KeepsTheRest(DataWrite(s, now), buffer[s])
  <2>1. 16 \in SampleBits
    BY DEF SampleBits
  <2> QED
    BY <1>1, <2>1, DataSpecType, SamplesType, WriteIqDataKeepsTheRest DEF DataWrite
<1> QED
  BY <1>1, <1>3, <1>4, <1>5, <1>6 DEF KeepsTheRest

\* What is sent is as long as the packet, and fits in the buffer it is written into.
LEMMA SentType ==
  ASSUME SenderInv, NEW s \in Senders, NEW now \in Times,
         NEW write \in {ContextWrite(s, now), DataWrite(s, now)}
  PROVE  /\ Sent(write) \in Bytes
         /\ Len(Sent(write).words) <= UDP_DATAGRAM_WORDS
<1> DEFINE n == write.written \div WORD_BYTES
<1>1. write.out.words \in Seq(Word) /\ Len(write.out.words) = UDP_DATAGRAM_WORDS
  BY WritesSucceed DEF Bytes
<1>2. n \in 0..UDP_DATAGRAM_WORDS
  <2>1. UDP_DATAGRAM_WORDS \in Nat /\ 27 <= UDP_DATAGRAM_WORDS
    BY DatagramSize
  <2>2. \/ write.written = 4 * 27
        \/ write.written = 4 * UDP_DATAGRAM_WORDS
    BY WritesSucceed DEF WORD_BYTES
  <2>3. (4 * 27) \div 4 = 27 /\ (4 * UDP_DATAGRAM_WORDS) \div 4 = UDP_DATAGRAM_WORDS
    BY <2>1
  <2> QED
    BY <2>1, <2>2, <2>3 DEF WORD_BYTES
<1> HIDE DEF n
<1>3. /\ SubSeq(write.out.words, 1, n) \in Seq(Word)
      /\ Len(SubSeq(write.out.words, 1, n)) = n
  <2>1. UDP_DATAGRAM_WORDS \in Nat
    BY DatagramSize
  <2> QED
    BY <1>1, <1>2, <2>1
<1> DEFINE words == SubSeq(write.out.words, 1, n)
<1>4. Sent(write) = Slice(words)
  BY DEF Sent, n
<1> HIDE DEF words
<1>5. n <= UDP_DATAGRAM_WORDS
  BY <1>2
<1>6. words \in Seq(Word) /\ Len(words) = n
  BY <1>3 DEF words
<1>7. Slice(words) \in Bytes /\ Slice(words).words = words
  BY <1>6, SliceType DEF Slice
<1> QED
  BY <1>4, <1>5, <1>6, <1>7

-----------------------------------------------------------------------------
(* The turns of a sender keep its types.                                   *)

\* A buffer that was written into is a buffer still.
LEMMA ContextSent ==
  ASSUME SenderInv, NEW s \in Senders, NEW now \in Times, SendContext(s, now)
  PROVE  SenderInv'
<1> DEFINE out == ContextWrite(s, now).out
<1>1. out \in Bytes /\ out.extra = 0 /\ Len(out.words) = UDP_DATAGRAM_WORDS
  BY WritesSucceed
<1>2. buffer' = [buffer EXCEPT ![s] = out]
  BY DEF SendContext
<1> HIDE DEF out
<1>3. NextSequence(context_sequence[s]) \in SequenceNumber
  <2>1. context_sequence[s] \in SequenceNumber
    BY DEF SenderInv, UdpSenderTypeOK
  <2> QED
    BY <2>1, ModulusAssumption DEF NextSequence, SequenceNumber
<1>4. buffer' \in [Senders -> Bytes]
  BY <1>1, <1>2 DEF SenderInv
<1>5. \A t \in Senders : Len(buffer'[t].words) = UDP_DATAGRAM_WORDS /\ buffer'[t].extra = 0
  BY <1>1, <1>2 DEF SenderInv, UdpSenderTypeOK
<1>6. /\ pc' \in [Senders -> {"Context", "Data", "Stopped"}]
      /\ context_sequence' \in [Senders -> SequenceNumber]
      /\ data_sequence' \in [Senders -> SequenceNumber]
  BY <1>3 DEF SendContext, ContextTurn, SenderInv, UdpSenderTypeOK
<1>7. /\ packet_count' \in [Senders -> 0..(PacketCounts - 1)]
      /\ since_context' \in [Senders -> 0..(ContextInterval + 1)]
  BY IntervalAssumption DEF SendContext, ContextTurn, SenderInv, UdpSenderTypeOK
<1> QED
  BY <1>4, <1>5, <1>6, <1>7 DEF SenderInv, UdpSenderTypeOK

LEMMA DataSent ==
  ASSUME SenderInv, NEW s \in Senders, NEW now \in Times, SendData(s, now)
  PROVE  SenderInv'
<1> DEFINE out   == DataWrite(s, now).out
           count == (packet_count[s] + 1) % PacketCounts
           since == since_context[s]
           next  == IF since > ContextInterval THEN since ELSE since + 1
<1>1. out \in Bytes /\ out.extra = 0 /\ Len(out.words) = UDP_DATAGRAM_WORDS
  BY WritesSucceed
<1>2. buffer' = [buffer EXCEPT ![s] = out]
  BY DEF SendData
<1> HIDE DEF out
<1>3. NextSequence(data_sequence[s]) \in SequenceNumber
  <2>1. data_sequence[s] \in SequenceNumber
    BY DEF SenderInv, UdpSenderTypeOK
  <2> QED
    BY <2>1, ModulusAssumption DEF NextSequence, SequenceNumber
<1>4. buffer' \in [Senders -> Bytes]
  BY <1>1, <1>2 DEF SenderInv
<1>5. \A t \in Senders : Len(buffer'[t].words) = UDP_DATAGRAM_WORDS /\ buffer'[t].extra = 0
  BY <1>1, <1>2 DEF SenderInv, UdpSenderTypeOK
<1>6. /\ pc' \in [Senders -> {"Context", "Data", "Stopped"}]
      /\ context_sequence' \in [Senders -> SequenceNumber]
      /\ data_sequence' \in [Senders -> SequenceNumber]
  BY <1>3 DEF SendData, DataTurn, SenderInv, UdpSenderTypeOK
<1>7. packet_count' \in [Senders -> 0..(PacketCounts - 1)]
  <2>1. count \in 0..(PacketCounts - 1)
    <3>1. packet_count[s] \in 0..(PacketCounts - 1)
      BY DEF SenderInv, UdpSenderTypeOK
    <3> QED
      BY <3>1, CountedOn
  <2>2. packet_count' = [packet_count EXCEPT ![s] = count]
    BY DEF SendData, DataTurn
  <2> HIDE DEF count
  <2> QED
    BY <2>1, <2>2 DEF SenderInv, UdpSenderTypeOK
<1>8. since_context' \in [Senders -> 0..(ContextInterval + 1)]
  <2>1. next \in 0..(ContextInterval + 1)
    <3>1. since \in 0..(ContextInterval + 1)
      BY DEF SenderInv, UdpSenderTypeOK
    <3> HIDE DEF since
    <3> QED
      BY <3>1, IntervalAssumption
  <2>2. since_context' = [since_context EXCEPT ![s] = next]
    BY DEF SendData, DataTurn
  <2> HIDE DEF next
  <2> QED
    BY <2>1, <2>2 DEF SenderInv, UdpSenderTypeOK
<1> QED
  BY <1>4, <1>5, <1>6, <1>7, <1>8 DEF SenderInv, UdpSenderTypeOK

\* A blank buffer, which every run of the program begins with.
LEMMA BlankBufferType ==
  /\ BlankBuffer \in Bytes /\ BlankBuffer.extra = 0
  /\ Len(BlankBuffer.words) = UDP_DATAGRAM_WORDS
<1> DEFINE words == [i \in 1..UDP_DATAGRAM_WORDS |-> <<0, 0>>]
<1>1. UDP_DATAGRAM_WORDS \in Nat
  BY DatagramSize
<1>2. words \in Seq(Word) /\ Len(words) = UDP_DATAGRAM_WORDS
  BY <1>1, ContextConstants
<1>3. BlankBuffer = Slice(words)
  BY DEF BlankBuffer
<1> HIDE DEF words
<1> QED
  BY <1>2, <1>3, SliceType DEF Slice

LEMMA StartedFresh ==
  ASSUME SenderInv, NEW s \in Senders, StartSender(s)
  PROVE  SenderInv'
<1>1. 0 \in SequenceNumber /\ 0 \in 0..(PacketCounts - 1) /\ 0 \in 0..(ContextInterval + 1)
  BY ModulusAssumption, CountsAssumption, IntervalAssumption DEF SequenceNumber
<1>2. /\ buffer' \in [Senders -> Bytes]
      /\ \A t \in Senders : Len(buffer'[t].words) = UDP_DATAGRAM_WORDS /\ buffer'[t].extra = 0
  BY BlankBufferType DEF StartSender, Fresh, SenderInv, UdpSenderTypeOK
<1> QED
  BY <1>1, <1>2 DEF StartSender, Fresh, SenderInv, UdpSenderTypeOK

\* Senders begin blank, and keep their types whatever they and the others do.
LEMMA LInitSenders == LInit => SenderInv
<1> SUFFICES ASSUME LInit
             PROVE  SenderInv
  OBVIOUS
<1>1. 0 \in SequenceNumber /\ 0 \in 0..(PacketCounts - 1) /\ 0 \in 0..(ContextInterval + 1)
  BY ModulusAssumption, CountsAssumption, IntervalAssumption DEF SequenceNumber
<1>2. /\ buffer \in [Senders -> Bytes]
      /\ \A t \in Senders : Len(buffer[t].words) = UDP_DATAGRAM_WORDS /\ buffer[t].extra = 0
  BY BlankBufferType DEF LInit, UInit
<1> QED
  BY <1>1, <1>2 DEF LInit, UInit, SenderInv, UdpSenderTypeOK

LEMMA LNextSenders == SenderInv /\ [LNext]_lvars => SenderInv'
<1> SUFFICES ASSUME SenderInv, [LNext]_lvars
             PROVE  SenderInv'
  OBVIOUS
<1>1. ASSUME NEW s \in Senders, SenderStep(s)
      PROVE  SenderInv'
  BY <1>1, ContextSent, DataSent DEF SenderStep, LSendContext, LSendData
<1>2. ASSUME NEW s \in Senders, LStopSender(s)
      PROVE  SenderInv'
  BY <1>2 DEF LStopSender, StopSender, SenderInv, UdpSenderTypeOK
<1>3. ASSUME NEW s \in Senders, LStartSender(s)
      PROVE  SenderInv'
  BY <1>3, StartedFresh DEF LStartSender
<1>4. ASSUME UNCHANGED uvars
      PROVE  SenderInv'
  BY <1>4 DEF uvars, SenderInv, UdpSenderTypeOK
<1>5. ASSUME NEW m \in network, Deliver(m) \/ Lose(m)
      PROVE  SenderInv'
  BY <1>4, <1>5 DEF Deliver, Receive, Lose
<1>6. ASSUME NEW p \in Parsers,
             (\E d \in Datagrams : DeliverForeign(p, d)) \/ StopReceiver(p) \/ StartReceiver(p)
      PROVE  SenderInv'
  BY <1>4, <1>6 DEF DeliverForeign, Receive, StopReceiver, StartReceiver
<1>7. CASE UNCHANGED lvars
  BY <1>4, <1>7 DEF lvars
<1> QED
  BY <1>1, <1>2, <1>3, <1>5, <1>6, <1>7 DEF LNext

(* However long the programs run and however often they are run again,     *)
(* whatever the clock shows and whatever was in the buffer, the writer     *)
(* takes every context and every full packet of samples a sender builds,   *)
(* and a packet of samples fills the datagram: no `?` of the loop and no   *)
(* assertion ends a sender but for the clock and the socket                *)
(* (udp_sender.rs 54-74, 116-118, 212-214).                                *)
THEOREM SendersAreNeverRefused == LSpec => []SendersNeverRefused
<1>1. SenderInv => SendersNeverRefused
  BY WritesSucceed DEF SendersNeverRefused
<1> QED
  BY <1>1, LInitSenders, LNextSenders, PTL DEF LSpec

-----------------------------------------------------------------------------
(* Type correctness of the link.                                           *)

\* A datagram in flight: from a sender to its receiver, whose buffer has room for it.
InFlight(m) ==
  /\ m.from \in Senders /\ m.to = DestinationOf[m.from]
  /\ m.bytes \in Bytes /\ Len(m.bytes.words) <= RECEIVE_WORDS

NetworkInv ==
  /\ IsFiniteSet(network) /\ Cardinality(network) <= Capacity
  /\ \A m \in network : InFlight(m)

ReceiverInv ==
  /\ TypeOK
  /\ receiver \in [Parsers -> {"Running", "Stopped"}]
  /\ source \in [Parsers -> Senders \cup {Nobody, Foreign}]

\* The network takes one more datagram, and never more than it has room for.
LEMMA TransmitKeeps ==
  ASSUME NetworkInv, NEW m, InFlight(m), Transmit(m)
  PROVE  NetworkInv'
<1>1. PICK kept \in SUBSET network : Cardinality(kept) < Capacity /\ network' = kept \cup {m}
  BY DEF Transmit
<1>2. IsFiniteSet(kept) /\ Cardinality(kept) \in Nat
  BY FS_Subset, FS_CardinalityType DEF NetworkInv
<1>3. IsFiniteSet(network') /\ Cardinality(network') <= Cardinality(kept) + 1
  BY <1>1, <1>2, FS_AddElement
<1>4. Cardinality(network') \in Nat
  BY <1>3, FS_CardinalityType
<1>5. Cardinality(network') <= Capacity
  BY <1>1, <1>2, <1>3, <1>4, CapacityAssumption
<1>6. \A k \in network' : InFlight(k)
  BY <1>1 DEF NetworkInv
<1> QED
  BY <1>3, <1>5, <1>6 DEF NetworkInv, InFlight

LEMMA SendKeepsNetwork ==
  ASSUME SenderInv, NetworkInv, NEW s \in Senders, NEW now \in Times, NEW index,
         NEW write \in {ContextWrite(s, now), DataWrite(s, now)}, SendTo(s, index, write)
  PROVE  NetworkInv'
<1> DEFINE m == [from |-> s, to |-> DestinationOf[s], index |-> index, bytes |-> Sent(write)]
<1>1. Sent(write) \in Bytes /\ Len(Sent(write).words) <= UDP_DATAGRAM_WORDS
  BY SentType
<1>2. Len(Sent(write).words) <= RECEIVE_WORDS
  <2>1. Len(Sent(write).words) \in Nat /\ UDP_DATAGRAM_WORDS \in Nat
    BY <1>1, DatagramSize DEF Bytes
  <2> QED
    BY <1>1, <2>1, ReceiveAssumption
<1>3. InFlight(m)
  BY <1>1, <1>2 DEF InFlight
<1>4. Transmit(m)
  BY DEF SendTo
<1> HIDE DEF m
<1> QED
  BY <1>3, <1>4, TransmitKeeps

LEMMA DropKeeps ==
  ASSUME NetworkInv, NEW m \in network, Drop(m)
  PROVE  NetworkInv'
<1>1. network' = network \ {m} /\ network' \in SUBSET network
  BY DEF Drop
<1>2. /\ IsFiniteSet(network') /\ Cardinality(network') <= Cardinality(network)
      /\ Cardinality(network) \in Nat /\ Cardinality(network') \in Nat
  BY <1>1, FS_Subset, FS_CardinalityType DEF NetworkInv
<1>3. Cardinality(network') <= Capacity
  BY <1>2, CapacityAssumption DEF NetworkInv
<1> QED
  BY <1>1, <1>2, <1>3 DEF NetworkInv, InFlight

\* What the receiver's buffer holds is a slice.
LEMMA ReceivedType ==
  ASSUME NEW d, IsSlice(d)
  PROVE  IsSlice(Received(d))
<1>1. CASE Len(d.words) < RECEIVE_WORDS
  BY <1>1 DEF Received
<1>2. CASE ~(Len(d.words) < RECEIVE_WORDS)
  <2>1. Len(d.words) \in Nat /\ RECEIVE_WORDS \in Nat
    BY ReceiveAssumption DEF IsSlice
  <2>2. SubSeq(d.words, 1, RECEIVE_WORDS) \in Seq(Word)
    BY <1>2, <2>1 DEF IsSlice
  <2>3. Received(d) \in Bytes
    BY <1>2, <2>2, SliceType DEF Received
  <2> QED
    BY <2>3 DEF IsSlice, Bytes
<1> QED
  BY <1>1, <1>2

LEMMA ReceiveKeeps ==
  ASSUME ReceiverInv, NEW p \in Parsers, NEW from \in Senders \cup {Foreign}, NEW d, IsSlice(d),
         Receive(p, from, d)
  PROVE  ReceiverInv'
<1>1. TypeOK'
  BY ReceivedType, ParseOkType, ParseErrType DEF ReceiverInv, Receive, ParseDatagram
<1>2. /\ receiver' \in [Parsers -> {"Running", "Stopped"}]
      /\ source' \in [Parsers -> Senders \cup {Nobody, Foreign}]
  BY DEF ReceiverInv, Receive
<1> QED
  BY <1>1, <1>2 DEF ReceiverInv

LEMMA RestartKeeps ==
  ASSUME ReceiverInv, NEW p \in Parsers, StopReceiver(p) \/ StartReceiver(p)
  PROVE  ReceiverInv'
<1>1. CASE StopReceiver(p)
  BY <1>1 DEF StopReceiver, ReceiverInv, vars, TypeOK, Tracker
<1>2. CASE StartReceiver(p)
  BY <1>2, ResetType DEF StartReceiver, ReceiverInv
<1> QED
  BY <1>1, <1>2

LinkInv == SenderInv /\ NetworkInv /\ ReceiverInv

LEMMA LInitLink == LInit => LinkInv
<1> SUFFICES ASSUME LInit
             PROVE  LinkInv
  OBVIOUS
<1>1. TypeOK
  BY InitType DEF LInit
<1>2. NetworkInv
  BY FS_EmptySet, CapacityAssumption DEF LInit, NetworkInv
<1>3. ReceiverInv
  BY <1>1 DEF LInit, ReceiverInv
<1> QED
  BY <1>2, <1>3, LInitSenders DEF LinkInv

LEMMA LNextLink == LinkInv /\ [LNext]_lvars => LinkInv'
<1> SUFFICES ASSUME LinkInv, [LNext]_lvars
             PROVE  LinkInv'
  OBVIOUS
<1>1. SenderInv'
  BY LNextSenders DEF LinkInv
<1>2. ASSUME UNCHANGED network
      PROVE  NetworkInv'
  BY <1>2 DEF LinkInv, NetworkInv, InFlight
<1>3. ASSUME UNCHANGED <<vars, receiver, source>>
      PROVE  ReceiverInv'
  BY <1>3 DEF LinkInv, ReceiverInv, vars, TypeOK, Tracker
<1>4. ASSUME NEW s \in Senders, SenderStep(s)
      PROVE  NetworkInv' /\ ReceiverInv'
  BY <1>3, <1>4, SendKeepsNetwork DEF SenderStep, LSendContext, LSendData, LinkInv
<1>5. ASSUME NEW s \in Senders, LStopSender(s) \/ LStartSender(s)
      PROVE  NetworkInv' /\ ReceiverInv'
  BY <1>2, <1>3, <1>5 DEF LStopSender, LStartSender
<1>6. ASSUME NEW m \in network, Deliver(m)
      PROVE  NetworkInv' /\ ReceiverInv'
  <2>1. /\ m.from \in Senders /\ m.to \in Parsers /\ IsSlice(m.bytes)
    BY DestinationAssumption DEF LinkInv, NetworkInv, InFlight, Bytes, IsSlice
  <2>2. UNCHANGED network
    BY <1>6 DEF Deliver, Receive
  <2> QED
    BY <1>2, <1>6, <2>1, <2>2, ReceiveKeeps DEF Deliver, LinkInv
<1>7. ASSUME NEW m \in network, Lose(m)
      PROVE  NetworkInv' /\ ReceiverInv'
  BY <1>3, <1>7, DropKeeps DEF Lose, LinkInv
<1>8. ASSUME NEW p \in Parsers, NEW d \in Datagrams, DeliverForeign(p, d)
      PROVE  NetworkInv' /\ ReceiverInv'
  <2>1. IsSlice(d)
    BY DatagramsAssumption DEF IsSlice
  <2> QED
    BY <1>2, <1>8, <2>1, ReceiveKeeps DEF DeliverForeign, Receive, LinkInv
<1>9. ASSUME NEW p \in Parsers, StopReceiver(p) \/ StartReceiver(p)
      PROVE  NetworkInv' /\ ReceiverInv'
  BY <1>2, <1>9, RestartKeeps DEF StopReceiver, StartReceiver, LinkInv
<1>10. CASE UNCHANGED lvars
  BY <1>1, <1>2, <1>3, <1>10 DEF lvars, LinkInv
<1> QED
  BY <1>1, <1>4, <1>5, <1>6, <1>7, <1>8, <1>9, <1>10 DEF LNext, LinkInv

(* Whatever is sent, lost, repeated, received and run again, every value   *)
(* of the programs and the network has its type: no datagram in flight is  *)
(* larger than the receiver's buffer, so that none of a sender is cut      *)
(* (udp_receiver.rs 5-12, udp_sender.rs 49-52).                            *)
THEOREM LinkTypeCorrect == LSpec => []LinkTypeOK
<1>1. LinkInv => LinkTypeOK
  BY DEF LinkInv, SenderInv, NetworkInv, InFlight, ReceiverInv, LinkTypeOK
<1> QED
  BY <1>1, LInitLink, LNextLink, PTL DEF LSpec

-----------------------------------------------------------------------------
(* What ends a receiver.                                                   *)

\* A datagram that a receiver, with the options it has, takes without an error.
Readable(d) == d.extra = 0 /\ ParsePacketExact(d, DefaultOptions).error = Ok

\* What a sender builds is sent as one frame, whatever was in the buffer.
LEMMA ContextIsFrame ==
  ASSUME NEW sequence \in SequenceNumber, NEW now \in Times
  PROVE  \E words :
           /\ Accepted(DefaultOptions, words)
           /\ PacketOf(words) = SignalContextPacket(sequence, now)
           /\ \A out \in Bytes : Len(out.words) = UDP_DATAGRAM_WORDS =>
                Sent(WritePacket(SignalContextPacket(sequence, now), out, DefaultOptions))
                  = Slice(words)
<1> DEFINE p        == SignalContextPacket(sequence, now)
           Written(b) == WritePacket(p, b, DefaultOptions)
<1>1. p \in PacketValue /\ PrepareError(DefaultOptions, p) = Ok
  BY ContextPacketType, ContextPrepares
<1>2. p.variant = VariantOf(p.prologue.class_id.packet_class)
  <2>1. VariantOf(StandardFlowSignalContext) = "SignalContext"
    BY DEF VariantOf, StandardFlowSignalData, SampleCountSignalData, StandardFlowSignalContext,
       SampleCountSignalContext, VersionFlowSignalContext, SampleCountTimingFlowControl,
       RealTimeTimingFlowControl, SinkCapabilitiesQuery, SinkCapabilitiesResponse, StatusReport
  <2>2. p.variant = "SignalContext" /\ p.prologue.class_id.packet_class = StandardFlowSignalContext
    BY DEF SignalContextPacket
  <2> QED
    BY <2>1, <2>2
<1>3. \A b \in Bytes : Len(b.words) = UDP_DATAGRAM_WORDS => Written(b).error = Ok
  BY ContextIsTaken
<1> HIDE DEF p
<1>4. PICK words : /\ Accepted(DefaultOptions, words) /\ PacketOf(words) = p
                   /\ \A b \in Bytes : WritePacket(p, b, DefaultOptions).error = Ok =>
                        FrameWritten(WritePacket(p, b, DefaultOptions)) = words
  BY <1>1, <1>2, WrittenIsFrame
<1>5. \A b \in Bytes : Len(b.words) = UDP_DATAGRAM_WORDS => FrameWritten(Written(b)) = words
  BY <1>3, <1>4
<1>6. \A write : Sent(write) = Slice(FrameWritten(write))
  BY DEF Sent, FrameWritten, WORD_BYTES
<1> HIDE DEF Written
<1>7. \A b \in Bytes : Len(b.words) = UDP_DATAGRAM_WORDS => Sent(Written(b)) = Slice(words)
  BY <1>5, <1>6
<1> QED
  BY <1>4, <1>7 DEF p, Written

LEMMA DataIsFrame ==
  ASSUME NEW sequence \in SequenceNumber, NEW count \in 0..(PacketCounts - 1),
         NEW now \in Times
  PROVE  \E words :
           /\ Accepted(DefaultOptions, words)
           /\ PrologueOf(words).header.packet_type = SignalDataWithStreamId
           /\ PrologueOf(words).class_id.packet_class = StandardFlowSignalData
           /\ PrologueOf(words).header.sequence = sequence
           /\ PrologueOf(words).stream_id = STREAM_ID
           /\ \A out \in Bytes : Len(out.words) = UDP_DATAGRAM_WORDS =>
                Sent(WriteIqData(16, SignalDataSpec(sequence, now), SamplesForPacket(count), out))
                  = Slice(words)
<1> DEFINE r == [bits |-> 16, spec |-> SignalDataSpec(sequence, now),
                 samples |-> SamplesForPacket(count)]
           Written(b) == WriteIqData(r.bits, r.spec, r.samples, b)
<1>1. r.bits \in SampleBits /\ r.spec \in SpecValue /\ r.samples \in Seq(SampleValue(r.bits))
  BY DataSpecType, SamplesType DEF SampleBits
<1>2. \A b \in Bytes : Len(b.words) = UDP_DATAGRAM_WORDS => Written(b).error = Ok
  BY DataIsTaken
<1>3. BlankBuffer \in Bytes /\ Len(BlankBuffer.words) = UDP_DATAGRAM_WORDS
  BY BlankBufferType
<1>4. /\ r.spec.sequence = sequence /\ r.spec.packet_class = StandardFlowSignalData
      /\ r.spec.stream_id = STREAM_ID
  BY DEF SignalDataSpec
<1> HIDE DEF r
<1>5. PICK words : /\ Accepted(DefaultOptions, words) /\ PacketOf(words) = IqPacket(r)
                   /\ \A b \in Bytes : WriteIqData(r.bits, r.spec, r.samples, b).error = Ok =>
                        FrameWritten(WriteIqData(r.bits, r.spec, r.samples, b)) = words
  BY <1>1, <1>2, <1>3, IqIsFrame
<1>6. \A b \in Bytes : Len(b.words) = UDP_DATAGRAM_WORDS => FrameWritten(Written(b)) = words
  BY <1>2, <1>5
<1>7. \A write : Sent(write) = Slice(FrameWritten(write))
  BY DEF Sent, FrameWritten, WORD_BYTES
<1>8. /\ PrologueOf(words).header.packet_type = SignalDataWithStreamId
      /\ PrologueOf(words).class_id.packet_class = StandardFlowSignalData
      /\ PrologueOf(words).header.sequence = sequence
      /\ PrologueOf(words).stream_id = STREAM_ID
  <2>1. PrologueOf(words) = IqPacket(r).prologue
    BY <1>5 DEF PacketOf
  <2>2. /\ IqPacket(r).prologue.header.packet_type = SignalDataWithStreamId
        /\ IqPacket(r).prologue.header.sequence = r.spec.sequence
        /\ IqPacket(r).prologue.class_id.packet_class = r.spec.packet_class
        /\ IqPacket(r).prologue.stream_id = r.spec.stream_id
    BY DEF IqPacket, SpecHeader, SpecClassId
  <2> QED
    BY <1>4, <2>1, <2>2
<1> HIDE DEF Written
<1>9. \A b \in Bytes : Len(b.words) = UDP_DATAGRAM_WORDS => Sent(Written(b)) = Slice(words)
  BY <1>6, <1>7
<1> QED
  BY <1>5, <1>8, <1>9 DEF r, Written

\* Whatever a sender puts on the wire is readable: both kinds of packet read back.
LEMMA SentIsReadable ==
  ASSUME SenderInv, NEW s \in Senders, NEW now \in Times,
         NEW write \in {ContextWrite(s, now), DataWrite(s, now)}
  PROVE  Readable(Sent(write))
<1>1. /\ data_sequence[s] \in SequenceNumber /\ context_sequence[s] \in SequenceNumber
      /\ packet_count[s] \in 0..(PacketCounts - 1)
      /\ buffer[s] \in Bytes /\ Len(buffer[s].words) = UDP_DATAGRAM_WORDS
  BY DEF SenderInv, UdpSenderTypeOK
<1>2. \A words : Accepted(DefaultOptions, words) => Readable(Slice(words))
  <2> TAKE words
  <2> HAVE Accepted(DefaultOptions, words)
  <2>1. ParsePacketExact(Slice(words), DefaultOptions).error = Ok
    BY AcceptedIsExact
  <2> QED
    BY <2>1 DEF Readable, Slice
<1>3. Readable(Sent(ContextWrite(s, now)))
  BY <1>1, <1>2, ContextIsFrame DEF ContextWrite
<1>4. Readable(Sent(DataWrite(s, now)))
  BY <1>1, <1>2, DataIsFrame DEF DataWrite
<1> QED
  BY <1>3, <1>4

\* The receiver's buffer has room for all of it.
LEMMA ReceivedWhole ==
  ASSUME NEW d \in Bytes, d.extra = 0, Len(d.words) <= RECEIVE_WORDS
  PROVE  Received(d) = d
<1>1. d.words \in Seq(Word) /\ Len(d.words) \in Nat /\ d = [words |-> d.words, extra |-> 0]
  BY DEF Bytes
<1>2. CASE Len(d.words) < RECEIVE_WORDS
  BY <1>2 DEF Received
<1>3. CASE ~(Len(d.words) < RECEIVE_WORDS)
  <2>1. Len(d.words) = RECEIVE_WORDS
    BY <1>1, <1>3, ReceiveAssumption
  <2>2. SubSeq(d.words, 1, RECEIVE_WORDS) = d.words
    BY <1>1, <2>1
  <2> QED
    BY <1>1, <1>3, <2>2 DEF Received, Slice
<1> QED
  BY <1>2, <1>3

LinkIsClean ==
  /\ \A m \in network : Readable(m.bytes)
  /\ OnlyForeignersStopReceivers

LEMMA LInitClean == LInit => LinkIsClean
BY DEF LInit, Init, LinkIsClean, OnlyForeignersStopReceivers, NoResult

LEMMA LNextClean == LinkInv /\ LinkIsClean /\ [LNext]_lvars => LinkIsClean'
<1> SUFFICES ASSUME LinkInv, LinkIsClean, [LNext]_lvars
             PROVE  LinkIsClean'
  OBVIOUS
<1>1. ASSUME network' \subseteq network
      PROVE  \A m \in network' : Readable(m.bytes)
  BY <1>1 DEF LinkIsClean
<1>2. ASSUME UNCHANGED <<result, source>>
      PROVE  OnlyForeignersStopReceivers'
  BY <1>2 DEF LinkIsClean, OnlyForeignersStopReceivers
<1>3. ASSUME NEW s \in Senders, SenderStep(s)
      PROVE  LinkIsClean'
  <2>1. PICK now \in Times : LSendContext(s, now, 0) \/ LSendData(s, now, 0)
    BY <1>3 DEF SenderStep
  <2>2. PICK write \in {ContextWrite(s, now), DataWrite(s, now)} : SendTo(s, 0, write)
    BY <2>1 DEF LSendContext, LSendData
  <2> DEFINE m == [from |-> s, to |-> DestinationOf[s], index |-> 0, bytes |-> Sent(write)]
  <2>3. Readable(m.bytes)
    BY SentIsReadable DEF LinkInv
  <2>4. Transmit(m)
    BY <2>2 DEF SendTo
  <2>5. UNCHANGED <<result, source>>
    BY <2>1 DEF LSendContext, LSendData, vars
  <2> HIDE DEF m
  <2>6. \A k \in network' : Readable(k.bytes)
    BY <2>3, <2>4 DEF Transmit, LinkIsClean
  <2> QED
    BY <1>2, <2>5, <2>6 DEF LinkIsClean
<1>4. ASSUME NEW s \in Senders, LStopSender(s) \/ LStartSender(s)
      PROVE  LinkIsClean'
  BY <1>1, <1>2, <1>4 DEF LStopSender, LStartSender, vars, LinkIsClean
<1>5. ASSUME NEW m \in network, Deliver(m)
      PROVE  LinkIsClean'
  <2> DEFINE p == m.to
  <2>1. InFlight(m) /\ Readable(m.bytes)
    BY DEF LinkInv, NetworkInv, LinkIsClean
  <2>2. p \in Parsers /\ Received(m.bytes) = m.bytes
    BY <2>1, ReceivedWhole, DestinationAssumption DEF InFlight, Readable
  <2>3. ParsePacketExact(Received(m.bytes), OptionsOf[p]).error = Ok
    BY <2>1, <2>2, ReceiverOptionsAssumption DEF Readable
  <2>4. /\ ParseOk(p, Received(m.bytes)) /\ source' = [source EXCEPT ![p] = m.from]
        /\ UNCHANGED network
    BY <1>5, <2>3 DEF Deliver, Receive, ParseDatagram, ParseErr
  <2>5. \A q \in Parsers : /\ q = p => result'[q].error = Ok
                           /\ q # p => result'[q] = result[q] /\ source'[q] = source[q]
    BY <2>4 DEF ParseOk, LinkInv, ReceiverInv, TypeOK
  <2> QED
    BY <1>1, <2>4, <2>5 DEF LinkIsClean, OnlyForeignersStopReceivers
<1>6. ASSUME NEW m \in network, Lose(m)
      PROVE  LinkIsClean'
  BY <1>1, <1>2, <1>6 DEF Lose, Drop, vars, LinkIsClean
<1>7. ASSUME NEW p \in Parsers, NEW d \in Datagrams, DeliverForeign(p, d)
      PROVE  LinkIsClean'
  <2>1. /\ source' = [source EXCEPT ![p] = Foreign] /\ UNCHANGED network
        /\ \A q \in Parsers \ {p} : result'[q] = result[q]
    BY <1>7 DEF DeliverForeign, Receive, ParseDatagram, ParseOk, ParseErr, LinkInv, ReceiverInv, TypeOK
  <2>2. \A q \in Parsers : source'[q] = IF q = p THEN Foreign ELSE source[q]
    BY <2>1 DEF LinkInv, ReceiverInv
  <2> QED
    BY <1>1, <2>1, <2>2 DEF LinkIsClean, OnlyForeignersStopReceivers
<1>8. ASSUME NEW p \in Parsers, StopReceiver(p)
      PROVE  LinkIsClean'
  BY <1>1, <1>2, <1>8 DEF StopReceiver, vars, LinkIsClean
<1>9. ASSUME NEW p \in Parsers, StartReceiver(p)
      PROVE  LinkIsClean'
  <2>1. /\ result' = [result EXCEPT ![p] = NoResult] /\ source' = [source EXCEPT ![p] = Nobody]
        /\ UNCHANGED network
    BY <1>9 DEF StartReceiver, ResetSequences
  <2>2. \A q \in Parsers : /\ q = p => result'[q] = NoResult
                           /\ q # p => result'[q] = result[q] /\ source'[q] = source[q]
    BY <2>1 DEF LinkInv, ReceiverInv, TypeOK
  <2> QED
    BY <1>1, <2>1, <2>2 DEF LinkIsClean, OnlyForeignersStopReceivers
<1>10. CASE UNCHANGED lvars
  BY <1>1, <1>2, <1>10 DEF lvars, vars, LinkIsClean
<1> QED
  BY <1>3, <1>4, <1>5, <1>6, <1>7, <1>8, <1>9, <1>10 DEF LNext

(* No receiver refuses a datagram of a sender, whoever else sends to it,   *)
(* whatever was lost and however often either was run again: both kinds of *)
(* packet are sent out of one buffer, each exactly as long as it was       *)
(* written, the receiver's buffer has room for either, and what was        *)
(* written reads back (udp_sender.rs 54-74, 116-118, udp_receiver.rs       *)
(* 11-12).                                                                 *)
THEOREM SendersNeverStopReceivers == LSpec => []OnlyForeignersStopReceivers
<1>1. LinkIsClean => OnlyForeignersStopReceivers
  BY DEF LinkIsClean
<1> QED
  BY <1>1, LInitLink, LNextLink, LInitClean, LNextClean, PTL DEF LSpec

-----------------------------------------------------------------------------
(* The programs as a DatagramFlow.                                         *)

\* The only sender of a receiver is what SenderOf chooses.
LEMMA SenderOfReceiver ==
  ASSUME OneSenderEach
  PROVE  /\ \A p \in Parsers : SenderOf(p) \in Senders /\ DestinationOf[SenderOf(p)] = p
         /\ \A s \in Senders : DestinationOf[s] \in Parsers /\ SenderOf(DestinationOf[s]) = s
<1>1. \A p \in Parsers : SenderOf(p) \in Senders /\ DestinationOf[SenderOf(p)] = p
  BY DEF OneSenderEach, SenderOf
<1>2. \A s \in Senders : DestinationOf[s] \in Parsers
  BY DestinationAssumption
<1> QED
  BY <1>1, <1>2 DEF OneSenderEach

\* A sender has two streams.
LEMMA StreamsDiffer ==
  DataStream # ContextStream /\ DataStream \in Streams /\ ContextStream \in Streams
<1>1. DataStream.packet_type = SignalDataWithStreamId
  BY DEF DataStream, StreamOf
<1>2. ContextStream.packet_type = ContextWithStreamId
  BY DEF ContextStream, StreamOf
<1> QED
  BY <1>1, <1>2 DEF Streams, SignalDataWithStreamId, ContextWithStreamId

\* A datagram in flight between the programs: whole, and from a sender to its receiver.
Carried(m) ==
  /\ m = [from |-> m.from, to |-> m.to, index |-> m.index, bytes |-> m.bytes]
  /\ m.from \in Senders /\ m.to = DestinationOf[m.from]
  /\ Received(m.bytes) = m.bytes /\ Readable(m.bytes)

OrderInv ==
  /\ SenderInv
  /\ IsFiniteSet(network) /\ \A m \in network : Carried(m)
  /\ sent \in [Senders -> [Streams -> Int]]
  /\ latest = [p \in Parsers |-> latest[p]]

\* Two datagrams in flight to one receiver are from one sender: none is mapped on another.
LEMMA MessagesStayApart ==
  ASSUME OneSenderEach, NEW m, NEW n, Carried(m), Carried(n), FlowMessage(m) = FlowMessage(n)
  PROVE  m = n
<1>1. m.to = n.to /\ m.index = n.index /\ m.bytes = n.bytes
  BY DEF FlowMessage, Carried
<1>2. m.from = n.from
  BY <1>1 DEF Carried, OneSenderEach
<1> QED
  BY <1>1, <1>2 DEF Carried

\* The network counts its datagrams as that of the flow does.
LEMMA FlowCounts == \A S : Flow!Cardinality(S) = Cardinality(S)
BY Zenon DEF Flow!Cardinality, Cardinality

\* What the network does to a datagram it does to what the datagram is mapped to.
LEMMA TransmitMaps ==
  ASSUME OrderInv, NEW m, Transmit(m)
  PROVE  Flow!Transmit(FlowMessage(m))
<1>1. PICK kept \in SUBSET network : Cardinality(kept) < Capacity /\ network' = kept \cup {m}
  BY DEF Transmit
<1> DEFINE mapped == {FlowMessage(k) : k \in kept}
<1>2. IsFiniteSet(kept) /\ Cardinality(kept) \in Nat
  BY FS_Subset, FS_CardinalityType DEF OrderInv
<1>3. IsFiniteSet(mapped) /\ Cardinality(mapped) <= Cardinality(kept)
  <2> DEFINE f == [k \in kept |-> FlowMessage(k)]
  <2>1. f \in Surjection(kept, mapped)
    BY DEF Surjection
  <2> HIDE DEF f, mapped
  <2> QED
    BY <1>2, <2>1, FS_Surjection
<1>4. Cardinality(mapped) \in Nat
  BY <1>3, FS_CardinalityType
<1>5. Cardinality(mapped) < Capacity
  <2> HIDE DEF mapped
  <2> QED
    BY <1>1, <1>2, <1>3, <1>4, CapacityAssumption
<1>6. mapped \in SUBSET FlowNetwork /\ FlowNetwork' = mapped \cup {FlowMessage(m)}
  BY <1>1 DEF FlowNetwork
<1> HIDE DEF mapped
<1> QED
  BY <1>5, <1>6, FlowCounts DEF Flow!Transmit

\* Losing one of them loses what it is mapped to, and no more.
LEMMA DropMaps ==
  ASSUME OneSenderEach, OrderInv, NEW m \in network, Drop(m)
  PROVE  Flow!Drop(FlowMessage(m)) /\ FlowMessage(m) \in FlowNetwork
<1>1. network' = network \ {m}
  BY DEF Drop
<1>2. \A n \in network : FlowMessage(n) = FlowMessage(m) => n = m
  BY MessagesStayApart DEF OrderInv
<1>3. FlowNetwork' = FlowNetwork \ {FlowMessage(m)}
  BY <1>1, <1>2 DEF FlowNetwork
<1> QED
  BY <1>3 DEF Flow!Drop, FlowNetwork

-----------------------------------------------------------------------------
(* Sending.                                                                *)

\* What is sent is a datagram of its stream with the number of its counter.
LEMMA ContextIsNumbered ==
  ASSUME SenderInv, NEW s \in Senders, NEW now \in Times
  PROVE  LET d == Sent(ContextWrite(s, now))
         IN /\ d \in NumberedDatagrams(ContextStream, context_sequence[s])
            /\ \A m : m.bytes = d =>
                 /\ StreamOfDatagram(m) = ContextStream
                 /\ PrologueOfDatagram(m).header.sequence = context_sequence[s]
<1> DEFINE p == SignalContextPacket(context_sequence[s], now)
           d == Sent(ContextWrite(s, now))
<1>1. context_sequence[s] \in SequenceNumber /\ buffer[s] \in Bytes
      /\ Len(buffer[s].words) = UDP_DATAGRAM_WORDS
  BY DEF SenderInv, UdpSenderTypeOK
<1>2. PICK words : /\ Accepted(DefaultOptions, words) /\ PacketOf(words) = p
                   /\ \A b \in Bytes : Len(b.words) = UDP_DATAGRAM_WORDS =>
                        Sent(WritePacket(p, b, DefaultOptions)) = Slice(words)
  BY <1>1, ContextIsFrame
<1>3. d = Slice(words) /\ Sent(WritePacket(p, BlankBuffer, DefaultOptions)) = Slice(words)
  BY <1>1, <1>2, BlankBufferType DEF ContextWrite
<1>4. /\ p.prologue.header.packet_type = ContextWithStreamId
      /\ p.prologue.class_id.packet_class = StandardFlowSignalContext
      /\ p.prologue.header.sequence = context_sequence[s]
  BY DEF SignalContextPacket
<1>5. PrologueOf(d.words) = p.prologue
  BY <1>2, <1>3 DEF PacketOf, Slice
<1>6. d \in NumberedDatagrams(ContextStream, context_sequence[s])
  <2>1. NumberedDatagrams(ContextStream, context_sequence[s])
          = {Sent(WritePacket(SignalContextPacket(context_sequence[s], t), BlankBuffer,
                              DefaultOptions)) : t \in Times}
    BY <1>1, StreamsDiffer DEF NumberedDatagrams, DatagramsWith
  <2> QED
    BY <1>3, <2>1
<1> HIDE DEF p, d
<1>7. \A m : m.bytes = d => /\ StreamOfDatagram(m) = ContextStream
                            /\ PrologueOfDatagram(m).header.sequence = context_sequence[s]
  BY <1>4, <1>5 DEF StreamOfDatagram, PrologueOfDatagram, ContextStream
<1> QED
  BY <1>6, <1>7 DEF d

\* So is a data packet.
LEMMA DataIsNumbered ==
  ASSUME SenderInv, NEW s \in Senders, NEW now \in Times
  PROVE  LET d == Sent(DataWrite(s, now))
         IN /\ d \in NumberedDatagrams(DataStream, data_sequence[s])
            /\ \A m : m.bytes = d =>
                 /\ StreamOfDatagram(m) = DataStream
                 /\ PrologueOfDatagram(m).header.sequence = data_sequence[s]
<1> DEFINE Written(b) == WriteIqData(16, SignalDataSpec(data_sequence[s], now),
                                     SamplesForPacket(packet_count[s]), b)
           d == Sent(DataWrite(s, now))
<1>1. /\ data_sequence[s] \in SequenceNumber /\ packet_count[s] \in 0..(PacketCounts - 1)
      /\ buffer[s] \in Bytes /\ Len(buffer[s].words) = UDP_DATAGRAM_WORDS
  BY DEF SenderInv, UdpSenderTypeOK
<1>2. PICK words : /\ PrologueOf(words).header.packet_type = SignalDataWithStreamId
                   /\ PrologueOf(words).class_id.packet_class = StandardFlowSignalData
                   /\ PrologueOf(words).header.sequence = data_sequence[s]
                   /\ \A b \in Bytes : Len(b.words) = UDP_DATAGRAM_WORDS =>
                        Sent(Written(b)) = Slice(words)
  BY <1>1, DataIsFrame
<1>3. d = Slice(words) /\ Sent(Written(BlankBuffer)) = Slice(words)
  BY <1>1, <1>2, BlankBufferType DEF DataWrite
<1>4. d \in NumberedDatagrams(DataStream, data_sequence[s])
  <2>1. NumberedDatagrams(DataStream, data_sequence[s])
          = {Sent(WriteIqData(16, SignalDataSpec(data_sequence[s], t), SamplesForPacket(count),
                              BlankBuffer)) : count \in 0..(PacketCounts - 1), t \in Times}
    BY <1>1, StreamsDiffer DEF NumberedDatagrams, DatagramsWith
  <2> QED
    BY <1>1, <1>3, <2>1
<1>5. d.words = words
  BY <1>3 DEF Slice
<1> HIDE DEF d
<1>6. \A m : m.bytes = d => /\ StreamOfDatagram(m) = DataStream
                            /\ PrologueOfDatagram(m).header.sequence = data_sequence[s]
  BY <1>2, <1>5 DEF StreamOfDatagram, PrologueOfDatagram, DataStream
<1> QED
  BY <1>4, <1>6 DEF d

\* A datagram of a sender is carried whole.
LEMMA SentIsCarried ==
  ASSUME SenderInv, NEW s \in Senders, NEW now \in Times, NEW index,
         NEW write \in {ContextWrite(s, now), DataWrite(s, now)}
  PROVE  Carried([from |-> s, to |-> DestinationOf[s], index |-> index, bytes |-> Sent(write)])
<1>1. Sent(write) \in Bytes /\ Len(Sent(write).words) <= UDP_DATAGRAM_WORDS
  BY SentType
<1>2. Len(Sent(write).words) <= RECEIVE_WORDS
  <2>1. Len(Sent(write).words) \in Nat /\ UDP_DATAGRAM_WORDS \in Nat
    BY <1>1, DatagramSize DEF Bytes
  <2> QED
    BY <1>1, <2>1, ReceiveAssumption
<1>3. Readable(Sent(write))
  BY SentIsReadable
<1>4. Received(Sent(write)) = Sent(write)
  BY <1>1, <1>2, <1>3, ReceivedWhole DEF Readable
<1> QED
  BY <1>3, <1>4 DEF Carried

\* A datagram transmitted and counted is one the flow's source sends.
LEMMA SendMaps ==
  ASSUME OneSenderEach, OrderInv, NEW s \in Senders, NEW key \in Streams, NEW m,
         m.to = DestinationOf[s], m.index = sent[s][key],
         Carried(m), Transmit(m), Count(s, key), UNCHANGED vars,
         StreamOfDatagram(m) = key,
         PrologueOfDatagram(m).header.sequence = FlowSequence[DestinationOf[s]][key],
         m.bytes \in NumberedDatagrams(key, FlowSequence[DestinationOf[s]][key]),
         FlowSequence'
           = [FlowSequence EXCEPT ![DestinationOf[s]][key] = NextSequence(@)]
  PROVE  Flow!Send(DestinationOf[s], key)
<1> DEFINE p == DestinationOf[s]
<1>1. p \in Parsers /\ SenderOf(p) = s /\ FlowSent[p] = sent[s]
  BY SenderOfReceiver DEF FlowSent
<1>2. FlowMessage(m) = [to |-> p, key |-> key, sequence |-> FlowSequence[p][key],
                        index |-> FlowSent[p][key], bytes |-> m.bytes]
  BY <1>1 DEF FlowMessage, Carried
<1>3. Flow!Transmit(FlowMessage(m))
  BY TransmitMaps
<1>4. FlowSent' = [FlowSent EXCEPT ![p][key] = @ + 1]
  <2>1. sent' = [sent EXCEPT ![s][key] = @ + 1]
    BY DEF Count
  <2>2. \A q \in Parsers : SenderOf(q) \in Senders /\ (SenderOf(q) = s <=> q = p)
    BY SenderOfReceiver
  <2>3. \A q \in Parsers :
          sent'[SenderOf(q)] = IF q = p THEN [sent[s] EXCEPT ![key] = @ + 1] ELSE sent[SenderOf(q)]
    BY <2>1, <2>2 DEF OrderInv
  <2>4. FlowSent' = [q \in Parsers |-> sent'[SenderOf(q)]]
    BY DEF FlowSent
  <2> QED
    BY <1>1, <2>3, <2>4 DEF FlowSent
<1>5. UNCHANGED <<last_seen, result, FlowLatest>>
  BY DEF vars, Count, FlowLatest
<1>6. \A n : Flow!NextSequence(n) = NextSequence(n)
  BY DEF Flow!NextSequence, NextSequence
<1>7. FlowSent[p][key] <= MaxIndex
  BY <1>1 DEF Count
<1>8. FlowSequence' = [FlowSequence EXCEPT ![p][key] = Flow!NextSequence(@)]
  BY <1>6
<1>9. m.bytes \in NumberedDatagrams(key, FlowSequence[p][key])
  OBVIOUS
<1> HIDE DEF p
<1>10. Flow!Transmit([to |-> p, key |-> key, sequence |-> FlowSequence[p][key],
                      index |-> FlowSent[p][key], bytes |-> m.bytes])
  BY <1>2, <1>3
<1>11. \E d \in NumberedDatagrams(key, FlowSequence[p][key]) :
        Flow!Transmit([to |-> p, key |-> key, sequence |-> FlowSequence[p][key],
                       index |-> FlowSent[p][key], bytes |-> d])
  BY <1>9, <1>10
<1>12. Flow!Send(p, key)
  BY <1>4, <1>5, <1>7, <1>8, <1>11 DEF Flow!Send
<1> QED
  BY <1>12 DEF p

\* Changing one entry of a table of tables.
LEMMA OneEntry ==
  ASSUME NEW P, NEW K, NEW f, NEW g, NEW p \in P, NEW k \in K, NEW v,
         f = [q \in P |-> [key \in K |-> f[q][key]]],
         g = [q \in P |-> [key \in K |-> g[q][key]]],
         \A q \in P, key \in K : g[q][key] = IF q = p /\ key = k THEN v ELSE f[q][key]
  PROVE  g = [f EXCEPT ![p][k] = v]
<1>1. \A q \in P : f[q] = [key \in K |-> f[q][key]] /\ g[q] = [key \in K |-> g[q][key]]
  OBVIOUS
<1>2. g[p] = [f[p] EXCEPT ![k] = v]
  BY <1>1
<1>3. \A q \in P : q # p => g[q] = f[q]
  BY <1>1
<1> QED
  BY <1>2, <1>3

\* The counters of the sender of p, and how they change.
LEMMA CountersOf ==
  ASSUME OneSenderEach, NEW s \in Senders
  PROVE  /\ FlowSequence[DestinationOf[s]][DataStream] = data_sequence[s]
         /\ FlowSequence[DestinationOf[s]][ContextStream] = context_sequence[s]
BY SenderOfReceiver, StreamsDiffer DEF FlowSequence

\* The flow's sequence goes up with the sender's: that of its contexts,
LEMMA ContextCounts ==
  ASSUME OneSenderEach, SenderInv, NEW s \in Senders, UNCHANGED data_sequence,
         context_sequence' = [context_sequence EXCEPT ![s] = NextSequence(@)]
  PROVE  FlowSequence'
           = [FlowSequence EXCEPT ![DestinationOf[s]][ContextStream] = NextSequence(@)]
<1> DEFINE p == DestinationOf[s]
<1>1. \A q \in Parsers : SenderOf(q) \in Senders /\ (SenderOf(q) = s <=> q = p)
  BY SenderOfReceiver
<1>2. \A q \in Parsers : context_sequence'[SenderOf(q)]
                          = IF q = p THEN NextSequence(context_sequence[s])
                                     ELSE context_sequence[SenderOf(q)]
  BY <1>1 DEF SenderInv, UdpSenderTypeOK
<1>3. FlowSequence' = [q \in Parsers |-> [key \in Streams |->
        IF key = DataStream THEN data_sequence[SenderOf(q)] ELSE context_sequence'[SenderOf(q)]]]
  BY DEF FlowSequence
<1>4. \A key \in Streams : key = DataStream \/ key = ContextStream
  BY DEF Streams
<1>5. p \in Parsers
  BY SenderOfReceiver
<1>6. \A q \in Parsers, key \in Streams :
        FlowSequence'[q][key] = IF q = p /\ key = ContextStream
                                THEN NextSequence(FlowSequence[p][key]) ELSE FlowSequence[q][key]
  BY <1>1, <1>2, <1>3, <1>4, StreamsDiffer DEF FlowSequence
<1>7. /\ FlowSequence = [q \in Parsers |-> [key \in Streams |-> FlowSequence[q][key]]]
      /\ FlowSequence' = [q \in Parsers |-> [key \in Streams |-> FlowSequence'[q][key]]]
  BY <1>3 DEF FlowSequence
<1> HIDE DEF p
<1>8. FlowSequence' = [FlowSequence EXCEPT ![p][ContextStream] = NextSequence(FlowSequence[p][ContextStream])]
  BY <1>5, <1>6, <1>7, StreamsDiffer, OneEntry
<1> QED
  BY <1>8 DEF p

\* and that of its data.
LEMMA DataCounts ==
  ASSUME OneSenderEach, SenderInv, NEW s \in Senders, UNCHANGED context_sequence,
         data_sequence' = [data_sequence EXCEPT ![s] = NextSequence(@)]
  PROVE  FlowSequence'
           = [FlowSequence EXCEPT ![DestinationOf[s]][DataStream] = NextSequence(@)]
<1> DEFINE p == DestinationOf[s]
<1>1. \A q \in Parsers : SenderOf(q) \in Senders /\ (SenderOf(q) = s <=> q = p)
  BY SenderOfReceiver
<1>2. \A q \in Parsers : data_sequence'[SenderOf(q)]
                          = IF q = p THEN NextSequence(data_sequence[s])
                                     ELSE data_sequence[SenderOf(q)]
  BY <1>1 DEF SenderInv, UdpSenderTypeOK
<1>3. FlowSequence' = [q \in Parsers |-> [key \in Streams |->
        IF key = DataStream THEN data_sequence'[SenderOf(q)] ELSE context_sequence[SenderOf(q)]]]
  BY DEF FlowSequence
<1>4. \A key \in Streams : key = DataStream \/ key = ContextStream
  BY DEF Streams
<1>5. p \in Parsers
  BY SenderOfReceiver
<1>6. \A q \in Parsers, key \in Streams :
        FlowSequence'[q][key] = IF q = p /\ key = DataStream
                                THEN NextSequence(FlowSequence[p][key]) ELSE FlowSequence[q][key]
  BY <1>1, <1>2, <1>3, <1>4, StreamsDiffer DEF FlowSequence
<1>7. /\ FlowSequence = [q \in Parsers |-> [key \in Streams |-> FlowSequence[q][key]]]
      /\ FlowSequence' = [q \in Parsers |-> [key \in Streams |-> FlowSequence'[q][key]]]
  BY <1>3 DEF FlowSequence
<1> HIDE DEF p
<1>8. FlowSequence' = [FlowSequence EXCEPT ![p][DataStream] = NextSequence(FlowSequence[p][DataStream])]
  BY <1>5, <1>6, <1>7, StreamsDiffer, OneEntry
<1> QED
  BY <1>8 DEF p

\* Both kinds of turn are sends of the flow, and leave the invariant as it was.
LEMMA ContextSendMaps ==
  ASSUME OneSenderEach, OrderInv, NEW s \in Senders, NEW now \in Times,
         LSendContext(s, now, sent[s][ContextStream]), Count(s, ContextStream)
  PROVE  Flow!Send(DestinationOf[s], ContextStream)
<1> DEFINE m == [from |-> s, to |-> DestinationOf[s], index |-> sent[s][ContextStream],
                 bytes |-> Sent(ContextWrite(s, now))]
<1>1. SenderInv /\ SendContext(s, now) /\ UNCHANGED vars /\ Transmit(m)
  BY DEF OrderInv, LSendContext, SendTo
<1>2. Carried(m)
  BY <1>1, SentIsCarried
<1>3. FlowSequence[DestinationOf[s]][ContextStream] = context_sequence[s]
  BY CountersOf
<1>4. FlowSequence'
        = [FlowSequence EXCEPT ![DestinationOf[s]][ContextStream] = NextSequence(@)]
  BY <1>1, ContextCounts DEF SendContext
<1>5. /\ m.to = DestinationOf[s] /\ m.index = sent[s][ContextStream]
      /\ m.bytes = Sent(ContextWrite(s, now))
  OBVIOUS
<1> HIDE DEF m
<1>6. /\ m.bytes \in NumberedDatagrams(ContextStream, context_sequence[s])
      /\ StreamOfDatagram(m) = ContextStream
      /\ PrologueOfDatagram(m).header.sequence = context_sequence[s]
  BY <1>1, <1>5, ContextIsNumbered
<1> QED
  BY <1>1, <1>2, <1>3, <1>4, <1>5, <1>6, StreamsDiffer, SendMaps

\* A data packet sent is a datagram of the flow sent on the data stream.
LEMMA DataSendMaps ==
  ASSUME OneSenderEach, OrderInv, NEW s \in Senders, NEW now \in Times,
         LSendData(s, now, sent[s][DataStream]), Count(s, DataStream)
  PROVE  Flow!Send(DestinationOf[s], DataStream)
<1> DEFINE m == [from |-> s, to |-> DestinationOf[s], index |-> sent[s][DataStream],
                 bytes |-> Sent(DataWrite(s, now))]
<1>1. SenderInv /\ SendData(s, now) /\ UNCHANGED vars /\ Transmit(m)
  BY DEF OrderInv, LSendData, SendTo
<1>2. Carried(m)
  BY <1>1, SentIsCarried
<1>3. FlowSequence[DestinationOf[s]][DataStream] = data_sequence[s]
  BY CountersOf
<1>4. FlowSequence' = [FlowSequence EXCEPT ![DestinationOf[s]][DataStream] = NextSequence(@)]
  BY <1>1, DataCounts DEF SendData
<1>5. /\ m.to = DestinationOf[s] /\ m.index = sent[s][DataStream]
      /\ m.bytes = Sent(DataWrite(s, now))
  OBVIOUS
<1> HIDE DEF m
<1>6. /\ m.bytes \in NumberedDatagrams(DataStream, data_sequence[s])
      /\ StreamOfDatagram(m) = DataStream
      /\ PrologueOfDatagram(m).header.sequence = data_sequence[s]
  BY <1>1, <1>5, DataIsNumbered
<1> QED
  BY <1>1, <1>2, <1>3, <1>4, <1>5, <1>6, StreamsDiffer, SendMaps

\* What a sender sends is carried from it to its receiver.
LEMMA SendKeepsOrder ==
  ASSUME OrderInv, NEW s \in Senders, OSend(s)
  PROVE  OrderInv'
<1>1. PICK now \in Times, key \in Streams :
        /\ SendContext(s, now) \/ SendData(s, now)
        /\ \E write \in {ContextWrite(s, now), DataWrite(s, now)} :
             SendTo(s, sent[s][key], write)
        /\ Count(s, key)
  BY StreamsDiffer DEF OSend, LSendContext, LSendData
<1>2. SenderInv'
  BY <1>1, ContextSent, DataSent DEF OrderInv
<1>3. PICK write \in {ContextWrite(s, now), DataWrite(s, now)} : SendTo(s, sent[s][key], write)
  BY <1>1
<1> DEFINE m == [from |-> s, to |-> DestinationOf[s], index |-> sent[s][key],
                 bytes |-> Sent(write)]
<1>4. Carried(m)
  BY SentIsCarried DEF OrderInv
<1>5. Transmit(m)
  BY <1>3 DEF SendTo
<1> HIDE DEF m
<1>6. IsFiniteSet(network') /\ \A n \in network' : Carried(n)
  <2>1. PICK kept \in SUBSET network : network' = kept \cup {m}
    BY <1>5 DEF Transmit
  <2>2. IsFiniteSet(kept)
    BY FS_Subset DEF OrderInv
  <2> QED
    BY <1>4, <2>1, <2>2, FS_AddElement DEF OrderInv
<1>7. sent' \in [Senders -> [Streams -> Int]]
  BY <1>1 DEF Count, OrderInv
<1>8. latest' = [p \in Parsers |-> latest'[p]]
  BY <1>1 DEF Count, OrderInv
<1> QED
  BY <1>2, <1>6, <1>7, <1>8 DEF OrderInv, Carried, Readable

-----------------------------------------------------------------------------
(* Running a sender again.                                                 *)

\* A sender run again numbers from zero: a restart of its source.
LEMMA StartSenderMaps ==
  ASSUME OneSenderEach, OrderInv, NEW s \in Senders, OStartSender(s)
  PROVE  Flow!Restart(DestinationOf[s])
<1> DEFINE p == DestinationOf[s]
<1>1. /\ data_sequence' = [data_sequence EXCEPT ![s] = 0]
      /\ context_sequence' = [context_sequence EXCEPT ![s] = 0]
      /\ UNCHANGED <<last_seen, result, network, latest>>
      /\ \A key \in Streams : Flow!NextTurn(sent[s][key]) <= MaxIndex + 1
      /\ sent' = [sent EXCEPT ![s] = [key \in Streams |-> Flow!NextTurn(@[key])]]
  BY DEF OStartSender, LStartSender, StartSender, Fresh, vars
<1>2. /\ p \in Parsers /\ FlowSent[p] = sent[s]
      /\ \A q \in Parsers : SenderOf(q) \in Senders /\ (SenderOf(q) = s <=> q = p)
  BY SenderOfReceiver DEF FlowSent
<1>3. FlowSequence' = [FlowSequence EXCEPT ![p] = [key \in Streams |-> 0]]
  <2>1. \A q \in Parsers :
          /\ data_sequence'[SenderOf(q)] = IF q = p THEN 0 ELSE data_sequence[SenderOf(q)]
          /\ context_sequence'[SenderOf(q)] = IF q = p THEN 0 ELSE context_sequence[SenderOf(q)]
    BY <1>1, <1>2 DEF OrderInv, SenderInv, UdpSenderTypeOK
  <2>2. FlowSequence' = [q \in Parsers |-> [key \in Streams |->
          IF key = DataStream THEN data_sequence'[SenderOf(q)]
                              ELSE context_sequence'[SenderOf(q)]]]
    BY DEF FlowSequence
  <2> HIDE DEF p
  <2> QED
    BY <2>1, <2>2 DEF FlowSequence
<1>4. FlowSent' = [FlowSent EXCEPT ![p] = [key \in Streams |-> Flow!NextTurn(@[key])]]
  <2> DEFINE turn_of == [key \in Streams |-> Flow!NextTurn(sent[s][key])]
  <2>1. sent' = [sent EXCEPT ![s] = turn_of]
    BY <1>1
  <2> HIDE DEF turn_of
  <2>2. \A q \in Parsers :
          sent'[SenderOf(q)] = IF q = p THEN turn_of ELSE sent[SenderOf(q)]
    BY <1>2, <2>1 DEF OrderInv
  <2>3. FlowSent' = [q \in Parsers |-> sent'[SenderOf(q)]]
    BY DEF FlowSent
  <2> HIDE DEF p
  <2>4. FlowSent' = [FlowSent EXCEPT ![p] = turn_of]
    BY <2>2, <2>3 DEF FlowSent
  <2> QED
    BY <1>2, <2>4 DEF turn_of
<1>5. UNCHANGED <<last_seen, result, FlowNetwork, FlowLatest>>
  BY <1>1 DEF FlowNetwork, FlowLatest
<1> HIDE DEF p
<1>6. Flow!Restart(p)
  BY <1>1, <1>2, <1>3, <1>4, <1>5 DEF Flow!Restart
<1> QED
  BY <1>6 DEF p

\* Running a sender again leaves the order alone.
LEMMA StartSenderKeepsOrder ==
  ASSUME OrderInv, NEW s \in Senders, OStartSender(s)
  PROVE  OrderInv'
<1>1. SenderInv'
  BY StartedFresh DEF OrderInv, OStartSender, LStartSender
<1>2. UNCHANGED <<network, latest>>
  BY DEF OStartSender, LStartSender
<1>3. sent' \in [Senders -> [Streams -> Int]]
  <2>1. \A key \in Streams : Flow!NextTurn(sent[s][key]) \in Int
    <3>1. \A n \in Int : Flow!NextTurn(n) \in Int
      BY ModulusAssumption DEF Flow!NextTurn
    <3> QED
      BY <3>1 DEF OrderInv
  <2> QED
    BY <2>1 DEF OrderInv, OStartSender
<1> QED
  BY <1>1, <1>2, <1>3 DEF OrderInv, Carried, Readable

-----------------------------------------------------------------------------
(* The parser the flow is made of is the parser of the programs.           *)

\* An instance has definitions of its own: each is the one it is made from.
LEMMA FlowParses == \A d, o : Flow!ParsePacketExact(d, o) = ParsePacketExact(d, o)
<1> USE DEF WORD_BYTES, Flow!WORD_BYTES, Ok, Flow!Ok, HasWord, Flow!HasWord, Expect,
        Flow!Expect, SignalDataWithStreamId, Flow!SignalDataWithStreamId, ContextWithStreamId,
        Flow!ContextWithStreamId, VersionWithStreamId, Flow!VersionWithStreamId,
        CommandWithStreamId, Flow!CommandWithStreamId, ExtensionCommandWithStreamId,
        Flow!ExtensionCommandWithStreamId, SampleCount, Flow!SampleCount, RealTimePicoseconds,
        Flow!RealTimePicoseconds, None, Flow!None, Some, Flow!Some, Fine, Flow!Fine, Coarse,
        Flow!Coarse, LegacyVersionType, Flow!LegacyVersionType, StandardFlowSignalData,
        Flow!StandardFlowSignalData, StandardFlowSignalContext, Flow!StandardFlowSignalContext,
        SampleCountSignalData, Flow!SampleCountSignalData, SampleCountSignalContext,
        Flow!SampleCountSignalContext, VersionFlowSignalContext, Flow!VersionFlowSignalContext,
        SampleCountTimingFlowControl, Flow!SampleCountTimingFlowControl,
        RealTimeTimingFlowControl, Flow!RealTimeTimingFlowControl, SinkCapabilitiesQuery,
        Flow!SinkCapabilitiesQuery, SinkCapabilitiesResponse, Flow!SinkCapabilitiesResponse,
        StatusReport, Flow!StatusReport, ExpectBits, Flow!ExpectBits, BasicDataPlane,
        Flow!BasicDataPlane, BasicDataPlaneWithLinkEstablishment,
        Flow!BasicDataPlaneWithLinkEstablishment, BasicFlows, Flow!BasicFlows, PROLOGUE_WORDS,
        Flow!PROLOGUE_WORDS, Panic, Flow!Panic, CIF_CONTEXT_CHANGED, Flow!CIF_CONTEXT_CHANGED,
        ExpectWordOneOf, Flow!ExpectWordOneOf, CIF_VERSION_CHANGED, Flow!CIF_VERSION_CHANGED,
        Version1, Flow!Version1
<1>1. \A d : Flow!ByteLen(d) = ByteLen(d)
  BY DEF ByteLen, Flow!ByteLen
<1>2. \A e, f : Flow!??(e, f) = (e ?? f)
  BY DEF ??, Flow!??
<1>3. \A words, i : Flow!ReadU32(words, i) = ReadU32(words, i)
  BY DEF ReadU32, Flow!ReadU32
<1>4. \A w : Flow!HeaderError(w) = HeaderError(w)
  BY <1>2 DEF HeaderError, Flow!HeaderError, PacketType, Flow!PacketType, Tsi, Flow!Tsi, Tsf,
     Flow!Tsf
<1>5. \A w : Flow!PacketSizeWords(w) = PacketSizeWords(w)
  BY DEF PacketSizeWords, Flow!PacketSizeWords
<1>6. \A w : Flow!HeaderOf(w) = HeaderOf(w)
  BY <1>5 DEF HeaderOf, Flow!HeaderOf, TsmOf, Flow!TsmOf
<1>7. \A w0, w1 : Flow!ClassIdError(w0, w1) = ClassIdError(w0, w1)
  BY <1>2 DEF ClassIdError, Flow!ClassIdError, InformationClassCode, Flow!InformationClassCode,
     PacketClassCode, Flow!PacketClassCode, DIFI_CID, Flow!DIFI_CID
<1>8. \A w0, w1 : Flow!ClassIdOf(w0, w1) = ClassIdOf(w0, w1)
  BY DEF ClassIdOf, Flow!ClassIdOf
<1>9. \A o, packet_type :
        Flow!ValidatePacketTypeAvailable(o, packet_type)
          = ValidatePacketTypeAvailable(o, packet_type)
  BY DEF ValidatePacketTypeAvailable, Flow!ValidatePacketTypeAvailable, PacketTypeAvailable,
     Flow!PacketTypeAvailable
<1>10. \A o, packet_class :
        Flow!ValidatePacketClassAvailable(o, packet_class)
          = ValidatePacketClassAvailable(o, packet_class)
  BY DEF ValidatePacketClassAvailable, Flow!ValidatePacketClassAvailable, PacketClassAvailable,
     Flow!PacketClassAvailable
<1>11. \A o, packet_type, packet_class :
        Flow!ValidatePacketTypeClass(o, packet_type, packet_class)
          = ValidatePacketTypeClass(o, packet_type, packet_class)
  BY DEF ValidatePacketTypeClass, Flow!ValidatePacketTypeClass, PacketTypeClass,
     Flow!PacketTypeClass
<1>12. \A header, packet_class :
        Flow!ValidateHeaderBits(header, packet_class) = ValidateHeaderBits(header, packet_class)
  BY <1>2 DEF ValidateHeaderBits, Flow!ValidateHeaderBits
<1>13. \A header, packet_class :
        Flow!ValidateTsf(header, packet_class) = ValidateTsf(header, packet_class)
  BY DEF ValidateTsf, Flow!ValidateTsf, RealTimeClasses, Flow!RealTimeClasses,
     SampleCountClasses, Flow!SampleCountClasses
<1>14. \A header, information_class, packet_class :
        Flow!ValidateTsm(header, information_class, packet_class)
          = ValidateTsm(header, information_class, packet_class)
  BY DEF ValidateTsm, Flow!ValidateTsm, ExpectedTsm, Flow!ExpectedTsm
<1>15. \A o, information_class, packet_class :
        Flow!ValidateClassMembership(o, information_class, packet_class)
          = ValidateClassMembership(o, information_class, packet_class)
  BY DEF ValidateClassMembership, Flow!ValidateClassMembership, AllowsPacketClass,
     Flow!AllowsPacketClass, AllowedV1_1, Flow!AllowedV1_1, VersionFlow, Flow!VersionFlow,
     StandardFlow, Flow!StandardFlow, AllowedV1_2_1, Flow!AllowedV1_2_1,
     DataPlaneUpstreamFlowControlSampleCount, Flow!DataPlaneUpstreamFlowControlSampleCount,
     DataPlaneUpstreamFlowControlRealTime, Flow!DataPlaneUpstreamFlowControlRealTime,
     BasicDataPlaneSampleCount, Flow!BasicDataPlaneSampleCount,
     DataPlaneDownstreamFlowControlSampleCount, Flow!DataPlaneDownstreamFlowControlSampleCount,
     DataPlaneDownstreamFlowControlRealTime, Flow!DataPlaneDownstreamFlowControlRealTime,
     SampleFlow, Flow!SampleFlow, AllowedV1_3_0, Flow!AllowedV1_3_0,
     StandaloneLinkEstablishment, Flow!StandaloneLinkEstablishment,
     DataPlaneUpstreamFlowControlSampleCountWithLinkEstablishment,
     Flow!DataPlaneUpstreamFlowControlSampleCountWithLinkEstablishment,
     DataPlaneUpstreamFlowControlRealTimeWithLinkEstablishment,
     Flow!DataPlaneUpstreamFlowControlRealTimeWithLinkEstablishment,
     BasicDataPlaneSampleCountWithLinkEstablishment,
     Flow!BasicDataPlaneSampleCountWithLinkEstablishment,
     DataPlaneDownstreamFlowControlSampleCountWithLinkEstablishment,
     Flow!DataPlaneDownstreamFlowControlSampleCountWithLinkEstablishment,
     DataPlaneDownstreamFlowControlRealTimeWithLinkEstablishment,
     Flow!DataPlaneDownstreamFlowControlRealTimeWithLinkEstablishment, SinkCapabilities,
     Flow!SinkCapabilities
<1>16. \A o, header, class_id :
        Flow!ValidatePrologue(o, header, class_id) = ValidatePrologue(o, header, class_id)
  BY <1>2, <1>9, <1>10, <1>11, <1>12, <1>13, <1>14, <1>15 DEF ValidatePrologue,
     Flow!ValidatePrologue
<1>17. \A o, information_class, packet_class :
        Flow!PermitsDataPadding(o, information_class, packet_class)
          = PermitsDataPadding(o, information_class, packet_class)
  BY DEF PermitsDataPadding, Flow!PermitsDataPadding
<1>18. \A payload, pad_bit_count :
        Flow!ValidateDataPadding(payload, pad_bit_count)
          = ValidateDataPadding(payload, pad_bit_count)
  BY <1>2 DEF ValidateDataPadding, Flow!ValidateDataPadding, PayloadByte, Flow!PayloadByte,
     InSlice, Flow!InSlice, InBytes, Flow!InBytes, FullPadBytes, Flow!FullPadBytes
<1>19. \A o, words, class_id :
        Flow!DataError(o, words, class_id) = DataError(o, words, class_id)
  BY <1>2, <1>17, <1>18 DEF DataError, Flow!DataError
<1>20. \A words, i : Flow!ReadU64(words, i) = ReadU64(words, i)
  BY <1>3 DEF ReadU64, Flow!ReadU64
<1>21. \A layout, actual :
        Flow!ExpectPacketSize(layout, actual) = ExpectPacketSize(layout, actual)
  BY DEF ExpectPacketSize, Flow!ExpectPacketSize, LayoutWords, Flow!LayoutWords
<1>22. \A words, i : Flow!Needs(words, i) = Needs(words, i)
  BY DEF Needs, Flow!Needs
<1>23. \A v : Flow!IntegerHz(v) = IntegerHz(v)
  BY DEF IntegerHz, Flow!IntegerHz
<1>24. \A class_id : Flow!ExpectNoPadding(class_id) = ExpectNoPadding(class_id)
  BY DEF ExpectNoPadding, Flow!ExpectNoPadding
<1>25. \A words, size, class_id :
        Flow!SignalContextError(words, size, class_id)
          = SignalContextError(words, size, class_id)
  BY <1>2, <1>3, <1>20, <1>21, <1>22, <1>23, <1>24 DEF SignalContextError,
     Flow!SignalContextError, ExpectSignalContextCif0, Flow!ExpectSignalContextCif0,
     CIF_CONTEXT_UNCHANGED, Flow!CIF_CONTEXT_UNCHANGED, PayloadFormatError,
     Flow!PayloadFormatError
<1>26. \A field, actual : Flow!ExpectFixed(field, actual) = ExpectFixed(field, actual)
  BY DEF ExpectFixed, Flow!ExpectFixed, ExpectWord, Flow!ExpectWord, FixedWord, Flow!FixedWord,
     CIF_VERSION_1, Flow!CIF_VERSION_1, VITA49_SPEC_VERSION, Flow!VITA49_SPEC_VERSION,
     CAM_CONTROL_EXECUTE, Flow!CAM_CONTROL_EXECUTE, CAM_EXTENSION_CONTROL_VALIDATE,
     Flow!CAM_EXTENSION_CONTROL_VALIDATE, CAM_EXTENSION_ACK_VALIDATE,
     Flow!CAM_EXTENSION_ACK_VALIDATE, CAM_STATUS_REPORT_EXECUTE, Flow!CAM_STATUS_REPORT_EXECUTE,
     CIF_COMMAND_LONG, Flow!CIF_COMMAND_LONG, CIF_COMMAND_SHORT, Flow!CIF_COMMAND_SHORT,
     CIF_CONTROL_FLOW_0, Flow!CIF_CONTROL_FLOW_0, CIF_CONTROL_FLOW_1, Flow!CIF_CONTROL_FLOW_1
<1>27. \A words, size, class_id :
        Flow!VersionContextError(words, size, class_id)
          = VersionContextError(words, size, class_id)
  BY <1>2, <1>3, <1>21, <1>22, <1>24, <1>26 DEF VersionContextError, Flow!VersionContextError,
     ExpectVersionContextCif0, Flow!ExpectVersionContextCif0, CIF_VERSION_UNCHANGED,
     Flow!CIF_VERSION_UNCHANGED
<1>28. \A words, size, class_id :
        Flow!TimingFlowControlError(words, size, class_id)
          = TimingFlowControlError(words, size, class_id)
  BY <1>2, <1>3, <1>20, <1>21, <1>22, <1>23, <1>24, <1>26 DEF TimingFlowControlError,
     Flow!TimingFlowControlError
<1>29. \A words : Flow!IsShort(words) = IsShort(words)
  BY <1>3 DEF IsShort, Flow!IsShort
<1>30. \A words, class_id, cam :
        Flow!CapabilityCommonError(words, class_id, cam)
          = CapabilityCommonError(words, class_id, cam)
  BY <1>2, <1>3, <1>22, <1>24, <1>26 DEF CapabilityCommonError, Flow!CapabilityCommonError
<1>31. \A words, size, class_id :
        Flow!SinkCapabilitiesQueryError(words, size, class_id)
          = SinkCapabilitiesQueryError(words, size, class_id)
  BY <1>2, <1>3, <1>21, <1>22, <1>26, <1>29, <1>30 DEF SinkCapabilitiesQueryError,
     Flow!SinkCapabilitiesQueryError
<1>32. \A words, size, class_id :
        Flow!SinkCapabilitiesResponseError(words, size, class_id)
          = SinkCapabilitiesResponseError(words, size, class_id)
  BY <1>2, <1>3, <1>21, <1>22, <1>26, <1>29, <1>30 DEF SinkCapabilitiesResponseError,
     Flow!SinkCapabilitiesResponseError
<1>33. \A actual : Flow!ValidateStatusReportSize(actual) = ValidateStatusReportSize(actual)
  BY DEF ValidateStatusReportSize, Flow!ValidateStatusReportSize, STATUS_REPORT_SIZES,
     Flow!STATUS_REPORT_SIZES
<1>34. \A words : Flow!StatusFlags(words) = StatusFlags(words)
  BY <1>3 DEF StatusFlags, Flow!StatusFlags
<1>35. \A size : Flow!ExpectedStatusFlags(size) = ExpectedStatusFlags(size)
  BY DEF ExpectedStatusFlags, Flow!ExpectedStatusFlags
<1>36. \A words, size, class_id :
        Flow!StatusReportError(words, size, class_id) = StatusReportError(words, size, class_id)
  BY <1>2, <1>3, <1>20, <1>22, <1>23, <1>24, <1>26, <1>33, <1>34, <1>35 DEF StatusReportError,
     Flow!StatusReportError
<1>37. \A packet_class : Flow!VariantOf(packet_class) = VariantOf(packet_class)
  BY DEF VariantOf, Flow!VariantOf
<1>38. \A o, words, size, class_id :
        Flow!BodyError(o, words, size, class_id) = BodyError(o, words, size, class_id)
  <2> TAKE o, words, size, class_id
  <2>1. /\ Flow!DataError(o, words, class_id) = DataError(o, words, class_id)
        /\ Flow!SignalContextError(words, size, class_id)
             = SignalContextError(words, size, class_id)
        /\ Flow!VersionContextError(words, size, class_id)
             = VersionContextError(words, size, class_id)
        /\ Flow!TimingFlowControlError(words, size, class_id)
             = TimingFlowControlError(words, size, class_id)
    BY <1>19, <1>25, <1>27, <1>28
  <2>2. /\ Flow!SinkCapabilitiesQueryError(words, size, class_id)
             = SinkCapabilitiesQueryError(words, size, class_id)
        /\ Flow!SinkCapabilitiesResponseError(words, size, class_id)
             = SinkCapabilitiesResponseError(words, size, class_id)
        /\ Flow!StatusReportError(words, size, class_id)
             = StatusReportError(words, size, class_id)
    BY <1>31, <1>32, <1>36
  <2>3. Flow!VariantOf(class_id.packet_class) = VariantOf(class_id.packet_class)
    BY <1>37
  <2> QED
    BY <2>1, <2>2, <2>3 DEF BodyError, Flow!BodyError
<1>39. \A o, words : Flow!PacketError(o, words) = PacketError(o, words)
  BY <1>2, <1>3, <1>4, <1>6, <1>7, <1>8, <1>16, <1>38 DEF PacketError, Flow!PacketError
<1>40. \A words : Flow!PrologueOf(words) = PrologueOf(words)
  BY <1>3, <1>6, <1>8, <1>20 DEF PrologueOf, Flow!PrologueOf
<1>41. \A words : Flow!Slice(words) = Slice(words)
  BY DEF Slice, Flow!Slice
<1>42. \A words : Flow!SignalDataBody(words) = SignalDataBody(words)
  BY <1>41 DEF SignalDataBody, Flow!SignalDataBody
<1>43. \A words : Flow!SignalContextBody(words) = SignalContextBody(words)
  BY <1>3, <1>20 DEF SignalContextBody, Flow!SignalContextBody, PayloadFormatOf,
     Flow!PayloadFormatOf
<1>44. \A words : Flow!VersionContextBody(words) = VersionContextBody(words)
  BY <1>3 DEF VersionContextBody, Flow!VersionContextBody
<1>45. \A words : Flow!Common(words) = Common(words)
  BY <1>3 DEF Common, Flow!Common
<1>46. \A words : Flow!TimingFlowControlBody(words) = TimingFlowControlBody(words)
  BY <1>3, <1>20, <1>45 DEF TimingFlowControlBody, Flow!TimingFlowControlBody, BufferStatusOf,
     Flow!BufferStatusOf
<1>47. \A present, value : Flow!When(present, value) = When(present, value)
  BY DEF When, Flow!When
<1>48. \A words : Flow!SinkCapabilitiesQueryBody(words) = SinkCapabilitiesQueryBody(words)
  BY <1>3, <1>20, <1>29, <1>45, <1>47 DEF SinkCapabilitiesQueryBody,
     Flow!SinkCapabilitiesQueryBody
<1>49. \A words :
        Flow!SinkCapabilitiesResponseBody(words) = SinkCapabilitiesResponseBody(words)
  BY <1>3, <1>20, <1>29, <1>41, <1>45, <1>47 DEF SinkCapabilitiesResponseBody,
     Flow!SinkCapabilitiesResponseBody
<1>50. \A words : Flow!StatusReportBody(words) = StatusReportBody(words)
  BY <1>3, <1>5, <1>20, <1>45, <1>47 DEF StatusReportBody, Flow!StatusReportBody
<1>51. \A variant, words : Flow!BodyOf(variant, words) = BodyOf(variant, words)
  BY <1>42, <1>43, <1>44, <1>46, <1>48, <1>49, <1>50 DEF BodyOf, Flow!BodyOf
<1>52. \A words : Flow!PacketOf(words) = PacketOf(words)
  BY <1>37, <1>40, <1>51 DEF PacketOf, Flow!PacketOf
<1>53. \A d : Flow!FramingError(d) = FramingError(d)
  BY <1>1, <1>2, <1>3, <1>5 DEF FramingError, Flow!FramingError, PROLOGUE_BYTES,
     Flow!PROLOGUE_BYTES
<1>54. \A d : Flow!FrameOf(d) = FrameOf(d)
  BY <1>3, <1>5 DEF FrameOf, Flow!FrameOf
<1>55. \A d : Flow!RemainderOf(d) = RemainderOf(d)
  BY <1>3, <1>5 DEF RemainderOf, Flow!RemainderOf
<1>56. \A d, o : Flow!ParsePacketPrefix(d, o) = ParsePacketPrefix(d, o)
  BY <1>2, <1>39, <1>52, <1>53, <1>54, <1>55 DEF ParsePacketPrefix, Flow!ParsePacketPrefix
<1>57. \A d, o : Flow!ParsePacketExact(d, o) = ParsePacketExact(d, o)
  BY <1>1, <1>56 DEF ParsePacketExact, Flow!ParsePacketExact
<1> QED
  BY <1>57

-----------------------------------------------------------------------------
(* Receiving.                                                              *)

\* So do parse_datagram and reset_sequences, and what they leave.
LEMMA FlowReceives ==
  /\ \A p, d : ParseOk(p, d) => Flow!ParseOk(p, d)
  /\ \A p, d : ParseErr(p, d) => Flow!ParseErr(p, d)
  /\ \A p : ResetSequences(p) => Flow!ResetSequences(p)
<1>1. /\ \A prologue : Flow!SequenceKeyOf(prologue) = SequenceKeyOf(prologue)
      /\ \A seen, key, n : Flow!Observe(seen, key, n) = Observe(seen, key, n)
      /\ Flow!NothingSeen = NothingSeen /\ Flow!NoResult = NoResult /\ Flow!Ok = Ok
  BY DEF Flow!SequenceKeyOf, SequenceKeyOf, Flow!Observe, Observe, Flow!NothingSeen, NothingSeen,
     Flow!NoResult, NoResult, Flow!Ok, Ok
<1>2. \A seen, key, n : Flow!ObservedStatus(seen, key, n) = ObservedStatus(seen, key, n)
  BY DEF Flow!ObservedStatus, ObservedStatus, Flow!First, First, Flow!InOrder, InOrder,
     Flow!Duplicate, Duplicate, Flow!Gap, Gap
<1>3. ASSUME NEW p, NEW d, ParseOk(p, d)
      PROVE  Flow!ParseOk(p, d)
  BY <1>1, <1>2, <1>3, FlowParses DEF ParseOk, Flow!ParseOk
<1>4. ASSUME NEW p, NEW d, ParseErr(p, d)
      PROVE  Flow!ParseErr(p, d)
  BY <1>1, <1>4, FlowParses DEF ParseErr, Flow!ParseErr
<1>5. ASSUME NEW p, ResetSequences(p)
      PROVE  Flow!ResetSequences(p)
  BY <1>1, <1>5 DEF ResetSequences, Flow!ResetSequences
<1> QED
  BY <1>3, <1>4, <1>5

\* A receiver that accepts a datagram is a parser of the flow that is delivered it.
LEMMA DeliverMaps ==
  ASSUME OrderInv, NEW m \in network, ODeliver(m)
  PROVE  Flow!Deliver(FlowMessage(m)) /\ FlowMessage(m) \in FlowNetwork
<1> DEFINE p   == m.to
           key == StreamOfDatagram(m)
           f   == FlowMessage(m)
<1>1. p \in Parsers /\ Readable(m.bytes) /\ Received(m.bytes) = m.bytes
  BY DestinationAssumption DEF OrderInv, Carried
<1>2. f.to = p /\ f.key = key /\ f.index = m.index /\ f.bytes = Received(m.bytes)
  BY DEF FlowMessage
<1>3. ParsePacketExact(Received(m.bytes), OptionsOf[p]).error = Ok
  BY <1>1, ReceiverOptionsAssumption DEF Readable
<1>4. ParseOk(p, Received(m.bytes)) /\ UNCHANGED <<uvars, network>>
  BY <1>3 DEF ODeliver, Deliver, Receive, ParseDatagram, ParseErr
<1> HIDE DEF p, key, f
<1>5. Flow!ParseOk(f.to, f.bytes)
  BY <1>2, <1>4, FlowReceives
<1>6. latest' = [latest EXCEPT ![p] =
        [k \in DOMAIN latest[p] \cup {key} |->
           IF k = key THEN [from |-> m.from, index |-> m.index] ELSE latest[p][k]]]
  BY DEF ODeliver, p, key
<1>7. FlowLatest' = [FlowLatest EXCEPT ![p] =
        [k \in DOMAIN FlowLatest[p] \cup {key} |->
           IF k = key THEN m.index ELSE FlowLatest[p][k]]]
  <2>1. \A q \in Parsers : q # p => latest'[q] = latest[q]
    BY <1>6 DEF OrderInv
  <2>2. /\ DOMAIN latest'[p] = DOMAIN latest[p] \cup {key}
        /\ \A k \in DOMAIN latest[p] \cup {key} :
             latest'[p][k].index = IF k = key THEN m.index ELSE latest[p][k].index
    BY <1>1, <1>6 DEF OrderInv
  <2>3. FlowLatest[p] = [k \in DOMAIN latest[p] |-> latest[p][k].index]
    BY <1>1 DEF FlowLatest
  <2>4. [k \in DOMAIN latest'[p] |-> latest'[p][k].index]
          = [k \in DOMAIN FlowLatest[p] \cup {key} |->
               IF k = key THEN m.index ELSE FlowLatest[p][k]]
    BY <2>2, <2>3
  <2>5. FlowLatest'
          = [q \in Parsers |-> [k \in DOMAIN latest'[q] |-> latest'[q][k].index]]
    BY DEF FlowLatest
  <2> QED
    BY <1>1, <2>1, <2>4, <2>5 DEF FlowLatest
<1>8. UNCHANGED <<FlowSequence, FlowSent, FlowNetwork>>
  BY <1>4 DEF ODeliver, uvars, FlowSequence, FlowSent, FlowNetwork
<1>9. Flow!Deliver(f)
  BY <1>2, <1>5, <1>7, <1>8 DEF Flow!Deliver
<1> QED
  BY <1>9 DEF f, FlowNetwork

\* A receiver run again has seen nothing: a reset of its parser.
LEMMA StartReceiverMaps ==
  ASSUME OrderInv, NEW p \in Parsers, OStartReceiver(p)
  PROVE  Flow!Reset(p)
<1>1. Flow!ResetSequences(p)
  BY FlowReceives DEF OStartReceiver, StartReceiver
<1>2. UNCHANGED <<FlowSequence, FlowSent, FlowNetwork>>
  BY DEF OStartReceiver, StartReceiver, uvars, FlowSequence, FlowSent, FlowNetwork
<1>3. FlowLatest' = [FlowLatest EXCEPT ![p] = NothingSeen]
  <2>1. \A q \in Parsers : latest'[q] = IF q = p THEN NothingSeen ELSE latest[q]
    BY DEF OStartReceiver, OrderInv
  <2>2. [k \in DOMAIN NothingSeen |-> NothingSeen[k].index] = NothingSeen
    BY DEF NothingSeen
  <2>3. FlowLatest'
          = [q \in Parsers |-> [k \in DOMAIN latest'[q] |-> latest'[q][k].index]]
    BY DEF FlowLatest
  <2> QED
    BY <2>1, <2>2, <2>3 DEF FlowLatest
<1>4. Flow!NothingSeen = NothingSeen
  BY DEF Flow!NothingSeen, NothingSeen
<1> QED
  BY <1>1, <1>2, <1>3, <1>4 DEF Flow!Reset

\* A datagram of others is refused here, and so by the parser of the flow.
LEMMA ForeignMaps ==
  ASSUME ForeignersAreRefused, NEW p \in Parsers, NEW d \in Datagrams, DeliverForeign(p, d),
         UNCHANGED <<sent, latest>>
  PROVE  Flow!DeliverForeign(p, Received(d))
<1>1. ParsePacketExact(Received(d), OptionsOf[p]).error # Ok
  BY ReceiverOptionsAssumption DEF ForeignersAreRefused
<1>2. ParseErr(p, Received(d)) /\ UNCHANGED <<uvars, network>>
  BY <1>1 DEF DeliverForeign, Receive, ParseDatagram, ParseOk
<1>3. Flow!ParseErr(p, Received(d))
  BY <1>2, FlowReceives
<1>4. UNCHANGED <<FlowSequence, FlowSent, FlowNetwork, FlowLatest>>
  BY <1>2 DEF uvars, FlowSequence, FlowSent, FlowNetwork, FlowLatest
<1> QED
  BY <1>3, <1>4 DEF Flow!DeliverForeign

-----------------------------------------------------------------------------
(* The refinement.                                                         *)

\* The programs start where a DatagramFlow starts.
LEMMA OInitMaps == OneSenderEach /\ OInit => OrderInv /\ Flow!FInit
<1> SUFFICES ASSUME OneSenderEach, OInit
             PROVE  OrderInv /\ Flow!FInit
  OBVIOUS
<1>1. SenderInv
  BY LInitSenders DEF OInit
<1>2. /\ network = {} /\ sent = [s \in Senders |-> [key \in Streams |-> 0]]
      /\ latest = [p \in Parsers |-> NothingSeen]
      /\ last_seen = [p \in Parsers |-> NothingSeen]
      /\ result = [p \in Parsers |-> NoResult]
      /\ data_sequence = [s \in Senders |-> 0] /\ context_sequence = [s \in Senders |-> 0]
  BY DEF OInit, LInit, UInit, Init
<1>3. OrderInv
  BY <1>1, <1>2, FS_EmptySet DEF OrderInv
<1>4. Flow!NothingSeen = NothingSeen /\ Flow!NoResult = NoResult
  BY DEF Flow!NothingSeen, NothingSeen, Flow!NoResult, NoResult
<1>5. FlowLatest = [p \in Parsers |-> NothingSeen]
  <2>1. [k \in DOMAIN NothingSeen |-> NothingSeen[k].index] = NothingSeen
    BY DEF NothingSeen
  <2> QED
    BY <1>2, <2>1 DEF FlowLatest
<1>6. FlowSequence = [p \in Parsers |-> [key \in Streams |-> 0]]
  BY <1>2, SenderOfReceiver DEF FlowSequence
<1>7. FlowSent = [p \in Parsers |-> [key \in Streams |-> 0]]
  BY <1>2, SenderOfReceiver DEF FlowSent
<1>8. FlowNetwork = {}
  BY <1>2 DEF FlowNetwork
<1> QED
  BY <1>2, <1>3, <1>4, <1>5, <1>6, <1>7, <1>8 DEF Flow!FInit, Flow!Init

\* OrderInv is inductive.
LEMMA OrderHolds == OrderInv /\ [ONext]_ovars => OrderInv'
<1> SUFFICES ASSUME OrderInv, [ONext]_ovars
             PROVE  OrderInv'
  OBVIOUS
<1>1. ASSUME UNCHANGED <<uvars, sent>>, network' \subseteq network,
             latest' = [p \in Parsers |-> latest'[p]]
      PROVE  OrderInv'
  <2>1. SenderInv'
    BY <1>1 DEF uvars, OrderInv, SenderInv, UdpSenderTypeOK
  <2>2. IsFiniteSet(network')
    BY <1>1, FS_Subset DEF OrderInv
  <2> QED
    BY <1>1, <2>1, <2>2 DEF OrderInv, Carried, Readable
<1>2. ASSUME NEW m \in network, ODeliver(m)
      PROVE  OrderInv'
  BY <1>1, <1>2 DEF ODeliver, Deliver, Receive, OrderInv
<1>3. ASSUME NEW p \in Parsers, OStartReceiver(p)
      PROVE  OrderInv'
  BY <1>1, <1>3 DEF OStartReceiver, StartReceiver, OrderInv
<1>4. ASSUME NEW s \in Senders, LStopSender(s), UNCHANGED <<sent, latest>>
      PROVE  OrderInv'
  <2>1. SenderInv'
    BY <1>4 DEF LStopSender, StopSender, OrderInv, SenderInv, UdpSenderTypeOK
  <2> QED
    BY <1>4, <2>1 DEF LStopSender, OrderInv, Carried, Readable
<1>5. ASSUME NEW m \in network, Lose(m), UNCHANGED <<sent, latest>>
      PROVE  OrderInv'
  BY <1>1, <1>5 DEF Lose, Drop, OrderInv
<1>6. ASSUME NEW p \in Parsers,
             (\E d \in Datagrams : DeliverForeign(p, d)) \/ StopReceiver(p),
             UNCHANGED <<sent, latest>>
      PROVE  OrderInv'
  BY <1>1, <1>6 DEF DeliverForeign, Receive, StopReceiver, OrderInv
<1>7. CASE UNCHANGED ovars
  BY <1>1, <1>7 DEF ovars, lvars, OrderInv
<1> QED
  BY <1>2, <1>3, <1>4, <1>5, <1>6, <1>7, SendKeepsOrder, StartSenderKeepsOrder DEF ONext, ORest

\* Every step of the programs is a step of the flow, or none.
LEMMA ONextMaps ==
  OneSenderEach /\ ForeignersAreRefused /\ OrderInv /\ [ONext]_ovars
    => [Flow!FNext]_(Flow!fvars)
<1> SUFFICES ASSUME OneSenderEach, ForeignersAreRefused, OrderInv, [ONext]_ovars
             PROVE  [Flow!FNext]_(Flow!fvars)
  OBVIOUS
<1>1. ASSUME NEW s \in Senders, OSend(s)
      PROVE  Flow!FNext
  <2>1. \E key \in Streams : Flow!Send(DestinationOf[s], key)
    BY <1>1, ContextSendMaps, DataSendMaps, StreamsDiffer DEF OSend
  <2> QED
    BY <2>1, DestinationAssumption DEF Flow!FNext
<1>2. ASSUME NEW s \in Senders, OStartSender(s)
      PROVE  Flow!FNext
  BY <1>2, StartSenderMaps, DestinationAssumption DEF Flow!FNext
<1>3. ASSUME NEW m \in network, ODeliver(m)
      PROVE  Flow!FNext
  BY <1>3, DeliverMaps DEF Flow!FNext
<1>4. ASSUME NEW p \in Parsers, OStartReceiver(p)
      PROVE  Flow!FNext
  BY <1>4, StartReceiverMaps DEF Flow!FNext
<1>5. ASSUME UNCHANGED <<last_seen, result, data_sequence, context_sequence, sent, network, latest>>
      PROVE  UNCHANGED Flow!fvars
  BY <1>5 DEF Flow!fvars, FlowSequence, FlowSent, FlowNetwork, FlowLatest
<1>6. ASSUME NEW m \in network, Lose(m), UNCHANGED <<sent, latest>>
      PROVE  Flow!FNext
  <2>1. Flow!Drop(FlowMessage(m)) /\ FlowMessage(m) \in FlowNetwork
    BY <1>6, DropMaps DEF Lose
  <2>2. UNCHANGED <<last_seen, result, FlowSequence, FlowSent, FlowLatest>>
    BY <1>6 DEF Lose, uvars, vars, FlowSequence, FlowSent, FlowLatest
  <2>3. Flow!Lose(FlowMessage(m))
    BY <2>1, <2>2 DEF Flow!Lose
  <2> QED
    BY <2>1, <2>3 DEF Flow!FNext
<1>7. ASSUME NEW p \in Parsers, NEW d \in Datagrams, DeliverForeign(p, d),
             UNCHANGED <<sent, latest>>
      PROVE  Flow!FNext
  BY <1>7, ForeignMaps DEF Flow!FNext
<1>8. ASSUME NEW s \in Senders, LStopSender(s), UNCHANGED <<sent, latest>>
      PROVE  UNCHANGED Flow!fvars
  BY <1>5, <1>8 DEF LStopSender, StopSender, vars
<1>9. ASSUME NEW p \in Parsers, StopReceiver(p), UNCHANGED <<sent, latest>>
      PROVE  UNCHANGED Flow!fvars
  BY <1>5, <1>9 DEF StopReceiver, uvars, vars
<1>10. CASE UNCHANGED ovars
  BY <1>5, <1>10 DEF ovars, lvars, uvars, vars
<1> QED
  BY <1>1, <1>2, <1>3, <1>4, <1>6, <1>7, <1>8, <1>9, <1>10 DEF ONext, ORest

(* The example programs are a DatagramFlow, as long as every receiver has  *)
(* a sender of its own and refuses what others send: two counters, one     *)
(* buffer, a restart with zeroes, a receive buffer and a loop that ends at *)
(* its first error do to the datagrams what sources, restarts and resets   *)
(* of the flow do, so that FlowImplementsTrueOrder speaks of what the      *)
(* receiver prints (udp_sender.rs 42-78, 109-124, udp_receiver.rs 5-32).   *)
THEOREM ProgramsAreADatagramFlow ==
  ASSUME OneSenderEach, ForeignersAreRefused
  PROVE  OSpec => ImplementsDatagramFlow
<1>1. OInit => OrderInv /\ Flow!FInit
  BY OInitMaps
<1>2. OrderInv /\ [ONext]_ovars => [Flow!FNext]_(Flow!fvars)
  BY ONextMaps
<1> QED
  BY <1>1, <1>2, OrderHolds, PTL DEF OSpec, ImplementsDatagramFlow, Flow!FSpec

-----------------------------------------------------------------------------
(* What the flow assumes of its constants.                                 *)

\* The stream and the number in the prologue of a datagram.
Numbers(key, sequence, prologue) ==
  /\ prologue.header.packet_type = key.packet_type
  /\ prologue.class_id.packet_class = key.packet_class
  /\ prologue.stream_id = key.stream_id
  /\ prologue.header.sequence = sequence

\* A context the sender may send is numbered as its builder was told.
LEMMA ContextWireIsNumbered ==
  ASSUME NEW sequence \in SequenceNumber, NEW d \in NumberedDatagrams(ContextStream, sequence)
  PROVE  \E words : /\ Accepted(DefaultOptions, words) /\ d = Slice(words)
                    /\ Numbers(ContextStream, sequence, PrologueOf(words))
<1>1. PICK now \in Times :
        d = Sent(WritePacket(SignalContextPacket(sequence, now), BlankBuffer, DefaultOptions))
  <2>1. NumberedDatagrams(ContextStream, sequence)
          = {Sent(WritePacket(SignalContextPacket(sequence, t), BlankBuffer, DefaultOptions)) :
               t \in Times}
    BY StreamsDiffer DEF NumberedDatagrams, DatagramsWith
  <2> QED
    BY <2>1
<1> DEFINE p == SignalContextPacket(sequence, now)
<1>2. PICK words : /\ Accepted(DefaultOptions, words) /\ PacketOf(words) = p
                   /\ \A b \in Bytes : Len(b.words) = UDP_DATAGRAM_WORDS =>
                        Sent(WritePacket(p, b, DefaultOptions)) = Slice(words)
  BY ContextIsFrame
<1>3. PrologueOf(words) = p.prologue
  BY <1>2 DEF PacketOf
<1>4. Numbers(ContextStream, sequence, p.prologue)
  BY DEF Numbers, SignalContextPacket, ContextStream, StreamOf
<1> HIDE DEF p
<1> QED
  BY <1>1, <1>2, <1>3, <1>4, BlankBufferType DEF p

\* And so is a data packet.
LEMMA DataWireIsNumbered ==
  ASSUME NEW sequence \in SequenceNumber, NEW d \in NumberedDatagrams(DataStream, sequence)
  PROVE  \E words : /\ Accepted(DefaultOptions, words) /\ d = Slice(words)
                    /\ Numbers(DataStream, sequence, PrologueOf(words))
<1>1. PICK count \in 0..(PacketCounts - 1), now \in Times :
        d = Sent(WriteIqData(16, SignalDataSpec(sequence, now), SamplesForPacket(count),
                             BlankBuffer))
  <2>1. NumberedDatagrams(DataStream, sequence)
          = {Sent(WriteIqData(16, SignalDataSpec(sequence, t), SamplesForPacket(n),
                              BlankBuffer)) : n \in 0..(PacketCounts - 1), t \in Times}
    BY StreamsDiffer DEF NumberedDatagrams, DatagramsWith
  <2> QED
    BY <2>1
<1> DEFINE Written(b) == WriteIqData(16, SignalDataSpec(sequence, now),
                                     SamplesForPacket(count), b)
<1>2. PICK words : /\ Accepted(DefaultOptions, words)
                   /\ PrologueOf(words).header.packet_type = SignalDataWithStreamId
                   /\ PrologueOf(words).class_id.packet_class = StandardFlowSignalData
                   /\ PrologueOf(words).header.sequence = sequence
                   /\ PrologueOf(words).stream_id = STREAM_ID
                   /\ \A b \in Bytes : Len(b.words) = UDP_DATAGRAM_WORDS =>
                        Sent(Written(b)) = Slice(words)
  BY DataIsFrame
<1>3. Numbers(DataStream, sequence, PrologueOf(words))
  BY <1>2 DEF Numbers, DataStream, StreamOf
<1> QED
  BY <1>1, <1>2, <1>3, BlankBufferType

(* The constants the flow is given are as DatagramFlow assumes: its keys   *)
(* are stream keys, the parser reads every datagram a sender may send, for *)
(* every count, clock reading and number, as the packet of that stream     *)
(* with that number, and what arrives is a byte slice (udp_sender.rs       *)
(* 58-63, 109-124): KeysAssumption, WireAssumption, DatagramsAssumption.   *)
THEOREM WiresAreNumbered ==
  /\ Streams \subseteq SequenceKey
  /\ \A p \in Parsers, key \in Streams, n \in SequenceNumber :
       \A d \in NumberedDatagrams(key, n) :
         LET parsed == ParsePacketExact(d, OptionsOf[p])
         IN /\ d.words \in Seq(Word) /\ d.extra \in 0..3
            /\ parsed.error = Ok
            /\ Numbers(key, n, parsed.packet.prologue)
  /\ \A d \in Datagrams : Received(d).words \in Seq(Word) /\ Received(d).extra \in 0..3
<1>1. Streams \subseteq SequenceKey
  <2>1. STREAM_ID \in Word
    BY ContextConstants
  <2> QED
    BY <2>1 DEF Streams, DataStream, ContextStream, StreamOf, SequenceKey, PacketType, PacketClassCode,
       SignalDataWithStreamId, ContextWithStreamId, StandardFlowSignalData, StandardFlowSignalContext
<1>2. ASSUME NEW p \in Parsers, NEW key \in Streams, NEW n \in SequenceNumber,
             NEW d \in NumberedDatagrams(key, n)
      PROVE  LET parsed == ParsePacketExact(d, OptionsOf[p])
             IN /\ d.words \in Seq(Word) /\ d.extra \in 0..3
                /\ parsed.error = Ok
                /\ Numbers(key, n, parsed.packet.prologue)
  <2>1. PICK words : /\ Accepted(DefaultOptions, words) /\ d = Slice(words)
                     /\ Numbers(key, n, PrologueOf(words))
    BY ContextWireIsNumbered, DataWireIsNumbered DEF Streams
  <2>2. words \in Seq(Word) /\ d.words = words /\ d.extra = 0
    BY <2>1 DEF Accepted, Slice
  <2>3. ParsePacketExact(d, OptionsOf[p]) = [error |-> Ok, packet |-> PacketOf(words)]
    BY <2>1, AcceptedIsExact, ReceiverOptionsAssumption
  <2>4. PacketOf(words).prologue = PrologueOf(words)
    BY DEF PacketOf
  <2> QED
    BY <2>1, <2>2, <2>3, <2>4
<1>3. ASSUME NEW d \in Datagrams
      PROVE  Received(d).words \in Seq(Word) /\ Received(d).extra \in 0..3
  BY DatagramsAssumption, ReceiveAssumption DEF Received, Slice
<1> QED
  BY <1>1, <1>2, <1>3
=============================================================================
