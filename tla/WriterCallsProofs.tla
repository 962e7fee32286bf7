------------------------- MODULE WriterCallsProofs --------------------------
(***************************************************************************)
(* The caller of the writer: every call, of any packet value, IQ request,  *)
(* slice and options, keeps the types of the slice and of what it returns, *)
(* and stores nothing but the packet it reports; a call that is given a    *)
(* parsed packet makes the datagram it came from; and the IQ helpers store *)
(* what write_packet does.                                                 *)
(***************************************************************************)
EXTENDS WriterCalls, WriteBackProofs

\* Every step of the caller is a call that keeps the rest of the slice.
LEMMA EveryCallKeepsTheRest ==
  ASSUME WTypeOK, WNext
  PROVE  \E result : Call(result) /\ KeepsTheRest(result, out)
<1>1. out \in Bytes
  BY DEF WTypeOK
<1>2. CASE \E p \in Built, o \in Options : WriteBuilt(p, o)
  <2>1. PICK p \in Built, o \in Options : WriteBuilt(p, o)
    BY <1>2
  <2>2. p \in PacketValue
    BY BuiltAssumption
  <2>3. Call(WritePacket(p, out, o))
    BY <2>1 DEF WriteBuilt
  <2> QED
    BY <1>1, <2>2, <2>3, WritePacketKeepsTheRest
<1>3. CASE \E d \in Datagrams, o \in Options : WriteParsed(d, o)
  <2>1. PICK d \in Datagrams, o \in Options : WriteParsed(d, o)
    BY <1>3
  <2> DEFINE parsed == ParsePacketExact(d, o)
  <2>2. parsed.error = Ok /\ Call(WritePacket(parsed.packet, out, o))
    BY <2>1 DEF WriteParsed
  <2>3. parsed.packet \in PacketValue
    <3>1. d \in Bytes
      BY WriterDatagramsAssumption
    <3> QED
      BY <2>2, <3>1, ParsedIsPacketValue
  <2> HIDE DEF parsed
  <2> QED
    BY <1>1, <2>2, <2>3, WritePacketKeepsTheRest
<1>4. CASE \E r \in IqRequests : WriteIq(r)
  <2>1. PICK r \in IqRequests : WriteIq(r)
    BY <1>4
  <2>2. /\ r.bits \in SampleBits /\ r.spec \in SpecValue
        /\ r.samples \in Seq(SampleValue(r.bits))
    BY IqRequestsAssumption
  <2>3. Call(WriteIqData(r.bits, r.spec, r.samples, out))
    BY <2>1 DEF WriteIq
  <2> QED
    BY <1>1, <2>2, <2>3, WriteIqDataKeepsTheRest
<1> QED
  BY <1>2, <1>3, <1>4 DEF WNext

\* The bytes a call reports fit in the slice they were stored in.
LEMMA WrittenFits ==
  ASSUME NEW after \in Bytes, NEW n \in 0..Len(after.words)
  PROVE  4 * n \in 0..ByteLen(after)
<1>1. Len(after.words) \in Nat /\ after.extra \in 0..3
  BY DEF Bytes
<1> QED
  BY <1>1 DEF ByteLen, WORD_BYTES

(* Every call of write_packet_with_options and of the IQ helpers returns   *)
(* Ok or an error of WriteError and leaves a slice of the same kind: no    *)
(* store of a body writer is out of range once prepare_packet has passed,  *)
(* none finds an optional field missing, and unreachable!() is not reached *)
(* (writer.rs 126-154, 917-1034).                                          *)
THEOREM WriterTypeCorrect == WSpec => []WTypeOK
<1>1. WInit => WTypeOK
  <2> SUFFICES ASSUME WInit
               PROVE  WTypeOK
    OBVIOUS
  <2>1. out \in Bytes /\ returned.error = "NotCalled" /\ returned.written = 0
    BY BuffersAssumption DEF WInit
  <2>2. 0 \in 0..ByteLen(out)
    <3>1. Len(out.words) \in Nat /\ out.extra \in 0..3
      BY <2>1 DEF Bytes
    <3> QED
      BY <3>1 DEF ByteLen, WORD_BYTES
  <2> QED
    BY <2>1, <2>2 DEF WTypeOK
<1>2. WTypeOK /\ [WNext]_wvars => WTypeOK'
  <2> SUFFICES ASSUME WTypeOK, [WNext]_wvars
               PROVE  WTypeOK'
    OBVIOUS
  <2>1. CASE WNext
    <3>1. PICK result : Call(result) /\ KeepsTheRest(result, out)
      BY <2>1, EveryCallKeepsTheRest
    <3>2. out' = result.out /\ returned'.error = result.error /\ returned'.written = result.written
      BY <3>1 DEF Call
    <3>3. /\ result.error \in WriteErrors \cup {Ok} /\ result.out \in Bytes
          /\ result.written \div 4 \in 0..Len(result.out.words)
          /\ result.written = 4 * (result.written \div 4)
      BY <3>1 DEF KeepsTheRest, WriteVerdict, WORD_BYTES
    <3>4. result.written \in 0..ByteLen(result.out)
      BY <3>3, WrittenFits
    <3> QED
      BY <3>2, <3>3, <3>4 DEF WTypeOK, ByteLen
  <2>2. CASE UNCHANGED wvars
    BY <2>2 DEF WTypeOK, wvars, ByteLen
  <2> QED
    BY <2>1, <2>2
<1> QED
  BY <1>1, <1>2, PTL DEF WSpec

\* Sequences that agree after their first n words have the same tail.
LEMMA SameTail ==
  ASSUME NEW s \in Seq(Word), NEW t \in Seq(Word), Len(s) = Len(t), NEW n \in 0..Len(s),
         \A j \in (n + 1)..Len(s) : t[j] = s[j]
  PROVE  SubSeq(t, n + 1, Len(t)) = SubSeq(s, n + 1, Len(s))
<1>1. /\ SubSeq(t, n + 1, Len(t)) = [i \in 1..(Len(s) - n) |-> t[n + i]]
      /\ SubSeq(s, n + 1, Len(s)) = [i \in 1..(Len(s) - n) |-> s[n + i]]
  OBVIOUS
<1>2. \A i \in 1..(Len(s) - n) : t[n + i] = s[n + i]
  OBVIOUS
<1> QED
  BY <1>1, <1>2

(* A call changes nothing of the slice but the packet it reports: an error *)
(* leaves all of it alone, since every check comes before the first store, *)
(* and success leaves what follows the packet alone (writer.rs 131-154).   *)
THEOREM CallsKeepTheRest == WSpec => OnlyThePacketIsWritten
<1> DEFINE Kept == /\ Len(out'.words) = Len(out.words) /\ out'.extra = out.extra
                   /\ Beyond(out', WrittenWords') = Beyond(out, WrittenWords')
<1>1. WTypeOK /\ [WNext]_wvars => [Kept]_wvars
  <2> SUFFICES ASSUME WTypeOK, WNext
               PROVE  Kept
    OBVIOUS
  <2>1. PICK result : Call(result) /\ KeepsTheRest(result, out)
    BY EveryCallKeepsTheRest
  <2> DEFINE n == result.written \div WORD_BYTES
  <2>2. out' = result.out /\ WrittenWords' = n
    BY <2>1 DEF Call, WrittenWords
  <2>3. /\ out \in Bytes /\ result.out \in Bytes
        /\ Len(result.out.words) = Len(out.words) /\ result.out.extra = out.extra
        /\ n \in 0..Len(out.words)
        /\ \A j \in (n + 1)..Len(out.words) : result.out.words[j] = out.words[j]
    BY <2>1 DEF KeepsTheRest, WTypeOK
  <2> HIDE DEF n
  <2>4. Beyond(result.out, n) = Beyond(out, n)
    <3>1. out.words \in Seq(Word) /\ result.out.words \in Seq(Word)
      BY <2>3 DEF Bytes
    <3> QED
      BY <2>3, <3>1, SameTail DEF Beyond
  <2> QED
    BY <2>2, <2>3, <2>4
<1>2. WSpec => []WTypeOK
  BY WriterTypeCorrect
<1> QED
  BY <1>1, <1>2, PTL DEF WSpec, OnlyThePacketIsWritten

-----------------------------------------------------------------------------
(* Writing back what was parsed, and what an IQ helper wrote.              *)

(* Parsing and writing back is the identity: under the options it was      *)
(* parsed with, a packet passes every check of prepare_packet (writer.rs   *)
(* 218-244, 430-915, the copies of the checks of parser.rs) and its        *)
(* stores (writer.rs 917-1034) make the words of the datagram again,       *)
(* unless the slice is shorter than the datagram.                          *)
THEOREM RewritingIsIdentity == WSpec => []RewriteIsIdentity
<1>1. WInit => RewriteIsIdentity
  BY DEF WInit, RewriteIsIdentity
<1>2. WTypeOK /\ RewriteIsIdentity /\ [WNext]_wvars => RewriteIsIdentity'
  <2> SUFFICES ASSUME WTypeOK, RewriteIsIdentity, [WNext]_wvars
               PROVE  RewriteIsIdentity'
    OBVIOUS
  <2>1. ASSUME NEW p \in Built, NEW o \in Options, WriteBuilt(p, o)
        PROVE  RewriteIsIdentity'
    BY <2>1 DEF WriteBuilt, RewriteIsIdentity
  <2>2. ASSUME NEW d \in Datagrams, NEW o \in Options, WriteParsed(d, o)
        PROVE  RewriteIsIdentity'
    <3> DEFINE parsed == ParsePacketExact(d, o)
               n      == Len(d.words)
               result == WritePacket(PacketOf(d.words), out, o)
    <3>1. d \in Bytes /\ out \in Bytes /\ parsed.error = Ok
      BY <2>2, WriterDatagramsAssumption DEF WriteParsed, WTypeOK
    <3>2. Accepted(o, d.words) /\ d.extra = 0 /\ parsed.packet = PacketOf(d.words)
      BY <3>1, ExactTakesAll
    <3>3. Call(result) /\ request'.source = d
      BY <2>2, <3>2 DEF WriteParsed
    <3>4. /\ out' = result.out
          /\ returned'.error = result.error /\ returned'.written = result.written
      BY <3>3 DEF Call
    <3>5. IF ByteLen(out) >= 4 * n
          THEN /\ result.error = Ok /\ result.written = 4 * n
               /\ SubSeq(result.out.words, 1, n) = d.words
          ELSE result.error = "OutputTooSmall" /\ result.out = out
      BY <3>1, <3>2, AcceptedWritesBack
    <3>6. n \in Nat /\ ByteLen(d) = 4 * n
      BY <3>1, <3>2 DEF Bytes, ByteLen, WORD_BYTES
    <3> HIDE DEF parsed, n, result
    <3>7. CASE ByteLen(out) >= 4 * n
      <4>1. WrittenWords' = n
        <5>1. (4 * n) \div 4 = n
          BY <3>6
        <5> QED
          BY <3>4, <3>5, <3>7, <5>1 DEF WrittenWords, WORD_BYTES
      <4>2. returned'.error = Ok /\ Encoded(out, WrittenWords)' = request'.source.words
        BY <3>3, <3>4, <3>5, <3>7, <4>1 DEF Encoded
      <4> QED
        BY <4>2 DEF RewriteIsIdentity
    <3>8. CASE ~(ByteLen(out) >= 4 * n)
      <4>1. returned'.error = "OutputTooSmall"
        BY <3>4, <3>5, <3>8
      <4>2. out' = out /\ request'.source = d
        BY <3>3, <3>4, <3>5, <3>8
      <4>3. ByteLen(out) < 4 * n
        <5>1. Len(out.words) \in Nat /\ out.extra \in 0..3
          BY <3>1 DEF Bytes
        <5>2. ByteLen(out) \in Nat
          BY <5>1 DEF ByteLen, WORD_BYTES
        <5> QED
          BY <3>6, <3>8, <5>2
      <4>4. ByteLen(out') < ByteLen(request'.source)
        BY <3>6, <4>2, <4>3
      <4> QED
        BY <4>1, <4>4 DEF ByteLen, RewriteIsIdentity
    <3> QED
      BY <3>7, <3>8
  <2>3. ASSUME NEW r \in IqRequests, WriteIq(r)
        PROVE  RewriteIsIdentity'
    BY <2>3 DEF WriteIq, RewriteIsIdentity
  <2>4. CASE UNCHANGED wvars
    BY <2>4 DEF wvars, RewriteIsIdentity, Encoded, WrittenWords
  <2> QED
    BY <2>1, <2>2, <2>3, <2>4 DEF WNext
<1>3. WSpec => []WTypeOK
  BY WriterTypeCorrect
<1> QED
  BY <1>1, <1>2, <1>3, PTL DEF WSpec

(* A written packet reads back as the value that was written, field by     *)
(* field and whatever the slice held before: prepare_packet lets a value   *)
(* through only when its raw and decoded fields agree (writer.rs 218-915), *)
(* and then it is what the parser makes of the words stored for it         *)
(* (writer.rs 846-1034 against parser.rs).                                 *)
THEOREM WrittenPacketsReadBack == WSpec => []ReadsBack
<1>1. WInit => ReadsBack
  BY DEF WInit, ReadsBack
<1>2. WTypeOK /\ ReadsBack /\ [WNext]_wvars => ReadsBack'
  <2> SUFFICES ASSUME WTypeOK, ReadsBack, [WNext]_wvars
               PROVE  ReadsBack'
    OBVIOUS
  <2>1. ASSUME NEW p \in PacketValue, NEW o, Call(WritePacket(p, out, o)),
               request'.packet = p, request'.options = o
        PROVE  ReadsBack'
    <3> DEFINE result == WritePacket(p, out, o)
    <3>1. out' = result.out /\ returned'.error = result.error /\ returned'.written = result.written
      BY <2>1 DEF Call
    <3>2. result.error = Ok /\ VariantAgrees(p) =>
            ParsePacketExact(Slice(FrameWritten(result)), o)
              = [error |-> Ok, packet |-> p]
      BY <2>1, WrittenReadsBack DEF VariantAgrees, WTypeOK
    <3> HIDE DEF result
    <3>3. ReadBack'
            = ParsePacketExact(Slice(FrameWritten(result)), o)
      BY <2>1, <3>1 DEF ReadBack, Encoded, WrittenWords, WORD_BYTES, FrameWritten
    <3> QED
      BY <2>1, <3>1, <3>2, <3>3 DEF ReadsBack, VariantAgrees
  <2>2. ASSUME NEW p \in Built, NEW o \in Options, WriteBuilt(p, o)
        PROVE  ReadsBack'
    BY <2>1, <2>2, BuiltAssumption DEF WriteBuilt
  <2>3. ASSUME NEW d \in Datagrams, NEW o \in Options, WriteParsed(d, o)
        PROVE  ReadsBack'
    <3>1. ParsePacketExact(d, o).packet \in PacketValue
      BY <2>3, ParsedIsPacketValue, WriterDatagramsAssumption DEF WriteParsed
    <3> QED
      BY <2>1, <2>3, <3>1 DEF WriteParsed
  <2>4. ASSUME NEW r \in IqRequests, WriteIq(r)
        PROVE  ReadsBack'
    BY <2>4 DEF WriteIq, ReadsBack
  <2>5. CASE UNCHANGED wvars
    BY <2>5 DEF wvars, ReadsBack, ReadBack, Encoded, WrittenWords
  <2> QED
    BY <2>2, <2>3, <2>4, <2>5 DEF WNext
<1>3. WSpec => []WTypeOK
  BY WriterTypeCorrect
<1> QED
  BY <1>1, <1>2, <1>3, PTL DEF WSpec

(* The two ways of writing a signal data packet agree, whatever the        *)
(* samples, the spec and the slice: an IQ helper fails as write_packet     *)
(* fails on the packet built by hand and leaves the same bytes behind, but *)
(* for the order in which they check the size and the number (writer.rs    *)
(* 1043-1139 against 218-427 and 846-871).                                 *)
THEOREM HelperWritesTheSame == WSpec => []HelperAgreesWithPacketWriter
<1>1. WInit => HelperAgreesWithPacketWriter
  BY DEF WInit, HelperAgreesWithPacketWriter
<1>2. WTypeOK /\ HelperAgreesWithPacketWriter /\ [WNext]_wvars => HelperAgreesWithPacketWriter'
  <2> SUFFICES ASSUME WTypeOK, HelperAgreesWithPacketWriter, [WNext]_wvars
               PROVE  HelperAgreesWithPacketWriter'
    OBVIOUS
  <2>1. ASSUME NEW p \in Built, NEW o \in Options, WriteBuilt(p, o)
        PROVE  HelperAgreesWithPacketWriter'
    BY <2>1 DEF WriteBuilt, HelperAgreesWithPacketWriter
  <2>2. ASSUME NEW d \in Datagrams, NEW o \in Options, WriteParsed(d, o)
        PROVE  HelperAgreesWithPacketWriter'
    BY <2>2 DEF WriteParsed, HelperAgreesWithPacketWriter
  <2>3. ASSUME NEW r \in IqRequests, WriteIq(r)
        PROVE  HelperAgreesWithPacketWriter'
    <3> DEFINE result  == WriteIqData(r.bits, r.spec, r.samples, out)
               by_hand == WritePacket(IqPacket(r), result.out, DefaultOptions)
               both    == /\ r.spec.sequence > 15
                          /\ IqPacketWords(r.bits, r.samples) > MAX_PACKET_WORDS
    <3>1. /\ request'.kind = "Iq" /\ request'.bits = r.bits /\ request'.spec = r.spec
          /\ request'.samples = r.samples
      BY <2>3 DEF WriteIq
    <3>2. IqPacket(request') = IqPacket(r)
      BY <3>1 DEF IqPacket
    <3>3. out' = result.out /\ returned'.error = result.error /\ returned'.written = result.written
      BY <2>3 DEF WriteIq, Call
    <3>4. result.error # "OddComplexI8SampleCount" =>
            /\ IF both
               THEN result.error = "FieldOutOfRange" /\ by_hand.error = "PacketTooLarge"
               ELSE by_hand.error = result.error
            /\ by_hand.written = result.written
            /\ by_hand.out = result.out
      <4>1. /\ r.bits \in SampleBits /\ r.spec \in SpecValue
            /\ r.samples \in Seq(SampleValue(r.bits))
        BY IqRequestsAssumption
      <4>2. out \in Bytes
        BY DEF WTypeOK
      <4> QED
        BY <4>1, <4>2, HelperAndPacketWriter
    <3>5. WritePacket(IqPacket(request'), out', DefaultOptions) = by_hand
      BY <3>2, <3>3
    <3>6. (/\ request.spec.sequence > 15
           /\ IqPacketWords(request.bits, request.samples) > MAX_PACKET_WORDS)' <=> both
      BY <3>1
    <3> HIDE DEF result, by_hand, both
    <3> QED
      BY <3>3, <3>4, <3>5, <3>6 DEF HelperAgreesWithPacketWriter
  <2>4. CASE UNCHANGED wvars
    BY <2>4 DEF wvars, HelperAgreesWithPacketWriter
  <2> QED
    BY <2>1, <2>2, <2>3, <2>4 DEF WNext
<1>3. WSpec => []WTypeOK
  BY WriterTypeCorrect
<1> QED
  BY <1>1, <1>2, <1>3, PTL DEF WSpec

(* Samples survive the trip, whatever they are and as many as fit in a     *)
(* packet: what an IQ helper stored reads back, under the default options, *)
(* as the packet built by hand (WrittenReadsBack), and the iterators undo  *)
(* its packing word by word, sign and order included (writer.rs 1043-1139, *)
(* samples.rs 22-82).                                                      *)
THEOREM SamplesReadAsSent == WSpec => []SamplesSurvive
<1>1. WInit => SamplesSurvive
  BY DEF WInit, SamplesSurvive
<1>2. WTypeOK /\ SamplesSurvive /\ [WNext]_wvars => SamplesSurvive'
  <2> SUFFICES ASSUME WTypeOK, SamplesSurvive, [WNext]_wvars
               PROVE  SamplesSurvive'
    OBVIOUS
  <2>1. ASSUME NEW p \in Built, NEW o \in Options, WriteBuilt(p, o)
        PROVE  SamplesSurvive'
    BY <2>1 DEF WriteBuilt, SamplesSurvive
  <2>2. ASSUME NEW d \in Datagrams, NEW o \in Options, WriteParsed(d, o)
        PROVE  SamplesSurvive'
    BY <2>2 DEF WriteParsed, SamplesSurvive
  <2>3. ASSUME NEW r \in IqRequests, WriteIq(r), returned'.error = Ok
        PROVE  SamplesSurvive'
    <3> DEFINE result  == WriteIqData(r.bits, r.spec, r.samples, out)
               payload == Slice(PayloadWords(r.bits, r.samples))
    <3>1. /\ request'.bits = r.bits /\ request'.samples = r.samples
          /\ request'.options = DefaultOptions
          /\ out' = result.out /\ returned'.error = result.error
          /\ returned'.written = result.written
      BY <2>3 DEF WriteIq, Call
    <3>2. /\ r.bits \in SampleBits /\ r.spec \in SpecValue
          /\ r.samples \in Seq(SampleValue(r.bits))
          /\ out \in Bytes /\ result.error = Ok
      BY <2>3, <3>1, IqRequestsAssumption DEF WTypeOK
    <3>3. ParsePacketExact(Slice(FrameWritten(result)), DefaultOptions)
            = [error |-> Ok, packet |-> IqPacket(r)]
      BY <3>2, IqReadsBack
    <3>4. IqSamplesError(r.bits, payload) = Ok /\ IqSamples(r.bits, payload) = r.samples
      BY <3>2, SamplesOfHelper
    <3>5. IqPacket(r).variant = "SignalData" /\ IqPacket(r).body.payload = payload
      BY DEF IqPacket
    <3> HIDE DEF result, payload
    <3>6. ReadBack' = [error |-> Ok, packet |-> IqPacket(r)]
      BY <3>1, <3>3 DEF ReadBack, Encoded, WrittenWords, WORD_BYTES, FrameWritten
    <3> QED
      BY <3>1, <3>4, <3>5, <3>6 DEF SamplesSurvive
  <2>4. CASE UNCHANGED wvars
    BY <2>4 DEF wvars, SamplesSurvive, ReadBack, Encoded, WrittenWords
  <2>5. returned'.error # Ok => SamplesSurvive'
    BY DEF SamplesSurvive
  <2> QED
    BY <2>1, <2>2, <2>3, <2>4, <2>5 DEF WNext
<1>3. WSpec => []WTypeOK
  BY WriterTypeCorrect
<1> QED
  BY <1>1, <1>2, <1>3, PTL DEF WSpec
=============================================================================
